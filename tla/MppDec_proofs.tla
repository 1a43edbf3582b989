---------------------------- MODULE MppDec_proofs -----------------------------
(***************************************************************************)
(* Theorems about MppDec, for any number of frame slots, any limits and    *)
(* any sessions.                                                           *)
(*                                                                         *)
(* Base is about the threads: the task handles, how far the parser and the *)
(* hal thread are with a task, and the handshake of a reset.  It has one   *)
(* lemma per action.  From it, each step is sorted into one of ten Kinds   *)
(* (StepKinds) by the marks it sets and clears in the two pools, so that   *)
(* the rest need not look at the actions again:                            *)
(*                                                                         *)
(*   PacketInv   each packet slot in use is the input of one task          *)
(*   SlotsInv    each mark on a frame slot is that of the codec, of one    *)
(*               task or of the display queue                              *)
(*   FrameInv    the slots of a task hold the pictures of its packets      *)
(*   OrderInv    the pictures fetched, those to be fetched and those in    *)
(*               the display queue are in the order of the packets         *)
(*   PostInv     what is left when a reset is through                      *)
(*   WakeInv     what the parser waits for is told to it                   *)
(*                                                                         *)
(* Base needs a slot to be there when the parser takes one (Room), and     *)
(* Room follows from PacketInv and SlotsInv: the three are one invariant,  *)
(* IInv.                                                                   *)
(***************************************************************************)
EXTENDS MppDec, SlotLemmas, TLAPS

-----------------------------------------------------------------------------
(* Types, the handles, and what each thread has in hand. *)

FrameSlots == 0 .. NumSlots - 1

TaskInfos ==
    [ valid : BOOLEAN, eos : BOOLEAN, change : BOOLEAN, input : 0 .. 2 \cup {NoSlot},
      output : FrameSlots \cup {NoSlot}, refer : SUBSET FrameSlots, pkt : Nat ]

AtWork == {"pkt", "copy", "prev", "display", "slot", "parse", "change"}

ParserPcs == {"check", "wait", "reset", "sem_hal", "post", "exited"} \cup AtWork

DecTasks ==
    [ pc : ParserPcs, hnd : Hnds \cup {None}, wait : SUBSET WaitBits, info : TaskInfos,
      prev_rdy : BOOLEAN, curr_rdy : BOOLEAN, copy_rdy : BOOLEAN,
      parsed_rdy : BOOLEAN, gen_rdy : BOOLEAN ]

(* The hal thread has a task that is still in TASK_PROCESSING. *)
Holding == {"change", "eos", "idle", "hw", "done"}

HalPcs == {"check", "wait", "clear", "push", "notify", "exited"} \cup Holding

Shared ==
    [ status_flag : SUBSET WaitBits, notify_flag : SUBSET Reset, reset_flag : BOOLEAN,
      locked : BOOLEAN, reset_post : Nat, reset_done : Nat, hal_reset : Nat,
      parser_reset : Nat ]

TypeInv ==
    /\ session \in Sessions
    /\ tasks \in GroupsOf(TaskCount, TaskInfos)
    /\ task \in DecTasks
    /\ codec \in [ref0 : FrameSlots \cup {NoSlot}, found_i : BOOLEAN]
    /\ hal \in [pc : HalPcs, hnd : Hnds \cup {None}, info : TaskInfos]
    /\ dec \in Shared
    /\ mPackets \in Seq(Nat)
    /\ user \in {"idle", "ready", "ready_notify"} \cup
                {"flag", "notify", "unlock", "sem", "flush"}
    /\ clr \in {"idle", "join_parser", "join_hal", "done"}
    /\ sent \in Nat /\ sent <= Len(stream) /\ resets \in Nat

(* A task for the hardware, and not an announcement. *)
IsDecode(info) == info.valid /\ ~info.change

(* The tasks handed to the hal thread, the one at work among them. *)
Todo == LET P == tasks.list["TASK_PROCESSING"]
        IN  [k \in 1 .. Len(P) |-> tasks.info[P[k]]]

ProcDone == tasks.list["TASK_PROC_DONE"]

AllLinked(g) == \A h \in Hnds : \E s \in TaskStatuses : h \in ToSet(g.list[s])

(* Each handle is linked once; the parser prepares the first idle one, and *)
(* the hal thread works on the first that it was given.                    *)
HandlesInv ==
    /\ LinkedOnce(tasks)
    /\ AllLinked(tasks)
    /\ task.hnd # None =>
          HasHnd(tasks, "TASK_IDLE") /\ task.hnd = GetHnd(tasks, "TASK_IDLE")
    /\ hal.pc \in Holding =>
          /\ HasHnd(tasks, "TASK_PROCESSING")
          /\ hal.hnd = GetHnd(tasks, "TASK_PROCESSING")
          /\ hal.info = tasks.info[hal.hnd]

(* An announcement, the end of the stream, or a picture. *)
TodoInv ==
    /\ \A k \in 1 .. Len(Todo) : Todo[k].change => Todo[k].valid /\ ~Todo[k].eos
    /\ \A k \in 1 .. Len(Todo) : ~Todo[k].valid => Todo[k].eos
    /\ hal.pc \in {"hw", "done", "clear", "push"} => IsDecode(hal.info)
    /\ hal.pc = "change" => hal.info.change
    /\ hal.pc = "eos" => ~hal.info.valid
    /\ hal.pc = "idle" => ~IsDecode(hal.info)

(* The stages of the task in hand. *)
TaskInv ==
    /\ task.pc \in AtWork => task.hnd # None
    /\ task.pc \in AtWork \ {"pkt"} => task.curr_rdy
    /\ task.curr_rdy /\ task.pc # "copy" => task.copy_rdy
    /\ task.pc \in {"display", "slot", "parse", "change"} => FastMode \/ task.prev_rdy
    /\ task.pc = "change" => task.parsed_rdy
    /\ task.info.valid <=> task.curr_rdy
    /\ task.curr_rdy =>
          task.info.pkt \in 1 .. sent /\ stream[task.info.pkt].kind # "eos"
    /\ task.copy_rdy => task.curr_rdy
    /\ task.parsed_rdy =>
          task.copy_rdy /\ task.info.output \in FrameSlots /\ (FastMode \/ task.prev_rdy)
    /\ task.gen_rdy => task.parsed_rdy
    /\ "info_change" \in task.wait => task.gen_rdy
    /\ task.info.change <=> task.gen_rdy
    /\ codec.found_i <=> codec.ref0 # NoSlot
    /\ \A k \in 1 .. Len(mPackets) : mPackets[k] \in 1 .. sent

(* Nothing is left for the hal thread to do. *)
Quiet == ~HasHnd(tasks, "TASK_PROCESSING") /\ hal.pc \in {"check", "wait"}

(* Which calls of a reset were made, and what has come back. *)
ResetInv ==
    /\ IF task.pc = "sem_hal"
       THEN \/ dec.reset_post = dec.reset_done + 1 /\ dec.hal_reset = 0
            \/ /\ dec.reset_post = dec.reset_done /\ dec.hal_reset = 1
             /\ Quiet /\ ProcDone = <<>>
       ELSE dec.reset_post = dec.reset_done /\ dec.hal_reset = 0
    /\ task.pc = "post" => Quiet /\ task = NewTask("post")
    /\ task.pc \in {"sem_hal", "post"} => dec.reset_flag
    /\ dec.locked <=> user \in {"notify", "unlock"}
    /\ user \in {"notify", "unlock"} => dec.reset_flag /\ dec.parser_reset = 0
    /\ user = "sem" => dec.parser_reset = IF dec.reset_flag THEN 0 ELSE 1
    /\ user \notin {"notify", "unlock", "sem"} => ~dec.reset_flag /\ dec.parser_reset = 0
    /\ clr # "idle" => user = "idle"
    /\ clr \in {"join_hal", "done"} => task.pc = "exited"
    /\ task.pc = "exited" => clr # "idle"
    /\ hal.pc = "exited" => clr \in {"join_hal", "done"}

(* Unless in fast mode, one picture at a time is with the hal thread, and  *)
(* none once the parser knows that the previous one is done.               *)
PrevInv ==
    /\ FastMode => ProcDone = <<>>
    /\ ~FastMode => Len(ProcDone) <= 1
    /\ ~FastMode => \A j, k \in 1 .. Len(Todo) :
                       IsDecode(Todo[j]) /\ IsDecode(Todo[k]) => j = k
    /\ ~FastMode /\ (task.prev_rdy \/ ProcDone # <<>>) =>
           \A k \in 1 .. Len(Todo) : ~IsDecode(Todo[k])
    /\ ~FastMode /\ task.prev_rdy => ProcDone = <<>>

Base == TypeInv /\ HandlesInv /\ TodoInv /\ TaskInv /\ ResetInv /\ PrevInv

(* There is a slot when the parser takes one. *)
Room ==
    /\ task.pc = "copy" /\ ~task.copy_rdy => FirstUnused(pslots) \in 0 .. 2
    /\ task.pc = "parse" /\ ~task.parsed_rdy => FirstUnused(slots) \in FrameSlots

-----------------------------------------------------------------------------
(* The fields of the records. *)

(* What a session has. *)
LEMMA SessionFacts ==
    ASSUME session \in Sessions
    PROVE  /\ stream \in Seq(Packets) /\ Len(stream) \in Nat /\ FastMode \in BOOLEAN
           /\ session.resets \in Nat /\ session.clear \in BOOLEAN
           /\ DOMAIN stream = 1 .. Len(stream)
           /\ \A n \in 1 .. Len(stream) :
                 /\ stream[n].kind \in PacketKinds /\ stream[n].eos \in BOOLEAN
                 /\ stream[n].info \in Geometries
                 /\ stream[n].kind = "eos" => stream[n].eos
<1>1. /\ stream \in Seq(Packets) /\ FastMode \in BOOLEAN
      /\ session.resets \in Nat /\ session.clear \in BOOLEAN
      /\ \A n \in DOMAIN stream : stream[n].kind = "eos" => stream[n].eos
  BY SessionsAssumption DEF stream, FastMode
<1>2. DOMAIN stream = 1 .. Len(stream) /\ Len(stream) \in Nat
  BY <1>1
<1>3. \A n \in 1 .. Len(stream) : stream[n] \in Packets
  BY <1>1
<1> QED BY <1>1, <1>2, <1>3 DEF Packets

(* The session never changes. *)
LEMMA SessionKept ==
    ASSUME Next
    PROVE  session' = session /\ stream' = stream /\ FastMode' = FastMode
           /\ InitInfo' = InitInfo
<1>1. session' = session
  BY DEF Next, Parser, HalThread, ResetSteps, Finished, vars, ParserCheck, ParserReset,
     ParserDrop, ParserResetDone, ParserGetHnd, ParserGetPacket, ParserCopy,
     ParserWaitPrev, ParserWaitDisplay, ParserWaitSlot, ParserParse, ParserDropPacket,
     ParserInfoChange, ParserWaitReady, ParserStart, ParserExit, HalTake, HalReset,
     HalSleep, HalInfoChange, HalEos, HalSetIdle, HalHwDone, HalTaskDone, HalClear,
     HalPush, HalNotify, HalExit, PutPacket, GetFrame, GetNothing, SetReady,
     NotifyReady, ResetStart, ResetFlag, ResetNotify, ResetUnlock, ResetWait,
     ResetFlush, ClearStart, ClearStopHal, ClearDone
<1> QED BY <1>1 DEF stream, FastMode, InitInfo

-----------------------------------------------------------------------------
(* The task group. *)

(* From g to r handle h goes to the end of list t. *)
Moved(g, r, h, t) ==
    /\ LinkedOnce(r) /\ r.info = g.info
    /\ \A s \in TaskStatuses \ {t} :
          /\ ToSet(r.list[s]) = ToSet(g.list[s]) \ {h}
          /\ h \notin ToSet(g.list[s]) => r.list[s] = g.list[s]
          /\ g.list[s] # <<>> /\ h = Head(g.list[s]) => r.list[s] = Tail(g.list[s])
    /\ ToSet(r.list[t]) = ToSet(g.list[t]) \cup {h}
    /\ h \notin ToSet(g.list[t]) => r.list[t] = Append(g.list[t], h)

(* hal_task_hnd_set_status, for any handle. *)
LEMMA SetStatusAny ==
    ASSUME NEW I, NEW g \in GroupsOf(TaskCount, I), LinkedOnce(g),
           NEW h \in Hnds, NEW t \in TaskStatuses, NEW r, r = SetStatus(g, h, t)
    PROVE  r \in GroupsOf(TaskCount, I) /\ Moved(g, r, h, t)
<1> DEFINE rem(s) == RemoveFirst(g.list[s], h)
<1>1. /\ g.list \in [TaskStatuses -> Seq(Hnds)] /\ g.info \in [Hnds -> I]
      /\ g = [list |-> g.list, info |-> g.info]
  BY DEF GroupsOf, Hnds
<1>2. \A s \in TaskStatuses : /\ g.list[s] \in Seq(Hnds) /\ IsInjective(g.list[s])
                              /\ \A u \in TaskStatuses \ {s} :
                                    ToSet(g.list[s]) \cap ToSet(g.list[u]) = {}
  BY <1>1 DEF LinkedOnce
<1>3. \A s \in TaskStatuses :
         /\ rem(s) \in Seq(Hnds) /\ ToSet(rem(s)) = ToSet(g.list[s]) \ {h}
         /\ IsInjective(rem(s))
         /\ h \notin ToSet(g.list[s]) => rem(s) = g.list[s]
  <2> SUFFICES ASSUME NEW s \in TaskStatuses
               PROVE  /\ rem(s) \in Seq(Hnds) /\ ToSet(rem(s)) = ToSet(g.list[s]) \ {h}
                      /\ IsInjective(rem(s))
                      /\ h \notin ToSet(g.list[s]) => rem(s) = g.list[s]
    OBVIOUS
  <2>1. g.list[s] \in Seq(Hnds) /\ IsInjective(g.list[s])
    BY <1>2
  <2> QED BY <2>1, RemoveToSet
<1>4. \A s \in TaskStatuses :
         g.list[s] # <<>> /\ h = Head(g.list[s]) => rem(s) = Tail(g.list[s])
  <2> SUFFICES ASSUME NEW s \in TaskStatuses, g.list[s] # <<>>, h = Head(g.list[s])
               PROVE  rem(s) = Tail(g.list[s])
    OBVIOUS
  <2>1. g.list[s] \in Seq(Hnds) /\ IsInjective(g.list[s])
    BY <1>2
  <2> QED BY <2>1, RemoveHead
<1>5. /\ Append(rem(t), h) \in Seq(Hnds)
      /\ ToSet(Append(rem(t), h)) = ToSet(g.list[t]) \cup {h}
      /\ IsInjective(Append(rem(t), h))
  <2> DEFINE k == rem(t)
             N == Hnds
  <2>1. k \in Seq(N) /\ IsInjective(k) /\ h \notin ToSet(k) /\ h \in N
    BY <1>3
  <2>2. ToSet(k) \cup {h} = ToSet(g.list[t]) \cup {h}
    BY <1>3
  <2> HIDE DEF k, N
  <2>3. /\ Append(k, h) \in Seq(N) /\ ToSet(Append(k, h)) = ToSet(k) \cup {h}
        /\ IsInjective(Append(k, h))
    BY <2>1, AppendToSet
  <2> QED BY <2>2, <2>3 DEF k, N
<1> HIDE DEF rem
<1> DEFINE l == [s \in TaskStatuses |-> IF s = t THEN Append(rem(t), h) ELSE rem(s)]
<1>6. r = [list |-> l, info |-> g.info]
  <2>1. r = [g EXCEPT !.list = [[s \in TaskStatuses |-> rem(s)] EXCEPT ![t] = Append(@, h)]]
    BY <1>1 DEF SetStatus, rem
  <2>2. [[s \in TaskStatuses |-> rem(s)] EXCEPT ![t] = Append(@, h)] = l
    OBVIOUS
  <2> HIDE DEF l
  <2> QED BY <1>1, <2>1, <2>2
<1>7. /\ l \in [TaskStatuses -> Seq(Hnds)] /\ l[t] = Append(rem(t), h)
      /\ \A s \in TaskStatuses \ {t} : l[s] = rem(s)
  BY <1>3, <1>5
<1> HIDE DEF l
<1>8. r \in GroupsOf(TaskCount, I) /\ r.info = g.info /\ r.list = l
  BY <1>1, <1>6, <1>7 DEF GroupsOf, Hnds
<1>9. /\ ToSet(l[t]) = ToSet(g.list[t]) \cup {h} /\ IsInjective(l[t])
      /\ \A s \in TaskStatuses \ {t} :
            ToSet(l[s]) = ToSet(g.list[s]) \ {h} /\ IsInjective(l[s])
  BY <1>3, <1>5, <1>7
<1>10. LinkedOnce(r)
  <2>1. \A s \in TaskStatuses : IsInjective(l[s])
    BY <1>9
  <2>2. ASSUME NEW s \in TaskStatuses, NEW u \in TaskStatuses \ {s}
        PROVE  ToSet(l[s]) \cap ToSet(l[u]) = {}
    <3>1. ToSet(g.list[s]) \cap ToSet(g.list[u]) = {}
      BY <1>2
    <3>2. CASE s = t
      BY <1>9, <3>1, <3>2
    <3>3. CASE u = t
      BY <1>9, <3>1, <3>3
    <3>4. CASE s # t /\ u # t
      BY <1>9, <3>1, <3>4
    <3> QED BY <3>2, <3>3, <3>4
  <2> QED BY <1>8, <2>1, <2>2 DEF LinkedOnce
<1>11. h \notin ToSet(g.list[t]) => l[t] = Append(g.list[t], h)
  BY <1>3, <1>7
<1> QED BY <1>3, <1>4, <1>7, <1>8, <1>9, <1>10, <1>11 DEF Moved

(* The lists of the task group. *)
LEMMA TaskLists ==
    ASSUME TypeInv
    PROVE  /\ tasks.list["TASK_IDLE"] \in Seq(Hnds)
           /\ tasks.list["TASK_PROCESSING"] \in Seq(Hnds)
           /\ ProcDone \in Seq(Hnds)
           /\ tasks.info \in [Hnds -> TaskInfos]
           /\ TaskCount \in Nat /\ None \notin Hnds
           /\ Todo \in Seq(TaskInfos)
           /\ Len(Todo) = Len(tasks.list["TASK_PROCESSING"]) /\ Len(Todo) \in Nat
           /\ Todo = [k \in 1 .. Len(tasks.list["TASK_PROCESSING"]) |->
                         tasks.info[tasks.list["TASK_PROCESSING"][k]]]
           /\ Todo # <<>> <=> HasHnd(tasks, "TASK_PROCESSING")
<1> DEFINE P == tasks.list["TASK_PROCESSING"]
<1>1. /\ tasks.list \in [TaskStatuses -> Seq(Hnds)] /\ tasks.info \in [Hnds -> TaskInfos]
  BY DEF TypeInv, GroupsOf, Hnds
<1>2. tasks.list["TASK_IDLE"] \in Seq(Hnds) /\ P \in Seq(Hnds) /\ ProcDone \in Seq(Hnds)
  BY <1>1 DEF TaskStatuses, ProcDone
<1>3. TaskCount \in Nat /\ None \notin Hnds
  BY CountAssumption, NoneAssumption DEF Hnds
<1>4. /\ Todo = [k \in 1 .. Len(P) |-> tasks.info[P[k]]] /\ Len(P) \in Nat
      /\ \A k \in 1 .. Len(P) : tasks.info[P[k]] \in TaskInfos
  BY <1>1, <1>2 DEF Todo
<1> HIDE DEF P
<1>5. Todo \in Seq(TaskInfos) /\ Len(Todo) = Len(P)
  BY <1>4
<1>6. Todo # <<>> <=> P # <<>>
  BY <1>2, <1>5
<1> QED BY <1>1, <1>2, <1>3, <1>4, <1>5, <1>6 DEF P, HasHnd

(* The hal thread works on the first of them. *)
LEMMA HoldingFacts ==
    ASSUME TypeInv, HandlesInv, hal.pc \in Holding
    PROVE  /\ Todo # <<>> /\ Todo[1] = hal.info /\ 1 \in 1 .. Len(Todo)
           /\ hal.hnd \in Hnds /\ hal.hnd = Head(tasks.list["TASK_PROCESSING"])
           /\ HasHnd(tasks, "TASK_PROCESSING")
<1> DEFINE P == tasks.list["TASK_PROCESSING"]
<1>1. /\ P \in Seq(Hnds) /\ P # <<>> /\ hal.hnd = Head(P) /\ hal.info = tasks.info[hal.hnd]
      /\ Todo = [k \in 1 .. Len(P) |-> tasks.info[P[k]]] /\ Len(Todo) = Len(P)
  BY TaskLists DEF HandlesInv, HasHnd, GetHnd
<1> HIDE DEF P
<1>2. 1 \in 1 .. Len(P) /\ Head(P) = P[1] /\ P[1] \in Hnds
  BY <1>1
<1> QED BY <1>1, <1>2 DEF P, HasHnd

(* mpp_dec_put_task: the idle handle of the parser is the last to be done. *)
LEMMA PutTaskFacts ==
    ASSUME TypeInv, HandlesInv, task.hnd # None, NEW info \in TaskInfos,
           tasks' = SetStatus(SetInfo(tasks, task.hnd, info),
                              task.hnd, "TASK_PROCESSING")
    PROVE  /\ tasks' \in GroupsOf(TaskCount, TaskInfos)
           /\ LinkedOnce(tasks') /\ AllLinked(tasks')
           /\ Todo' = Append(Todo, info)
           /\ ProcDone' = ProcDone
           /\ HasHnd(tasks', "TASK_PROCESSING")
           /\ HasHnd(tasks, "TASK_PROCESSING") =>
                 LET h == GetHnd(tasks, "TASK_PROCESSING")
                 IN  GetHnd(tasks', "TASK_PROCESSING") = h /\ tasks'.info[h] = tasks.info[h]
<1> DEFINE h == task.hnd
           g == SetInfo(tasks, h, info)
           P == tasks.list["TASK_PROCESSING"]
           Q == tasks'.list["TASK_PROCESSING"]
<1>1. /\ tasks.list \in [TaskStatuses -> Seq(Hnds)] /\ tasks.info \in [Hnds -> TaskInfos]
      /\ tasks = [list |-> tasks.list, info |-> tasks.info]
  BY DEF TypeInv, GroupsOf, Hnds
<1>2. /\ h \in Hnds /\ h = Head(tasks.list["TASK_IDLE"]) /\ tasks.list["TASK_IDLE"] # <<>>
      /\ h \in ToSet(tasks.list["TASK_IDLE"])
  <2>1. h = Head(tasks.list["TASK_IDLE"]) /\ tasks.list["TASK_IDLE"] # <<>>
    BY DEF HandlesInv, HasHnd, GetHnd
  <2>2. tasks.list["TASK_IDLE"] \in Seq(Hnds) /\ IsInjective(tasks.list["TASK_IDLE"])
    BY TaskLists DEF HandlesInv, LinkedOnce, TaskStatuses
  <2> QED BY <2>1, <2>2, TailToSet
<1>3. /\ g.list = tasks.list /\ g.info = [tasks.info EXCEPT ![h] = info]
      /\ g \in GroupsOf(TaskCount, TaskInfos) /\ LinkedOnce(g)
  BY <1>1, <1>2 DEF SetInfo, GroupsOf, Hnds, LinkedOnce, HandlesInv
<1> HIDE DEF g
<1>4. /\ h \notin ToSet(P) /\ h \notin ToSet(ProcDone)
  BY <1>2 DEF HandlesInv, LinkedOnce, TaskStatuses, ProcDone
<1>5. /\ tasks' \in GroupsOf(TaskCount, TaskInfos) /\ LinkedOnce(tasks')
      /\ tasks'.info = g.info
      /\ \A s \in TaskStatuses \ {"TASK_PROCESSING"} :
            /\ ToSet(tasks'.list[s]) = ToSet(tasks.list[s]) \ {h}
            /\ h \notin ToSet(tasks.list[s]) => tasks'.list[s] = tasks.list[s]
      /\ ToSet(Q) = ToSet(P) \cup {h}
      /\ Q = Append(P, h)
  <2> DEFINE r == tasks'
  <2>1. r = SetStatus(g, h, "TASK_PROCESSING") /\ "TASK_PROCESSING" \in TaskStatuses
    BY DEF TaskStatuses, g
  <2>2. h \in Hnds
    BY <1>2
  <2> HIDE DEF r, h
  <2>3. /\ r \in GroupsOf(TaskCount, TaskInfos) /\ LinkedOnce(r) /\ r.info = g.info
        /\ \A s \in TaskStatuses \ {"TASK_PROCESSING"} :
              /\ ToSet(r.list[s]) = ToSet(g.list[s]) \ {h}
              /\ h \notin ToSet(g.list[s]) => r.list[s] = g.list[s]
        /\ ToSet(r.list["TASK_PROCESSING"]) = ToSet(g.list["TASK_PROCESSING"]) \cup {h}
        /\ h \notin ToSet(g.list["TASK_PROCESSING"]) =>
              r.list["TASK_PROCESSING"] = Append(g.list["TASK_PROCESSING"], h)
    <3>1. g \in GroupsOf(TaskCount, TaskInfos) /\ LinkedOnce(g)
      BY <1>3
    <3>2. r \in GroupsOf(TaskCount, TaskInfos) /\ Moved(g, r, h, "TASK_PROCESSING")
      BY <2>1, <2>2, <3>1, SetStatusAny
    <3> QED BY <3>2 DEF Moved
  <2> QED BY <1>3, <1>4, <2>3 DEF r
<1>6. AllLinked(tasks')
  <2> SUFFICES ASSUME NEW k \in Hnds
               PROVE  \E s \in TaskStatuses : k \in ToSet(tasks'.list[s])
    BY DEF AllLinked
  <2>1. PICK s \in TaskStatuses : k \in ToSet(tasks.list[s])
    BY DEF HandlesInv, AllLinked
  <2>2. "TASK_PROCESSING" \in TaskStatuses
    BY DEF TaskStatuses
  <2> QED BY <1>5, <2>1, <2>2
<1>7. ProcDone' = ProcDone
  BY <1>4, <1>5 DEF ProcDone, TaskStatuses
<1> HIDE DEF h
<1>8. /\ P \in Seq(Hnds) /\ Len(P) \in Nat
      /\ \A i \in 1 .. Len(P) : P[i] \in Hnds /\ P[i] # h
  BY <1>4, TaskLists DEF ToSet
<1>9. /\ Q \in Seq(Hnds) /\ Len(Q) = Len(P) + 1 /\ Q[Len(P) + 1] = h /\ Q # <<>>
      /\ \A i \in 1 .. Len(P) : Q[i] = P[i]
  <2> DEFINE p == P
  <2>1. p \in Seq(Hnds) /\ h \in Hnds
    BY <1>2, <1>8 DEF h
  <2> HIDE DEF p
  <2>2. /\ Append(p, h) \in Seq(Hnds) /\ Len(Append(p, h)) = Len(p) + 1
        /\ Append(p, h)[Len(p) + 1] = h /\ Append(p, h) # <<>>
        /\ \A i \in 1 .. Len(p) : Append(p, h)[i] = p[i]
    BY <2>1
  <2> QED BY <1>5, <2>2 DEF p
<1>10. /\ \A i \in 1 .. Len(P) : tasks'.info[P[i]] = tasks.info[P[i]]
       /\ tasks'.info[h] = info
  <2>1. /\ h \in Hnds /\ tasks.info \in [Hnds -> TaskInfos]
        /\ tasks'.info = [tasks.info EXCEPT ![h] = info]
    BY <1>1, <1>2, <1>3, <1>5 DEF h
  <2> QED BY <1>8, <2>1, SMTT(30)
<1>11. Todo' = Append(Todo, info)
  <2>1. Todo' = [i \in 1 .. Len(Q) |-> tasks'.info[Q[i]]]
    BY DEF Todo
  <2>2. Todo' = [i \in 1 .. Len(P) + 1 |-> IF i <= Len(P) THEN tasks.info[P[i]] ELSE info]
    <3> DEFINE f == tasks.info
               g2 == tasks'.info
               p == P
               q == Q
    <3>1. /\ Todo' = [i \in 1 .. Len(q) |-> g2[q[i]]] /\ Len(p) \in Nat
          /\ Len(q) = Len(p) + 1 /\ q[Len(p) + 1] = h /\ g2[h] = info
          /\ \A i \in 1 .. Len(p) : q[i] = p[i] /\ g2[p[i]] = f[p[i]]
      BY <1>8, <1>9, <1>10, <2>1
    <3> HIDE DEF f, g2, p, q
    <3>2. Todo' = [i \in 1 .. Len(p) + 1 |-> IF i <= Len(p) THEN f[p[i]] ELSE info]
      <4>1. \A i \in 1 .. Len(q) : g2[q[i]] = IF i <= Len(p) THEN f[p[i]] ELSE info
        <5> SUFFICES ASSUME NEW i \in 1 .. Len(q)
                     PROVE  g2[q[i]] = IF i <= Len(p) THEN f[p[i]] ELSE info
          OBVIOUS
        <5>1. CASE i <= Len(p)
          BY <3>1, <5>1
        <5>2. CASE ~(i <= Len(p))
          BY <3>1, <5>2
        <5> QED BY <5>1, <5>2
      <4> QED BY <3>1, <4>1
    <3> QED BY <3>2 DEF f, p
  <2>3. Todo \in Seq(TaskInfos) /\ Todo = [i \in 1 .. Len(P) |-> tasks.info[P[i]]]
        /\ Len(Todo) = Len(P)
    BY TaskLists
  <2>4. Append(Todo, info) =
           [i \in 1 .. Len(P) + 1 |-> IF i <= Len(P) THEN tasks.info[P[i]] ELSE info]
    BY <1>8, <2>3
  <2> QED BY <2>2, <2>4
<1>12. P # <<>> => Head(Q) = Head(P) /\ Head(P) = P[1] /\ 1 \in 1 .. Len(P)
  <2> DEFINE p == P
             q == Q
  <2>1. /\ p \in Seq(Hnds) /\ q \in Seq(Hnds) /\ q # <<>>
        /\ \A i \in 1 .. Len(p) : q[i] = p[i]
    BY <1>8, <1>9
  <2> HIDE DEF p, q
  <2>2. p # <<>> => Head(q) = Head(p) /\ Head(p) = p[1] /\ 1 \in 1 .. Len(p)
    BY <2>1
  <2> QED BY <2>2 DEF p, q
<1> QED BY <1>5, <1>6, <1>7, <1>9, <1>10, <1>11, <1>12 DEF HasHnd, GetHnd

(* A handle goes to a list other than TASK_PROCESSING. *)
LEMMA MoveFacts ==
    ASSUME TypeInv, HandlesInv, NEW h \in Hnds, NEW t \in TaskStatuses \ {"TASK_PROCESSING"},
           tasks' = SetStatus(tasks, h, t)
    PROVE  /\ tasks' \in GroupsOf(TaskCount, TaskInfos)
           /\ LinkedOnce(tasks') /\ AllLinked(tasks')
           /\ tasks'.info = tasks.info
           /\ \A s \in TaskStatuses \ {t} :
                 /\ h \notin ToSet(tasks.list[s]) => tasks'.list[s] = tasks.list[s]
                 /\ tasks.list[s] # <<>> /\ h = Head(tasks.list[s]) =>
                       tasks'.list[s] = Tail(tasks.list[s])
           /\ h \notin ToSet(tasks.list[t]) => tasks'.list[t] = Append(tasks.list[t], h)
<1> DEFINE r == tasks'
<1>1. /\ tasks \in GroupsOf(TaskCount, TaskInfos) /\ LinkedOnce(tasks)
      /\ t \in TaskStatuses /\ r = SetStatus(tasks, h, t)
  BY DEF TypeInv, HandlesInv
<1> HIDE DEF r
<1>2. /\ r \in GroupsOf(TaskCount, TaskInfos) /\ LinkedOnce(r) /\ r.info = tasks.info
      /\ \A s \in TaskStatuses \ {t} :
            /\ ToSet(r.list[s]) = ToSet(tasks.list[s]) \ {h}
            /\ h \notin ToSet(tasks.list[s]) => r.list[s] = tasks.list[s]
            /\ tasks.list[s] # <<>> /\ h = Head(tasks.list[s]) =>
                  r.list[s] = Tail(tasks.list[s])
      /\ ToSet(r.list[t]) = ToSet(tasks.list[t]) \cup {h}
      /\ h \notin ToSet(tasks.list[t]) => r.list[t] = Append(tasks.list[t], h)
  <2>1. r \in GroupsOf(TaskCount, TaskInfos) /\ Moved(tasks, r, h, t)
    BY <1>1, SetStatusAny
  <2> QED BY <2>1 DEF Moved
<1>3. AllLinked(r)
  <2> SUFFICES ASSUME NEW k \in Hnds
               PROVE  \E s \in TaskStatuses : k \in ToSet(r.list[s])
    BY DEF AllLinked
  <2>1. PICK s \in TaskStatuses : k \in ToSet(tasks.list[s])
    BY DEF HandlesInv, AllLinked
  <2> QED BY <1>2, <2>1
<1> QED BY <1>2, <1>3 DEF r

(* Nothing changes for the hal thread when TASK_PROCESSING does not. *)
LEMMA TodoKept ==
    ASSUME tasks'.list["TASK_PROCESSING"] = tasks.list["TASK_PROCESSING"],
           tasks'.info = tasks.info
    PROVE  Todo' = Todo
BY DEF Todo

(* The parser collects a task that is done, and it becomes idle. *)
LEMMA CollectFacts ==
    ASSUME TypeInv, HandlesInv, ProcDone # <<>>,
           tasks' = SetStatus(tasks, Head(ProcDone), "TASK_IDLE")
    PROVE  /\ tasks' \in GroupsOf(TaskCount, TaskInfos)
           /\ LinkedOnce(tasks') /\ AllLinked(tasks')
           /\ tasks'.info = tasks.info /\ Todo' = Todo
           /\ tasks'.list["TASK_PROCESSING"] = tasks.list["TASK_PROCESSING"]
           /\ ProcDone' = Tail(ProcDone)
           /\ HasHnd(tasks, "TASK_IDLE") =>
                 /\ HasHnd(tasks', "TASK_IDLE")
                 /\ GetHnd(tasks', "TASK_IDLE") = GetHnd(tasks, "TASK_IDLE")
           /\ HasHnd(tasks', "TASK_IDLE")
<1> DEFINE h == Head(ProcDone)
           L == tasks.list["TASK_IDLE"]
<1>1. ProcDone \in Seq(Hnds) /\ IsInjective(ProcDone) /\ L \in Seq(Hnds)
  BY TaskLists DEF HandlesInv, LinkedOnce, TaskStatuses, ProcDone
<1>2. h \in Hnds /\ h \in ToSet(ProcDone)
  BY <1>1, TailToSet
<1>3. h \notin ToSet(tasks.list["TASK_PROCESSING"]) /\ h \notin ToSet(L)
  BY <1>2 DEF HandlesInv, LinkedOnce, TaskStatuses, ProcDone
<1>4. /\ tasks' = SetStatus(tasks, h, "TASK_IDLE")
      /\ "TASK_IDLE" \in TaskStatuses \ {"TASK_PROCESSING"}
      /\ "TASK_PROCESSING" \in TaskStatuses \ {"TASK_IDLE"}
      /\ "TASK_PROC_DONE" \in TaskStatuses \ {"TASK_IDLE"}
  BY DEF TaskStatuses
<1>5. ProcDone = tasks.list["TASK_PROC_DONE"] /\ ProcDone' = tasks'.list["TASK_PROC_DONE"]
  BY SMTT(30) DEF ProcDone
<1>6. /\ tasks' \in GroupsOf(TaskCount, TaskInfos)
      /\ LinkedOnce(tasks') /\ AllLinked(tasks') /\ tasks'.info = tasks.info
      /\ tasks'.list["TASK_PROCESSING"] = tasks.list["TASK_PROCESSING"]
      /\ ProcDone' = Tail(ProcDone)
      /\ tasks'.list["TASK_IDLE"] = Append(L, h)
  <2> HIDE DEF h, L
  <2>1. /\ tasks' \in GroupsOf(TaskCount, TaskInfos)
        /\ LinkedOnce(tasks') /\ AllLinked(tasks')
        /\ tasks'.info = tasks.info
        /\ \A s \in TaskStatuses \ {"TASK_IDLE"} :
              /\ h \notin ToSet(tasks.list[s]) => tasks'.list[s] = tasks.list[s]
              /\ tasks.list[s] # <<>> /\ h = Head(tasks.list[s]) =>
                    tasks'.list[s] = Tail(tasks.list[s])
        /\ h \notin ToSet(tasks.list["TASK_IDLE"]) =>
              tasks'.list["TASK_IDLE"] = Append(tasks.list["TASK_IDLE"], h)
    BY <1>2, <1>4, MoveFacts
  <2> QED BY <1>3, <1>4, <1>5, <2>1 DEF h, L
<1>7. Todo' = Todo
  BY <1>6, TodoKept
<1>8. Append(L, h) # <<>> /\ (L # <<>> => Head(Append(L, h)) = Head(L))
  <2> HIDE DEF h, L
  <2> QED BY <1>1, <1>2
<1> QED BY <1>6, <1>7, <1>8 DEF HasHnd, GetHnd

(* The parser gives its handle back: it becomes the last idle one. *)
LEMMA GiveBackFacts ==
    ASSUME TypeInv, HandlesInv, task.hnd # None,
           tasks' = SetStatus(tasks, task.hnd, "TASK_IDLE")
    PROVE  /\ tasks' \in GroupsOf(TaskCount, TaskInfos)
           /\ LinkedOnce(tasks') /\ AllLinked(tasks')
           /\ tasks'.info = tasks.info /\ Todo' = Todo
           /\ tasks'.list["TASK_PROCESSING"] = tasks.list["TASK_PROCESSING"]
           /\ ProcDone' = ProcDone
<1> DEFINE h == task.hnd
<1>1. h \in Hnds /\ h \in ToSet(tasks.list["TASK_IDLE"])
  <2>1. h = Head(tasks.list["TASK_IDLE"]) /\ tasks.list["TASK_IDLE"] # <<>>
    BY DEF HandlesInv, HasHnd, GetHnd
  <2>2. tasks.list["TASK_IDLE"] \in Seq(Hnds) /\ IsInjective(tasks.list["TASK_IDLE"])
    BY TaskLists DEF HandlesInv, LinkedOnce, TaskStatuses
  <2> QED BY <2>1, <2>2, TailToSet
<1>3. h \notin ToSet(tasks.list["TASK_PROCESSING"]) /\ h \notin ToSet(ProcDone)
  BY <1>1 DEF HandlesInv, LinkedOnce, TaskStatuses, ProcDone
<1>4. /\ tasks' = SetStatus(tasks, h, "TASK_IDLE")
      /\ "TASK_IDLE" \in TaskStatuses \ {"TASK_PROCESSING"}
      /\ "TASK_PROCESSING" \in TaskStatuses \ {"TASK_IDLE"}
      /\ "TASK_PROC_DONE" \in TaskStatuses \ {"TASK_IDLE"}
  BY DEF TaskStatuses
<1>5. ProcDone = tasks.list["TASK_PROC_DONE"] /\ ProcDone' = tasks'.list["TASK_PROC_DONE"]
  BY DEF ProcDone
<1>6. /\ tasks' \in GroupsOf(TaskCount, TaskInfos)
      /\ LinkedOnce(tasks') /\ AllLinked(tasks') /\ tasks'.info = tasks.info
      /\ tasks'.list["TASK_PROCESSING"] = tasks.list["TASK_PROCESSING"]
      /\ ProcDone' = ProcDone
  <2> HIDE DEF h
  <2>1. /\ tasks' \in GroupsOf(TaskCount, TaskInfos)
        /\ LinkedOnce(tasks') /\ AllLinked(tasks')
        /\ tasks'.info = tasks.info
        /\ \A s \in TaskStatuses \ {"TASK_IDLE"} :
              h \notin ToSet(tasks.list[s]) => tasks'.list[s] = tasks.list[s]
    BY <1>1, <1>4, MoveFacts
  <2> QED BY <1>3, <1>4, <1>5, <2>1
<1> QED BY <1>6, TodoKept

(* The hal thread is through with the first task. *)
LEMMA DoneFacts ==
    ASSUME TypeInv, HandlesInv, hal.pc \in Holding,
           NEW t \in {"TASK_IDLE", "TASK_PROC_DONE"},
           tasks' = SetStatus(tasks, hal.hnd, t)
    PROVE  /\ tasks' \in GroupsOf(TaskCount, TaskInfos)
           /\ LinkedOnce(tasks') /\ AllLinked(tasks')
           /\ tasks'.info = tasks.info
           /\ Todo' = Tail(Todo)
           /\ ProcDone' = IF t = "TASK_IDLE" THEN ProcDone ELSE Append(ProcDone, hal.hnd)
           /\ HasHnd(tasks, "TASK_IDLE") =>
                 /\ HasHnd(tasks', "TASK_IDLE")
                 /\ GetHnd(tasks', "TASK_IDLE") = GetHnd(tasks, "TASK_IDLE")
           /\ t = "TASK_PROC_DONE" =>
                 tasks'.list["TASK_IDLE"] = tasks.list["TASK_IDLE"]
<1> DEFINE h == hal.hnd
           P == tasks.list["TASK_PROCESSING"]
           L == tasks.list["TASK_IDLE"]
<1>1. P \in Seq(Hnds) /\ P # <<>> /\ h = Head(P) /\ IsInjective(P) /\ L \in Seq(Hnds)
  BY HoldingFacts, TaskLists DEF HandlesInv, LinkedOnce, TaskStatuses, HasHnd
<1>2. h \in Hnds /\ h \in ToSet(P)
  BY <1>1, TailToSet
<1>3. h \notin ToSet(L) /\ h \notin ToSet(ProcDone)
  BY <1>2 DEF HandlesInv, LinkedOnce, TaskStatuses, ProcDone
<1>4. /\ tasks' = SetStatus(tasks, h, t)
      /\ t \in TaskStatuses \ {"TASK_PROCESSING"}
      /\ "TASK_PROCESSING" \in TaskStatuses \ {t}
      /\ t # "TASK_IDLE" => "TASK_IDLE" \in TaskStatuses \ {t} /\ t = "TASK_PROC_DONE"
      /\ t # "TASK_PROC_DONE" => "TASK_PROC_DONE" \in TaskStatuses \ {t} /\ t = "TASK_IDLE"
  BY DEF TaskStatuses
<1>5. ProcDone = tasks.list["TASK_PROC_DONE"] /\ ProcDone' = tasks'.list["TASK_PROC_DONE"]
  BY DEF ProcDone
<1>6. /\ tasks' \in GroupsOf(TaskCount, TaskInfos)
      /\ LinkedOnce(tasks') /\ AllLinked(tasks') /\ tasks'.info = tasks.info
      /\ tasks'.list["TASK_PROCESSING"] = Tail(P)
      /\ ProcDone' = IF t = "TASK_IDLE" THEN ProcDone ELSE Append(ProcDone, h)
      /\ tasks'.list["TASK_IDLE"] = IF t = "TASK_IDLE" THEN Append(L, h) ELSE L
  <2> HIDE DEF h, L, P
  <2>1. /\ tasks' \in GroupsOf(TaskCount, TaskInfos)
        /\ LinkedOnce(tasks') /\ AllLinked(tasks')
        /\ tasks'.info = tasks.info
        /\ \A s \in TaskStatuses \ {t} :
              /\ h \notin ToSet(tasks.list[s]) => tasks'.list[s] = tasks.list[s]
              /\ tasks.list[s] # <<>> /\ h = Head(tasks.list[s]) =>
                    tasks'.list[s] = Tail(tasks.list[s])
        /\ h \notin ToSet(tasks.list[t]) => tasks'.list[t] = Append(tasks.list[t], h)
    BY <1>2, <1>4, MoveFacts, SMTT(30)
  <2>2. CASE t = "TASK_IDLE"
    BY <1>1, <1>3, <1>4, <1>5, <2>1, <2>2, SMTT(30) DEF L, P
  <2>3. CASE t = "TASK_PROC_DONE"
    BY <1>1, <1>3, <1>4, <1>5, <2>1, <2>3, SMTT(30) DEF L, P
  <2> QED BY <2>2, <2>3
<1>7. Todo' = Tail(Todo)
  <2> DEFINE f == tasks.info
             p == P
  <2>1. /\ Todo' = [k \in 1 .. Len(Tail(p)) |-> f[Tail(p)[k]]]
        /\ Todo = [k \in 1 .. Len(p) |-> f[p[k]]] /\ Todo \in Seq(TaskInfos)
        /\ p \in Seq(Hnds) /\ p # <<>>
    BY <1>1, <1>6, TaskLists DEF Todo
  <2> HIDE DEF f, p
  <2>2. /\ Len(Tail(p)) = Len(p) - 1 /\ Len(p) \in Nat \ {0}
        /\ \A k \in 1 .. Len(p) - 1 : Tail(p)[k] = p[k + 1]
    BY <2>1
  <2>3. Todo' = [k \in 1 .. Len(p) - 1 |-> f[p[k + 1]]]
    BY <2>1, <2>2
  <2>4. Tail(Todo) = [k \in 1 .. Len(p) - 1 |-> f[p[k + 1]]]
    BY <2>1, <2>2
  <2> QED BY <2>3, <2>4
<1>8. Append(L, h) # <<>> /\ (L # <<>> => Head(Append(L, h)) = Head(L))
  <2> HIDE DEF h, L
  <2> QED BY <1>1, <1>2
<1> QED BY <1>6, <1>7, <1>8 DEF HasHnd, GetHnd

(* reset_hal_thread makes the tasks that are done idle: there is one at    *)
(* most.                                                                   *)
LEMMA FlushFacts ==
    ASSUME TypeInv, HandlesInv, PrevInv,
           tasks' = SetAll(tasks, ProcDone, "TASK_IDLE")
    PROVE  \/ ProcDone = <<>> /\ tasks' = tasks
           \/ /\ ProcDone # <<>> /\ Tail(ProcDone) = <<>>
              /\ tasks' = SetStatus(tasks, Head(ProcDone), "TASK_IDLE")
<1> DEFINE V == {g \in GroupsOf(TaskCount, TaskInfos) : LinkedOnce(g)}
           q == ProcDone
<1>1. /\ q \in Seq(Hnds) /\ tasks \in V /\ "TASK_IDLE" \in TaskStatuses
      /\ session \in Sessions
  BY TaskLists DEF TypeInv, HandlesInv, TaskStatuses
<1>2. Len(q) <= 1
  <2>1. CASE FastMode
    BY <2>1 DEF PrevInv
  <2>2. CASE ~FastMode
    BY <2>2 DEF PrevInv
  <2> QED BY <2>1, <2>2
<1>3. \A g \in V, h \in Hnds : SetStatus(g, h, "TASK_IDLE") \in V
  <2> SUFFICES ASSUME NEW g \in V, NEW h \in Hnds PROVE SetStatus(g, h, "TASK_IDLE") \in V
    OBVIOUS
  <2>1. PICK r : r = SetStatus(g, h, "TASK_IDLE")
    OBVIOUS
  <2>2. r \in GroupsOf(TaskCount, TaskInfos) /\ LinkedOnce(r)
    <3>1. g \in GroupsOf(TaskCount, TaskInfos) /\ LinkedOnce(g)
      OBVIOUS
    <3>2. r \in GroupsOf(TaskCount, TaskInfos) /\ Moved(g, r, h, "TASK_IDLE")
      BY <1>1, <2>1, <3>1, SetStatusAny
    <3> QED BY <3>2 DEF Moved
  <2> QED BY <2>1, <2>2
<1> HIDE DEF V, q
<1>4. PICK c \in [0 .. Len(q) -> V] :
         /\ c[0] = tasks
         /\ \A k \in 1 .. Len(q) : c[k] = SetStatus(c[k - 1], q[k], "TASK_IDLE")
         /\ SetAll(tasks, q, "TASK_IDLE") = c[Len(q)]
  <2>1. SetChains(V, tasks, q, "TASK_IDLE") # {}
    BY <1>1, <1>3, SetAllChain
  <2> QED BY <2>1 DEF SetChains
<1>5. tasks' = c[Len(q)]
  BY <1>4 DEF q
<1>6. CASE Len(q) = 0
  <2>1. q = <<>>
    BY <1>1, <1>6
  <2> QED BY <1>4, <1>5, <1>6, <2>1 DEF q
<1>7. CASE Len(q) = 1
  <2>1. q # <<>> /\ Tail(q) = <<>> /\ Head(q) = q[1]
    <3>1. q # <<>> /\ Head(q) = q[1]
      BY <1>1, <1>7
    <3>2. Tail(q) \in Seq(Hnds) /\ Len(Tail(q)) = 0
      BY <1>1, <1>7, <3>1
    <3> QED BY <3>1, <3>2
  <2>2. 1 \in 1 .. Len(q) /\ 1 - 1 = 0
    BY <1>7
  <2>3. c[1] = SetStatus(tasks, q[1], "TASK_IDLE")
    BY <1>4, <2>2
  <2> QED BY <1>5, <1>7, <2>1, <2>3 DEF q
<1>8. Len(q) = 0 \/ Len(q) = 1
  <2>1. Len(q) \in Nat
    BY <1>1
  <2> QED BY <1>2, <2>1 DEF q
<1> QED BY <1>6, <1>7, <1>8

(* The task of the parser is as it was, or the thread is woken. *)
TaskKept ==
    task' = task \/ (task.pc = "wait" /\ task' = [task EXCEPT !.pc = "reset"])

HalKept ==
    hal' = hal \/ (hal.pc = "wait" /\ hal' = [hal EXCEPT !.pc = "check"])

(* mpp_dec_notify *)
LEMMA NotifyFacts ==
    ASSUME TypeInv, NEW flag \in SUBSET Reset, Notify(flag)
    PROVE  /\ dec' \in Shared /\ TaskKept /\ task' \in DecTasks
           /\ dec'.status_flag = dec.status_flag
           /\ dec'.notify_flag = dec.notify_flag \cup flag
           /\ dec'.reset_flag = dec.reset_flag /\ dec'.locked = dec.locked
           /\ dec'.reset_post = dec.reset_post /\ dec'.reset_done = dec.reset_done
           /\ dec'.hal_reset = dec.hal_reset /\ dec'.parser_reset = dec.parser_reset
<1>1. dec \in Shared /\ task \in DecTasks
  BY DEF TypeInv
<1>2. dec' = [dec EXCEPT !.notify_flag = dec.notify_flag \cup flag]
  BY DEF Notify
<1>3. TaskKept
  BY DEF Notify, TaskKept
<1>4. task' \in DecTasks
  BY <1>1, <1>3 DEF TaskKept, DecTasks, ParserPcs
<1> QED BY <1>1, <1>2, <1>3, <1>4 DEF Shared

(* thread_hal->signal *)
LEMMA SignalFacts ==
    ASSUME TypeInv, SignalHal
    PROVE  HalKept /\ hal' \in [pc : HalPcs, hnd : Hnds \cup {None}, info : TaskInfos]
<1>1. HalKept
  BY DEF SignalHal, HalKept
<1> QED BY <1>1 DEF HalKept, TypeInv, HalPcs

(* Steps of the parser that touch neither the tasks nor the hal thread.    *)

(* A turn goes on at pc, or ends there, with wait bits w. *)
Moves(w, pc) ==
    \/ task' = [task EXCEPT !.wait = w, !.pc = pc]
    \/ task' = [task EXCEPT !.pc = pc] /\ w = task.wait

(* A stage is reached only with what it needs. *)
LEMMA MovesFacts ==
    ASSUME TypeInv, NEW w \in SUBSET WaitBits, NEW pc \in ParserPcs, Moves(w, pc)
    PROVE  /\ task' \in DecTasks /\ task'.pc = pc /\ task'.wait = w
           /\ task'.hnd = task.hnd /\ task'.info = task.info
           /\ task'.prev_rdy = task.prev_rdy /\ task'.curr_rdy = task.curr_rdy
           /\ task'.copy_rdy = task.copy_rdy /\ task'.parsed_rdy = task.parsed_rdy
           /\ task'.gen_rdy = task.gen_rdy
<1>1. task \in DecTasks
  BY DEF TypeInv
<1>2. CASE task' = [task EXCEPT !.wait = w, !.pc = pc]
  BY <1>1, <1>2 DEF DecTasks
<1>3. CASE task' = [task EXCEPT !.pc = pc] /\ w = task.wait
  BY <1>1, <1>3 DEF DecTasks
<1> QED BY <1>2, <1>3 DEF Moves

(* What a stage of the parser needs. *)
Reached(pc, w) ==
    /\ pc \in AtWork => task.hnd # None
    /\ pc \in AtWork \ {"pkt"} => task.curr_rdy
    /\ task.curr_rdy /\ pc # "copy" => task.copy_rdy
    /\ pc \in {"display", "slot", "parse", "change"} => FastMode \/ task.prev_rdy
    /\ pc = "change" => task.parsed_rdy
    /\ "info_change" \in w => task.gen_rdy

(* Then the parser's invariant is kept. *)
LEMMA MovesInv ==
    ASSUME Base, NEW w \in SUBSET WaitBits, NEW pc \in ParserPcs, Moves(w, pc),
           Reached(pc, w), pc \notin {"sem_hal", "post", "exited"},
           task.pc \notin {"sem_hal", "post", "exited"},
           UNCHANGED <<session, tasks, codec, hal, lists, calls>>,
           dec' \in Shared,
           UNCHANGED <<dec.reset_flag, dec.locked, dec.reset_post, dec.reset_done,
                       dec.hal_reset, dec.parser_reset>>
    PROVE  Base'
<1> USE DEF lists, calls
<1>1. /\ task' \in DecTasks /\ task'.pc = pc /\ task'.wait = w
      /\ task'.hnd = task.hnd /\ task'.info = task.info
      /\ task'.prev_rdy = task.prev_rdy /\ task'.curr_rdy = task.curr_rdy
      /\ task'.copy_rdy = task.copy_rdy /\ task'.parsed_rdy = task.parsed_rdy
      /\ task'.gen_rdy = task.gen_rdy
  BY MovesFacts DEF Base
<1>2. TypeInv'
  BY <1>1 DEF Base, TypeInv, stream
<1>3. HandlesInv'
  BY <1>1, SMTT(30) DEF Base, HandlesInv
<1>4. TodoInv' /\ Todo' = Todo
  BY DEF Base, TodoInv, Todo
<1>5. TaskInv'
  BY <1>1 DEF Base, TaskInv, stream, FastMode, Reached
<1>6. ResetInv'
  BY <1>1 DEF Base, ResetInv, Quiet
<1>7. PrevInv'
  BY <1>1, <1>4 DEF Base, PrevInv, ProcDone, FastMode
<1> QED BY <1>2, <1>3, <1>4, <1>5, <1>6, <1>7 DEF Base

(* The parser looks whether it may work. *)
LEMMA BaseCheck ==
    ASSUME Base, ParserCheck
    PROVE  Base'
<1>0. task \in DecTasks /\ dec \in Shared
  BY DEF Base, TypeInv
<1>1. /\ UNCHANGED <<session, tasks, codec, hal, lists, calls>>
      /\ dec' \in Shared
      /\ UNCHANGED <<dec.reset_flag, dec.locked, dec.reset_post, dec.reset_done,
                     dec.hal_reset, dec.parser_reset>>
      /\ task.pc \notin {"sem_hal", "post", "exited"}
  BY <1>0 DEF ParserCheck, Shared, DecTasks, pools, lists, calls
<1>2. \E w \in SUBSET WaitBits : \E pc \in ParserPcs :
         /\ Moves(w, pc) /\ Reached(pc, w) /\ pc \notin {"sem_hal", "post", "exited"}
  <2>1. CASE MayWork
    <3>1. Moves(task.wait, "reset") /\ task.wait \in SUBSET WaitBits
      BY <1>0, <2>1 DEF ParserCheck, Go, Moves, DecTasks, WaitBits
    <3>2. Reached("reset", task.wait) /\ "reset" \in ParserPcs
      BY <1>0, <2>1 DEF Base, TaskInv, Reached, ParserCheck, Go, ParserPcs, AtWork, DecTasks
    <3> QED BY <3>1, <3>2
  <2>2. CASE ~MayWork
    <3>1. Moves(task.wait, "wait") /\ task.wait \in SUBSET WaitBits
      BY <1>0, <2>2 DEF ParserCheck, Go, Moves, DecTasks, WaitBits
    <3>2. Reached("wait", task.wait) /\ "wait" \in ParserPcs
      BY <1>0, <2>2 DEF Base, TaskInv, Reached, ParserCheck, Go, ParserPcs, AtWork, DecTasks
    <3> QED BY <3>1, <3>2
  <2> QED BY <2>1, <2>2
<1> QED BY <1>1, <1>2, MovesInv

(* The parser looks at the frames that wait. *)
LEMMA BaseWaitDisplay ==
    ASSUME Base, ParserWaitDisplay
    PROVE  Base'
<1>0. task \in DecTasks /\ dec \in Shared
  BY DEF Base, TypeInv
<1>1. /\ UNCHANGED <<session, tasks, codec, hal, lists, calls>>
      /\ dec' \in Shared
      /\ UNCHANGED <<dec.reset_flag, dec.locked, dec.reset_post, dec.reset_done,
                     dec.hal_reset, dec.parser_reset>>
      /\ task.pc \notin {"sem_hal", "post", "exited"}
  BY <1>0 DEF ParserWaitDisplay, Shared, DecTasks, pools, lists, calls
<1>2. \E w \in SUBSET WaitBits : \E pc \in ParserPcs :
         /\ Moves(w, pc) /\ Reached(pc, w) /\ pc \notin {"sem_hal", "post", "exited"}
  <2>1. CASE Len(mFrames) > FrameLimit
    <3>1. /\ Moves(task.wait \cup {"dis_que_full"}, "check")
          /\ task.wait \cup {"dis_que_full"} \in SUBSET WaitBits
      BY <1>0, <2>1 DEF ParserWaitDisplay, Block, Moves, DecTasks, WaitBits
    <3>2. Reached("check", task.wait \cup {"dis_que_full"}) /\ "check" \in ParserPcs
      BY <1>0, <2>1 DEF Base, TaskInv, Reached, ParserWaitDisplay, Block, ParserPcs,
          AtWork, DecTasks
    <3> QED BY <3>1, <3>2
  <2>2. CASE ~(Len(mFrames) > FrameLimit)
    <3>1. /\ Moves(task.wait \ {"dis_que_full"}, "slot")
          /\ task.wait \ {"dis_que_full"} \in SUBSET WaitBits
      BY <1>0, <2>2 DEF ParserWaitDisplay, Pass, Moves, DecTasks, WaitBits
    <3>2. Reached("slot", task.wait \ {"dis_que_full"}) /\ "slot" \in ParserPcs
      BY <1>0, <2>2 DEF Base, TaskInv, Reached, ParserWaitDisplay, Pass, ParserPcs, AtWork, DecTasks
    <3> QED BY <3>1, <3>2
  <2> QED BY <2>1, <2>2
<1> QED BY <1>1, <1>2, MovesInv

(* The parser looks for a frame slot. *)
LEMMA BaseWaitSlot ==
    ASSUME Base, ParserWaitSlot
    PROVE  Base'
<1>0. task \in DecTasks /\ dec \in Shared
  BY DEF Base, TypeInv
<1>1. /\ UNCHANGED <<session, tasks, codec, hal, lists, calls>>
      /\ dec' \in Shared
      /\ UNCHANGED <<dec.reset_flag, dec.locked, dec.reset_post, dec.reset_done,
                     dec.hal_reset, dec.parser_reset>>
      /\ task.pc \notin {"sem_hal", "post", "exited"}
  BY <1>0 DEF ParserWaitSlot, Shared, DecTasks, pools, lists, calls
<1>2. \E w \in SUBSET WaitBits : \E pc \in ParserPcs :
         /\ Moves(w, pc) /\ Reached(pc, w) /\ pc \notin {"sem_hal", "post", "exited"}
  <2>1. CASE UnusedCount(slots) = 0
    <3>1. /\ Moves(task.wait \cup {"dec_slot_idx"}, "check")
          /\ task.wait \cup {"dec_slot_idx"} \in SUBSET WaitBits
      BY <1>0, <2>1 DEF ParserWaitSlot, Block, Moves, DecTasks, WaitBits
    <3>2. Reached("check", task.wait \cup {"dec_slot_idx"}) /\ "check" \in ParserPcs
      BY <1>0, <2>1 DEF Base, TaskInv, Reached, ParserWaitSlot, Block, ParserPcs, AtWork, DecTasks
    <3> QED BY <3>1, <3>2
  <2>2. CASE ~(UnusedCount(slots) = 0)
    <3>1. /\ Moves(task.wait \ {"dec_slot_idx"}, "parse")
          /\ task.wait \ {"dec_slot_idx"} \in SUBSET WaitBits
      BY <1>0, <2>2 DEF ParserWaitSlot, Pass, Moves, DecTasks, WaitBits
    <3>2. Reached("parse", task.wait \ {"dec_slot_idx"}) /\ "parse" \in ParserPcs
      BY <1>0, <2>2 DEF Base, TaskInv, Reached, ParserWaitSlot, Pass, ParserPcs, AtWork, DecTasks
    <3> QED BY <3>1, <3>2
  <2> QED BY <2>1, <2>2
<1> QED BY <1>1, <1>2, MovesInv

(* The parser waits for the acknowledgement. *)
LEMMA BaseWaitReady ==
    ASSUME Base, ParserWaitReady
    PROVE  Base'
<1>0. task \in DecTasks /\ dec \in Shared
  BY DEF Base, TypeInv
<1>1. /\ UNCHANGED <<session, tasks, codec, hal, lists, calls>>
      /\ dec' \in Shared
      /\ UNCHANGED <<dec.reset_flag, dec.locked, dec.reset_post, dec.reset_done,
                     dec.hal_reset, dec.parser_reset>>
      /\ task.pc \notin {"sem_hal", "post", "exited"}
  BY <1>0 DEF ParserWaitReady, Shared, DecTasks, pools, lists, calls
<1>2. \E w \in SUBSET WaitBits : \E pc \in ParserPcs :
         /\ Moves(w, pc) /\ Reached(pc, w) /\ pc \notin {"sem_hal", "post", "exited"}
  <2>1. CASE TRUE
    <3>1. /\ Moves(task.wait \cup {"info_change"}, "check")
          /\ task.wait \cup {"info_change"} \in SUBSET WaitBits
      BY <1>0, <2>1 DEF ParserWaitReady, Block, Moves, DecTasks, WaitBits
    <3>2. Reached("check", task.wait \cup {"info_change"}) /\ "check" \in ParserPcs
      BY <1>0, <2>1 DEF Base, TaskInv, Reached, ParserWaitReady, Block, ParserPcs, AtWork, DecTasks
    <3> QED BY <3>1, <3>2
  <2> QED BY <2>1
<1> QED BY <1>1, <1>2, MovesInv

(* The conjuncts of ResetInv do not look at the task in hand. *)
LEMMA ResetKept ==
    ASSUME Base, dec' \in Shared, HalKept, hal'.pc \in HalPcs,
           task.pc \notin {"sem_hal", "post", "exited"},
           task'.pc \notin {"sem_hal", "post", "exited"},
           UNCHANGED <<user, clr>>,
           UNCHANGED <<dec.reset_flag, dec.locked, dec.reset_post, dec.reset_done,
                       dec.hal_reset, dec.parser_reset>>
    PROVE  ResetInv'
<1>1. hal'.pc = "exited" => hal.pc = "exited"
  BY DEF HalKept, Base, TypeInv
<1> QED BY <1>1 DEF Base, ResetInv

(* The parser hands over a task. *)
LEMMA PutFacts ==
    ASSUME Base, task.hnd # None, NEW info \in TaskInfos, PutTask(info),
           info.change => info.valid /\ ~info.eos, ~info.valid => info.eos,
           task'.hnd = None, session' = session,
           ~FastMode /\ IsDecode(info) => task.prev_rdy /\ ~task'.prev_rdy,
           task'.prev_rdy => task.prev_rdy, task'.prev_rdy \in BOOLEAN
    PROVE  /\ tasks' \in GroupsOf(TaskCount, TaskInfos)
           /\ hal' \in [pc : HalPcs, hnd : Hnds \cup {None}, info : TaskInfos]
           /\ HalKept /\ HandlesInv' /\ TodoInv' /\ PrevInv'
           /\ Todo' = Append(Todo, info) /\ ProcDone' = ProcDone
<1>1. /\ tasks' \in GroupsOf(TaskCount, TaskInfos)
      /\ LinkedOnce(tasks') /\ AllLinked(tasks')
      /\ Todo' = Append(Todo, info)
      /\ ProcDone' = ProcDone
      /\ HasHnd(tasks', "TASK_PROCESSING")
      /\ HasHnd(tasks, "TASK_PROCESSING") =>
            LET h == GetHnd(tasks, "TASK_PROCESSING")
            IN  GetHnd(tasks', "TASK_PROCESSING") = h /\ tasks'.info[h] = tasks.info[h]
  BY PutTaskFacts DEF Base, PutTask
<1>2. HalKept /\ hal' \in [pc : HalPcs, hnd : Hnds \cup {None}, info : TaskInfos]
  BY SignalFacts DEF Base, PutTask
<1>3. /\ hal'.pc \in Holding => hal' = hal
      /\ hal'.pc \in {"hw", "done", "clear", "push"} => hal' = hal
  BY <1>2 DEF HalKept, Base, TypeInv, Holding
<1>4. HandlesInv'
  BY <1>1, <1>3 DEF Base, HandlesInv
<1>5. /\ Todo \in Seq(TaskInfos) /\ Len(Todo') = Len(Todo) + 1 /\ Len(Todo) \in Nat
      /\ Todo'[Len(Todo) + 1] = info
      /\ \A k \in 1 .. Len(Todo) : Todo'[k] = Todo[k]
  <2>1. Todo \in Seq(TaskInfos)
    BY TaskLists DEF Base
  <2> QED BY <1>1, <2>1
<1>6. \A k \in 1 .. Len(Todo') : Todo'[k] = info \/ (k \in 1 .. Len(Todo) /\ Todo'[k] = Todo[k])
  BY <1>5
<1>7. TodoInv'
  BY <1>3, <1>6 DEF Base, TodoInv, Holding
<1>8. PrevInv'
  <2>1. FastMode' = FastMode
    BY DEF FastMode
  <2>2. CASE FastMode
    BY <1>1, <2>1, <2>2 DEF Base, PrevInv
  <2>3. CASE ~FastMode /\ ~IsDecode(info)
    <3>1. \A k \in 1 .. Len(Todo') : IsDecode(Todo'[k]) =>
              k \in 1 .. Len(Todo) /\ Todo'[k] = Todo[k]
      BY <1>6, <2>3
    <3> QED BY <1>1, <2>1, <2>3, <3>1 DEF Base, PrevInv
  <2>4. CASE ~FastMode /\ IsDecode(info)
    <3>1. task.prev_rdy /\ ~task'.prev_rdy /\ ProcDone = <<>> /\ ProcDone' = <<>>
      BY <1>1, <2>4 DEF Base, PrevInv
    <3>2. \A k \in 1 .. Len(Todo) : ~IsDecode(Todo[k])
      BY <2>4, <3>1 DEF Base, PrevInv
    <3>3. \A k \in 1 .. Len(Todo') : IsDecode(Todo'[k]) => k = Len(Todo) + 1
      BY <1>5, <3>2
    <3> QED BY <2>1, <2>4, <3>1, <3>3 DEF PrevInv
  <2> QED BY <2>2, <2>3, <2>4
<1> QED BY <1>1, <1>2, <1>4, <1>7, <1>8

(* The parser takes a handle, or goes on with the one it has. *)
LEMMA BaseGetHnd ==
    ASSUME Base, ParserGetHnd
    PROVE  Base'
<1> USE DEF pools, lists, calls
<1>0. task \in DecTasks /\ dec \in Shared
  BY DEF Base, TypeInv
<1>1. /\ UNCHANGED <<session, tasks, codec, hal, lists, calls>>
      /\ dec' \in Shared
      /\ UNCHANGED <<dec.reset_flag, dec.locked, dec.reset_post, dec.reset_done,
                     dec.hal_reset, dec.parser_reset>>
      /\ task.pc \notin {"sem_hal", "post", "exited"}
  BY <1>0 DEF ParserGetHnd
<1>2. CASE task.hnd # None
  <2>1. Moves(task.wait, "pkt") /\ task.wait \in SUBSET WaitBits
    BY <1>0, <1>2 DEF ParserGetHnd, Go, Moves, DecTasks
  <2>2. Reached("pkt", task.wait) /\ "pkt" \in ParserPcs
    BY <1>0, <1>2 DEF Base, TaskInv, Reached, ParserGetHnd, ParserPcs, AtWork, DecTasks
  <2> QED BY <1>1, <2>1, <2>2, MovesInv
<1>3. CASE task.hnd = None /\ ~HasHnd(tasks, "TASK_IDLE")
  <2> DEFINE w == task.wait \cup {"task_hnd"}
  <2>1. Moves(w, "check") /\ w \in SUBSET WaitBits
    BY <1>0, <1>3 DEF ParserGetHnd, Block, Moves, DecTasks, WaitBits
  <2>2. Reached("check", w) /\ "check" \in ParserPcs
    BY <1>0, <1>3 DEF Base, TaskInv, Reached, ParserGetHnd, ParserPcs, AtWork, DecTasks
  <2> HIDE DEF w
  <2> QED BY <1>1, <2>1, <2>2, MovesInv
<1>4. CASE task.hnd = None /\ HasHnd(tasks, "TASK_IDLE")
  <2> DEFINE h == GetHnd(tasks, "TASK_IDLE")
             w == task.wait \ {"task_hnd"}
  <2>1. h \in Hnds /\ h # None
    BY <1>4, TaskLists DEF Base, HasHnd, GetHnd
  <2>2. task' = [task EXCEPT !.wait = w, !.pc = "pkt", !.hnd = h]
    BY <1>0, <1>4 DEF ParserGetHnd, Pass, DecTasks
  <2>3. /\ task' \in DecTasks /\ task'.pc = "pkt" /\ task'.wait = w
        /\ task'.hnd = h /\ task'.info = task.info
        /\ task'.prev_rdy = task.prev_rdy /\ task'.curr_rdy = task.curr_rdy
        /\ task'.copy_rdy = task.copy_rdy /\ task'.parsed_rdy = task.parsed_rdy
        /\ task'.gen_rdy = task.gen_rdy
    BY <1>0, <2>1, <2>2 DEF DecTasks, ParserPcs, AtWork
  <2>4. TypeInv'
    BY <1>1, <2>3 DEF Base, TypeInv, stream
  <2>5. HandlesInv'
    BY <1>1, <1>4, <2>3 DEF Base, HandlesInv
  <2>6. TodoInv' /\ Todo' = Todo
    BY <1>1 DEF Base, TodoInv, Todo
  <2>7. TaskInv'
    BY <1>1, <2>1, <2>3 DEF Base, TaskInv, stream, FastMode, AtWork, ParserGetHnd
  <2>8. ResetInv'
    BY <1>1, <2>3 DEF Base, ResetInv, Quiet
  <2>9. PrevInv'
    BY <1>1, <2>3, <2>6 DEF Base, PrevInv, ProcDone, FastMode
  <2> QED BY <2>4, <2>5, <2>6, <2>7, <2>8, <2>9 DEF Base
<1> QED BY <1>2, <1>3, <1>4

(* The parser waits for the previous task, or collects it. *)
LEMMA BaseWaitPrev ==
    ASSUME Base, ParserWaitPrev
    PROVE  Base'
<1> USE DEF pools, lists, calls
<1>0. task \in DecTasks /\ dec \in Shared /\ session \in Sessions
  BY DEF Base, TypeInv
<1>1. /\ UNCHANGED <<session, codec, hal, lists, calls, dec>>
      /\ task.pc \notin {"sem_hal", "post", "exited"} /\ task.pc = "prev"
  BY <1>0 DEF ParserWaitPrev
<1>2. CASE FastMode \/ task.prev_rdy
  <2>1. Moves(task.wait, "display") /\ task.wait \in SUBSET WaitBits
    BY <1>0, <1>2 DEF ParserWaitPrev, Go, Moves, DecTasks
  <2>2. Reached("display", task.wait) /\ "display" \in ParserPcs
    BY <1>0, <1>2 DEF Base, TaskInv, Reached, ParserWaitPrev, ParserPcs, AtWork, DecTasks
  <2>3. tasks' = tasks
    BY <1>2 DEF ParserWaitPrev
  <2> QED BY <1>0, <1>1, <2>1, <2>2, <2>3, MovesInv
<1>3. CASE ~FastMode /\ ~task.prev_rdy /\ ~HasHnd(tasks, "TASK_PROC_DONE")
  <2> DEFINE w == task.wait \cup {"prev_task"}
  <2>1. Moves(w, "check") /\ w \in SUBSET WaitBits
    BY <1>0, <1>3 DEF ParserWaitPrev, Block, Moves, DecTasks, WaitBits
  <2>2. Reached("check", w) /\ "check" \in ParserPcs
    BY <1>0, <1>3 DEF Base, TaskInv, Reached, ParserWaitPrev, ParserPcs, AtWork, DecTasks
  <2>3. tasks' = tasks
    BY <1>3 DEF ParserWaitPrev
  <2> HIDE DEF w
  <2> QED BY <1>0, <1>1, <2>1, <2>2, <2>3, MovesInv
<1>4. CASE ~FastMode /\ ~task.prev_rdy /\ HasHnd(tasks, "TASK_PROC_DONE")
  <2> DEFINE w == task.wait \ {"prev_task"}
  <2>1. /\ ProcDone # <<>> /\ tasks' = SetStatus(tasks, Head(ProcDone), "TASK_IDLE")
        /\ task' = [task EXCEPT !.wait = w, !.pc = "display", !.prev_rdy = TRUE]
    BY <1>0, <1>4 DEF ParserWaitPrev, Pass, DecTasks, HasHnd, GetHnd, ProcDone
  <2>2. /\ tasks' \in GroupsOf(TaskCount, TaskInfos)
        /\ LinkedOnce(tasks') /\ AllLinked(tasks')
        /\ tasks'.info = tasks.info /\ Todo' = Todo
        /\ tasks'.list["TASK_PROCESSING"] = tasks.list["TASK_PROCESSING"]
        /\ ProcDone' = Tail(ProcDone)
        /\ HasHnd(tasks, "TASK_IDLE") =>
              /\ HasHnd(tasks', "TASK_IDLE")
              /\ GetHnd(tasks', "TASK_IDLE") = GetHnd(tasks, "TASK_IDLE")
    BY <2>1, CollectFacts DEF Base
  <2>3. /\ task' \in DecTasks /\ task'.pc = "display" /\ task'.wait = w
        /\ task'.hnd = task.hnd /\ task'.info = task.info
        /\ task'.prev_rdy /\ task'.curr_rdy = task.curr_rdy
        /\ task'.copy_rdy = task.copy_rdy /\ task'.parsed_rdy = task.parsed_rdy
        /\ task'.gen_rdy = task.gen_rdy
    BY <1>0, <2>1 DEF DecTasks, ParserPcs, AtWork
  <2>4. TypeInv'
    BY <1>1, <2>2, <2>3 DEF Base, TypeInv, stream
  <2>5. HandlesInv'
    BY <1>1, <2>2, <2>3 DEF Base, HandlesInv, HasHnd, GetHnd
  <2>6. TodoInv'
    BY <1>1, <2>2 DEF Base, TodoInv
  <2>7. TaskInv'
    BY <1>1, <2>3 DEF Base, TaskInv, stream, FastMode, AtWork
  <2>8. ResetInv'
    BY <1>1, <2>3 DEF Base, ResetInv
  <2>9. ProcDone' = <<>>
    <3>1. ProcDone \in Seq(Hnds) /\ Len(ProcDone) <= 1
      BY <1>4, TaskLists DEF Base, PrevInv
    <3>2. Len(Tail(ProcDone)) = 0 /\ Tail(ProcDone) \in Seq(Hnds)
      BY <2>1, <3>1
    <3> QED BY <2>2, <3>2
  <2>10. PrevInv'
    BY <1>1, <1>4, <2>1, <2>2, <2>3, <2>9 DEF Base, PrevInv, FastMode
  <2> QED BY <2>4, <2>5, <2>6, <2>7, <2>8, <2>10 DEF Base
<1> QED BY <1>2, <1>3, <1>4

(* The fields of a new task. *)
LEMMA NewTaskFacts ==
    /\ NoInfo \in TaskInfos
    /\ ~NoInfo.valid /\ ~NoInfo.change
    /\ \A pc \in ParserPcs :
          /\ NewTask(pc) \in DecTasks /\ NewTask(pc).pc = pc /\ NewTask(pc).hnd = None
          /\ NewTask(pc).wait = {} /\ NewTask(pc).info = NoInfo
          /\ NewTask(pc).prev_rdy /\ ~NewTask(pc).curr_rdy /\ ~NewTask(pc).copy_rdy
          /\ ~NewTask(pc).parsed_rdy /\ ~NewTask(pc).gen_rdy
<1>1. NoInfo \in TaskInfos /\ ~NoInfo.valid /\ ~NoInfo.change
  BY DEF NoInfo, TaskInfos, NoSlot
<1> QED BY <1>1 DEF NewTask, DecTasks

(* A field of what the threads share. *)
LEMMA SharedEdit ==
    ASSUME NEW d \in Shared
    PROVE  /\ \A n \in Nat : /\ [d EXCEPT !.reset_post = n] \in Shared
                             /\ [d EXCEPT !.reset_done = n] \in Shared
                             /\ [d EXCEPT !.hal_reset = n] \in Shared
                             /\ [d EXCEPT !.parser_reset = n] \in Shared
           /\ \A b \in BOOLEAN : /\ [d EXCEPT !.reset_flag = b] \in Shared
                                 /\ [d EXCEPT !.locked = b] \in Shared
           /\ \A w \in SUBSET WaitBits : [d EXCEPT !.status_flag = w] \in Shared
           /\ d.reset_post \in Nat /\ d.reset_done \in Nat /\ d.hal_reset \in Nat
           /\ d.parser_reset \in Nat /\ d.reset_flag \in BOOLEAN /\ d.locked \in BOOLEAN
BY DEF Shared

(* The parser asks the hal thread to finish. *)
LEMMA BaseReset ==
    ASSUME Base, ParserReset
    PROVE  Base'
<1> USE DEF pools, lists, calls
<1>0. task \in DecTasks /\ dec \in Shared /\ session \in Sessions
  BY DEF Base, TypeInv
<1>1. /\ UNCHANGED <<session, tasks, codec, lists, calls>>
      /\ task.pc = "reset" /\ dec.reset_flag
      /\ dec' = [dec EXCEPT !.reset_post = dec.reset_post + 1]
      /\ task' = [task EXCEPT !.pc = "sem_hal"] /\ SignalHal
  BY DEF ParserReset, Go
<1>2. /\ dec' \in Shared /\ dec'.reset_post = dec.reset_post + 1
      /\ UNCHANGED <<dec.reset_flag, dec.locked, dec.reset_done,
                       dec.hal_reset, dec.parser_reset>>
  <2>1. dec.reset_post + 1 \in Nat
    BY <1>0, SharedEdit
  <2>2. dec' \in Shared
    BY <1>0, <1>1, <2>1, SharedEdit
  <2> QED BY <1>0, <1>1, <2>2 DEF Shared
<1>3. /\ task' \in DecTasks /\ task'.pc = "sem_hal" /\ task'.wait = task.wait
      /\ task'.hnd = task.hnd /\ task'.info = task.info
      /\ task'.prev_rdy = task.prev_rdy /\ task'.curr_rdy = task.curr_rdy
      /\ task'.copy_rdy = task.copy_rdy /\ task'.parsed_rdy = task.parsed_rdy
      /\ task'.gen_rdy = task.gen_rdy
  BY <1>0, <1>1 DEF DecTasks, ParserPcs
<1>4. HalKept /\ hal' \in [pc : HalPcs, hnd : Hnds \cup {None}, info : TaskInfos]
  BY <1>1, SignalFacts DEF Base
<1>5. /\ hal'.pc \in Holding => hal' = hal
      /\ hal'.pc \in {"hw", "done", "clear", "push", "exited"} => hal' = hal
  BY <1>4 DEF HalKept, Base, TypeInv, Holding
<1>6. TypeInv'
  BY <1>1, <1>2, <1>3, <1>4 DEF Base, TypeInv, stream
<1>7. HandlesInv'
  BY <1>1, <1>3, <1>5 DEF Base, HandlesInv
<1>8. Todo' = Todo
  BY <1>1 DEF Todo
<1>9. TodoInv'
  BY <1>1, <1>5, <1>8 DEF Base, TodoInv, Holding
<1>10. TaskInv'
  BY <1>1, <1>3 DEF Base, TaskInv, stream, FastMode, AtWork
<1>11. ResetInv'
  BY <1>1, <1>2, <1>3, <1>5 DEF Base, ResetInv
<1>12. PrevInv'
  BY <1>1, <1>3, <1>8 DEF Base, PrevInv, ProcDone, FastMode
<1> QED BY <1>6, <1>7, <1>9, <1>10, <1>11, <1>12 DEF Base

(* The parser drops what it has in hand. *)
LEMMA BaseDrop ==
    ASSUME Base, ParserDrop
    PROVE  Base'
<1> USE DEF pools, lists, calls
<1>0. task \in DecTasks /\ dec \in Shared /\ session \in Sessions
  BY DEF Base, TypeInv
<1>1. /\ UNCHANGED <<session, tasks, hal, lists, calls>>
      /\ task.pc = "sem_hal" /\ dec.hal_reset > 0
      /\ codec' = [ref0 |-> NoSlot, found_i |-> FALSE]
      /\ dec' = [dec EXCEPT !.hal_reset = dec.hal_reset - 1, !.status_flag = {}]
      /\ task' = NewTask("post")
  BY DEF ParserDrop
<1>2. /\ dec' \in Shared /\ dec'.hal_reset = dec.hal_reset - 1
      /\ UNCHANGED <<dec.reset_flag, dec.locked, dec.reset_post, dec.reset_done,
                     dec.parser_reset>>
  <2>1. dec.hal_reset - 1 \in Nat /\ {} \in SUBSET WaitBits
    BY <1>0, <1>1, SharedEdit
  <2>2. dec' \in Shared
    BY <1>0, <1>1, <2>1, SharedEdit
  <2> QED BY <1>0, <1>1, <2>2 DEF Shared
<1>3. /\ task' \in DecTasks /\ task'.pc = "post" /\ task'.wait = {}
      /\ task'.hnd = None /\ task'.info = NoInfo
      /\ task'.prev_rdy /\ ~task'.curr_rdy /\ ~task'.copy_rdy
      /\ ~task'.parsed_rdy /\ ~task'.gen_rdy
      /\ ~NoInfo.valid /\ ~NoInfo.change
  BY <1>1, NewTaskFacts DEF ParserPcs
<1>4. Quiet /\ dec.hal_reset = 1 /\ dec.reset_post = dec.reset_done
  BY <1>1 DEF Base, ResetInv
<1>5. codec' \in [ref0 : FrameSlots \cup {NoSlot}, found_i : BOOLEAN]
  BY <1>1
<1>6. TypeInv'
  BY <1>1, <1>2, <1>3, <1>5 DEF Base, TypeInv, stream
<1>7. HandlesInv'
  BY <1>1, <1>3 DEF Base, HandlesInv
<1>8. Todo' = Todo /\ Todo = <<>> /\ Todo \in Seq(TaskInfos)
  BY <1>1, <1>4, TaskLists DEF Todo, Quiet, Base
<1>9. TodoInv'
  BY <1>1, <1>8 DEF Base, TodoInv
<1>10. TaskInv'
  BY <1>1, <1>3 DEF Base, TaskInv, stream, FastMode, AtWork
<1>11. ResetInv'
  BY <1>1, <1>2, <1>3, <1>4 DEF Base, ResetInv, Quiet
<1>12. ProcDone = <<>>
  BY <1>1 DEF Base, ResetInv
<1>13. PrevInv'
  BY <1>1, <1>3, <1>8, <1>12 DEF Base, PrevInv, ProcDone, FastMode
<1> QED BY <1>6, <1>7, <1>9, <1>10, <1>11, <1>13 DEF Base

(* The parser has reset. *)
LEMMA BaseResetDone ==
    ASSUME Base, ParserResetDone
    PROVE  Base'
<1> USE DEF pools, lists, calls
<1>0. task \in DecTasks /\ dec \in Shared /\ session \in Sessions
  BY DEF Base, TypeInv
<1>1. /\ UNCHANGED <<session, tasks, codec, hal, lists, calls>>
      /\ task.pc = "post" /\ ~dec.locked
      /\ dec' = [dec EXCEPT !.reset_flag = FALSE, !.parser_reset = dec.parser_reset + 1]
      /\ task' = [task EXCEPT !.pc = "check"]
  BY DEF ParserResetDone, Go
<1>2. /\ dec' \in Shared /\ ~dec'.reset_flag /\ dec'.parser_reset = dec.parser_reset + 1
      /\ UNCHANGED <<dec.locked, dec.reset_post, dec.reset_done, dec.hal_reset>>
  <2>1. dec.parser_reset + 1 \in Nat /\ FALSE \in BOOLEAN
    BY <1>0, SharedEdit
  <2>2. dec' \in Shared
    BY <1>0, <1>1, <2>1, SharedEdit
  <2> QED BY <1>0, <1>1, <2>2 DEF Shared
<1>3. /\ task' \in DecTasks /\ task'.pc = "check" /\ task'.wait = task.wait
      /\ task'.hnd = task.hnd /\ task'.info = task.info
      /\ task'.prev_rdy = task.prev_rdy /\ task'.curr_rdy = task.curr_rdy
      /\ task'.copy_rdy = task.copy_rdy /\ task'.parsed_rdy = task.parsed_rdy
      /\ task'.gen_rdy = task.gen_rdy
  BY <1>0, <1>1 DEF DecTasks, ParserPcs
<1>4. TypeInv'
  BY <1>1, <1>2, <1>3 DEF Base, TypeInv, stream
<1>5. HandlesInv'
  BY <1>1, <1>3, SMTT(30) DEF Base, HandlesInv
<1>6. TodoInv' /\ Todo' = Todo
  BY <1>1 DEF Base, TodoInv, Todo
<1>7. TaskInv'
  BY <1>1, <1>3 DEF Base, TaskInv, stream, FastMode, AtWork
<1>8. ResetInv'
  BY <1>1, <1>2, <1>3 DEF Base, ResetInv
<1>9. PrevInv'
  BY <1>1, <1>3, <1>6 DEF Base, PrevInv, ProcDone, FastMode
<1> QED BY <1>4, <1>5, <1>6, <1>7, <1>8, <1>9 DEF Base

(* The parser thread ends. *)
LEMMA BaseExit ==
    ASSUME Base, ParserExit
    PROVE  Base'
<1> USE DEF pools, lists, calls
<1>0. task \in DecTasks /\ dec \in Shared /\ session \in Sessions
  BY DEF Base, TypeInv
<1>1. /\ UNCHANGED <<session, tasks, codec, hal, lists, calls, dec>>
      /\ task.pc = "check" /\ clr # "idle"
      /\ task' = [task EXCEPT !.pc = "exited"]
  BY DEF ParserExit, Go, Stopped
<1>3. /\ task' \in DecTasks /\ task'.pc = "exited" /\ task'.wait = task.wait
      /\ task'.hnd = task.hnd /\ task'.info = task.info
      /\ task'.prev_rdy = task.prev_rdy /\ task'.curr_rdy = task.curr_rdy
      /\ task'.copy_rdy = task.copy_rdy /\ task'.parsed_rdy = task.parsed_rdy
      /\ task'.gen_rdy = task.gen_rdy
  BY <1>0, <1>1 DEF DecTasks, ParserPcs
<1>4. TypeInv'
  BY <1>0, <1>1, <1>3 DEF Base, TypeInv, stream
<1>5. HandlesInv'
  BY <1>1, <1>3, SMTT(30) DEF Base, HandlesInv
<1>6. TodoInv' /\ Todo' = Todo
  BY <1>1 DEF Base, TodoInv, Todo
<1>7. TaskInv'
  BY <1>1, <1>3 DEF Base, TaskInv, stream, FastMode, AtWork
<1>8. ResetInv'
  BY <1>1, <1>3 DEF Base, ResetInv, Quiet, ProcDone
<1>9. PrevInv'
  BY <1>1, <1>3, <1>6 DEF Base, PrevInv, ProcDone, FastMode
<1> QED BY <1>4, <1>5, <1>6, <1>7, <1>8, <1>9 DEF Base

(* The stream is copied to a packet slot. *)
LEMMA BaseCopy ==
    ASSUME Base, Room, ParserCopy
    PROVE  Base'
<1> USE DEF pools, lists, calls
<1>0. task \in DecTasks /\ dec \in Shared /\ session \in Sessions /\ task.info \in TaskInfos
  BY DEF Base, TypeInv, DecTasks
<1>1. /\ UNCHANGED <<session, tasks, codec, hal, lists, calls, dec>> /\ task.pc = "copy"
  BY DEF ParserCopy
<1>2. CASE task.copy_rdy
  <2>1. Moves(task.wait, "prev") /\ task.wait \in SUBSET WaitBits
    BY <1>0, <1>2 DEF ParserCopy, Go, Moves, DecTasks
  <2>2. Reached("prev", task.wait) /\ "prev" \in ParserPcs
    BY <1>0, <1>1, <1>2 DEF Base, TaskInv, Reached, ParserPcs, AtWork, DecTasks
  <2>3. tasks' = tasks /\ task.pc = "copy"
    BY <1>1
  <2> QED BY <1>0, <1>1, <2>1, <2>2, <2>3, MovesInv
<1>3. CASE ~task.copy_rdy
  <2> DEFINE i == FirstUnused(pslots)
  <2>1. i \in 0 .. 2
    BY <1>1, <1>3 DEF Room
  <2>2. task' = [task EXCEPT !.info.input = i, !.copy_rdy = TRUE, !.pc = "prev"]
    BY <1>3 DEF ParserCopy
  <2> HIDE DEF i
  <2>3. /\ task' \in DecTasks /\ task'.pc = "prev" /\ task'.wait = task.wait
        /\ task'.hnd = task.hnd /\ task'.info = [task.info EXCEPT !.input = i]
        /\ task'.prev_rdy = task.prev_rdy /\ task'.curr_rdy = task.curr_rdy
        /\ task'.copy_rdy /\ task'.parsed_rdy = task.parsed_rdy
        /\ task'.gen_rdy = task.gen_rdy
    <3>1. [task.info EXCEPT !.input = i] \in TaskInfos
      BY <1>0, <2>1 DEF TaskInfos
    <3> QED BY <1>0, <2>2, <3>1 DEF DecTasks, ParserPcs, AtWork
  <2>4. /\ task'.info.valid = task.info.valid /\ task'.info.change = task.info.change
        /\ task'.info.pkt = task.info.pkt /\ task'.info.output = task.info.output
    BY <1>0, <2>3 DEF TaskInfos
  <2>5. TypeInv'
    BY <1>0, <1>1, <2>3 DEF Base, TypeInv, stream
  <2>6. HandlesInv'
    BY <1>1, <2>3, SMTT(30) DEF Base, HandlesInv
  <2>7. TodoInv' /\ Todo' = Todo
    BY <1>1 DEF Base, TodoInv, Todo
  <2>8. TaskInv'
    BY <1>1, <2>3, <2>4 DEF Base, TaskInv, stream, FastMode, AtWork
  <2>9. ResetInv'
    BY <1>1, <2>3 DEF Base, ResetInv
  <2>10. PrevInv'
    BY <1>1, <2>3, <2>7 DEF Base, PrevInv, ProcDone, FastMode
  <2> QED BY <2>5, <2>6, <2>7, <2>8, <2>9, <2>10 DEF Base
<1> QED BY <1>2, <1>3

(* What a picture refers to is a slot. *)
LEMMA ReferenceFacts ==
    ASSUME Base, task.pc = "parse", ~Undecodable(task.info.pkt)
    PROVE  /\ References(task.info.pkt) \in SUBSET FrameSlots
           /\ References(task.info.pkt) \subseteq {codec.ref0}
<1>1. codec \in [ref0 : FrameSlots \cup {NoSlot}, found_i : BOOLEAN]
  BY DEF Base, TypeInv
<1>2. CASE stream[task.info.pkt].kind = "P"
  <2>1. codec.found_i /\ codec.ref0 # NoSlot
    BY <1>2 DEF Undecodable, Base, TaskInv
  <2> QED BY <1>1, <1>2, <2>1 DEF References
<1>3. CASE stream[task.info.pkt].kind # "P"
  BY <1>3 DEF References
<1> QED BY <1>2, <1>3

(* A picture is parsed. *)
LEMMA BaseParse ==
    ASSUME Base, Room, ParserParse
    PROVE  Base'
<1> USE DEF pools, lists, calls
<1>0. task \in DecTasks /\ dec \in Shared /\ session \in Sessions /\ task.info \in TaskInfos
  BY DEF Base, TypeInv, DecTasks
<1>1. /\ UNCHANGED <<session, tasks, hal, lists, calls, dec>> /\ task.pc = "parse"
  BY DEF ParserParse
<1>2. CASE task.parsed_rdy
  <2>1. Moves(task.wait, "change") /\ task.wait \in SUBSET WaitBits
    BY <1>0, <1>2 DEF ParserParse, Go, Moves, DecTasks
  <2>2. Reached("change", task.wait) /\ "change" \in ParserPcs
    BY <1>0, <1>1, <1>2 DEF Base, TaskInv, Reached, ParserPcs, AtWork, DecTasks
  <2>3. codec' = codec
    BY <1>2 DEF ParserParse
  <2> QED BY <1>0, <1>1, <2>1, <2>2, <2>3, MovesInv
<1>3. CASE ~task.parsed_rdy
  <2> DEFINE i == FirstUnused(slots)
             R == References(task.info.pkt)
  <2>1. i \in FrameSlots
    BY <1>1, <1>3 DEF Room
  <2>2. /\ ~Undecodable(task.info.pkt)
        /\ task' = [task EXCEPT !.info.output = i, !.info.refer = R,
                                !.parsed_rdy = TRUE, !.pc = "change"]
        /\ codec' = [ref0 |-> i, found_i |-> TRUE]
    BY <1>3 DEF ParserParse
  <2>3. R \in SUBSET FrameSlots
    BY <1>1, <2>2, ReferenceFacts
  <2> HIDE DEF i, R
  <2>4. /\ task' \in DecTasks /\ task'.pc = "change" /\ task'.wait = task.wait
        /\ task'.hnd = task.hnd
        /\ task'.info = [task.info EXCEPT !.output = i, !.refer = R]
        /\ task'.prev_rdy = task.prev_rdy /\ task'.curr_rdy = task.curr_rdy
        /\ task'.copy_rdy = task.copy_rdy /\ task'.parsed_rdy
        /\ task'.gen_rdy = task.gen_rdy
    <3>1. [task.info EXCEPT !.output = i, !.refer = R] \in TaskInfos
      BY <1>0, <2>1, <2>3 DEF TaskInfos
    <3>2. task' = [task EXCEPT !.info = [task.info EXCEPT !.output = i, !.refer = R],
                               !.parsed_rdy = TRUE, !.pc = "change"]
      BY <1>0, <2>2 DEF DecTasks, TaskInfos
    <3> QED BY <1>0, <3>1, <3>2 DEF DecTasks, ParserPcs, AtWork
  <2>5. /\ task'.info.valid = task.info.valid /\ task'.info.change = task.info.change
        /\ task'.info.pkt = task.info.pkt /\ task'.info.output = i
    BY <1>0, <2>4 DEF TaskInfos
  <2>6. codec' \in [ref0 : FrameSlots \cup {NoSlot}, found_i : BOOLEAN]
        /\ codec'.found_i /\ codec'.ref0 # NoSlot
    <3>1. \A j \in FrameSlots : j # NoSlot
      BY CountAssumption DEF FrameSlots, NoSlot
    <3> QED BY <2>1, <2>2, <3>1
  <2>7. TypeInv'
    BY <1>0, <1>1, <2>4, <2>6 DEF Base, TypeInv, stream
  <2>8. HandlesInv'
    BY <1>1, <2>4, SMTT(30) DEF Base, HandlesInv
  <2>9. TodoInv' /\ Todo' = Todo
    BY <1>1 DEF Base, TodoInv, Todo
  <2>10. TaskInv'
    BY <1>1, <2>1, <2>4, <2>5, <2>6 DEF Base, TaskInv, stream, FastMode, AtWork
  <2>11. ResetInv'
    BY <1>1, <2>4 DEF Base, ResetInv
  <2>12. PrevInv'
    BY <1>1, <2>4, <2>9 DEF Base, PrevInv, ProcDone, FastMode
  <2> QED BY <2>7, <2>8, <2>9, <2>10, <2>11, <2>12 DEF Base
<1> QED BY <1>2, <1>3

(* h263d_prepare *)
LEMMA PreparedFacts ==
    ASSUME Base, NEW n \in 1 .. sent, ~task.curr_rdy
    PROVE  /\ Prepared(n) \in TaskInfos /\ ~Prepared(n).change
           /\ Prepared(n).output = task.info.output /\ Prepared(n).refer = task.info.refer
           /\ Prepared(n).valid <=> stream[n].kind # "eos"
           /\ ~Prepared(n).valid => Prepared(n).eos
           /\ Prepared(n).valid => Prepared(n).pkt = n
<1>1. task.info \in TaskInfos /\ ~task.info.change
  BY DEF Base, TypeInv, DecTasks, TaskInv
<1>2. stream[n].eos \in BOOLEAN /\ n \in Nat
  BY SessionFacts, SMTT(30) DEF Base, TypeInv
<1> QED BY <1>1, <1>2 DEF Prepared, TaskInfos

(* The parser takes a packet, or hands over the end of the stream. *)
LEMMA BaseGetPacket ==
    ASSUME Base, ParserGetPacket
    PROVE  Base'
<1> USE DEF pools, calls
<1>0. task \in DecTasks /\ dec \in Shared /\ session \in Sessions /\ task.info \in TaskInfos
      /\ mPackets \in Seq(Nat)
  BY DEF Base, TypeInv, DecTasks
<1>1. /\ UNCHANGED <<session, codec, mFrames, calls, dec, slots, pslots>>
      /\ task.pc = "pkt" /\ task.hnd # None
  BY DEF ParserGetPacket, Base, TaskInv, AtWork
<1>2. CASE task.curr_rdy
  <2>1. Moves(task.wait, "copy") /\ task.wait \in SUBSET WaitBits
    BY <1>0, <1>2 DEF ParserGetPacket, Go, Moves, DecTasks
  <2>2. Reached("copy", task.wait) /\ "copy" \in ParserPcs
    BY <1>0, <1>1, <1>2 DEF Base, TaskInv, Reached, ParserPcs, AtWork, DecTasks
  <2>3. UNCHANGED <<tasks, hal, lists>>
    BY <1>1, <1>2 DEF ParserGetPacket, lists
  <2> QED BY <1>0, <1>1, <2>1, <2>2, <2>3, MovesInv
<1>3. CASE ~task.curr_rdy /\ mPackets = <<>>
  <2> DEFINE w == task.wait \cup {"dec_pkt_in"}
  <2>1. Moves(w, "check") /\ w \in SUBSET WaitBits
    BY <1>0, <1>3 DEF ParserGetPacket, Block, Moves, DecTasks, WaitBits
  <2>2. Reached("check", w) /\ "check" \in ParserPcs
    BY <1>0, <1>3 DEF Base, TaskInv, Reached, ParserPcs, AtWork, DecTasks
  <2>3. UNCHANGED <<tasks, hal, lists>>
    BY <1>1, <1>3 DEF ParserGetPacket, lists
  <2> HIDE DEF w
  <2> QED BY <1>0, <1>1, <2>1, <2>2, <2>3, MovesInv
<1>4. CASE ~task.curr_rdy /\ mPackets # <<>>
  <2> DEFINE n == Head(mPackets)
             w == task.wait \ {"dec_pkt_in"}
             info == Prepared(n)
  <2>1. /\ n \in 1 .. sent /\ mPackets' = Tail(mPackets)
        /\ mPackets' \in Seq(Nat) /\ \A k \in 1 .. Len(mPackets') : mPackets'[k] \in 1 .. sent
    <3>1. mPackets' = Tail(mPackets)
      BY <1>4 DEF ParserGetPacket
    <3>2. \A k \in 1 .. Len(mPackets) : mPackets[k] \in 1 .. sent
      BY DEF Base, TaskInv
    <3> QED BY <1>0, <1>4, <3>1, <3>2
  <2>2. /\ info \in TaskInfos /\ ~info.change
        /\ (info.valid <=> stream[n].kind # "eos")
        /\ (~info.valid => info.eos)
        /\ (info.valid => info.pkt = n)
    BY <1>4, <2>1, PreparedFacts
  <2>3. ~task.parsed_rdy /\ ~task.gen_rdy /\ ~task.copy_rdy
    BY <1>0, <1>4 DEF Base, TaskInv, DecTasks
  <2>4. CASE info.valid
    <3>1. /\ task' = [task EXCEPT !.wait = w, !.pc = "copy", !.info = info, !.curr_rdy = TRUE]
          /\ UNCHANGED <<tasks, hal>>
      BY <1>0, <1>4, <2>4 DEF ParserGetPacket, Pass, DecTasks
    <3> HIDE DEF info, n
    <3>2. /\ task' \in DecTasks /\ task'.pc = "copy" /\ task'.wait = w
          /\ task'.hnd = task.hnd /\ task'.info = info
          /\ task'.prev_rdy = task.prev_rdy /\ task'.curr_rdy
          /\ task'.copy_rdy = task.copy_rdy /\ task'.parsed_rdy = task.parsed_rdy
          /\ task'.gen_rdy = task.gen_rdy
      BY <1>0, <2>2, <3>1 DEF DecTasks, ParserPcs, AtWork
    <3>3. TypeInv'
      BY <1>0, <1>1, <2>1, <3>1, <3>2 DEF Base, TypeInv, stream
    <3>4. HandlesInv'
      BY <1>1, <3>1, <3>2, SMTT(30) DEF Base, HandlesInv
    <3>5. TodoInv' /\ Todo' = Todo
      BY <1>1, <3>1 DEF Base, TodoInv, Todo
    <3>6. TaskInv'
      BY <1>1, <2>1, <2>2, <2>3, <2>4, <3>2 DEF Base, TaskInv, stream, FastMode, AtWork
    <3>7. ResetInv'
      BY <1>1, <3>1, <3>2 DEF Base, ResetInv
    <3>8. PrevInv'
      BY <1>1, <3>1, <3>2, <3>5 DEF Base, PrevInv, ProcDone, FastMode
    <3> QED BY <3>3, <3>4, <3>5, <3>6, <3>7, <3>8 DEF Base
  <2>5. CASE ~info.valid
    <3>1. /\ task' = [task EXCEPT !.wait = w, !.pc = "check", !.info = info, !.hnd = None]
          /\ PutTask(info)
      BY <1>0, <1>4, <2>5 DEF ParserGetPacket, Pass, DecTasks
    <3> HIDE DEF info, n
    <3>2. /\ task' \in DecTasks /\ task'.pc = "check" /\ task'.wait = w
          /\ task'.hnd = None /\ task'.info = info
          /\ task'.prev_rdy = task.prev_rdy /\ task'.curr_rdy = task.curr_rdy
          /\ task'.copy_rdy = task.copy_rdy /\ task'.parsed_rdy = task.parsed_rdy
          /\ task'.gen_rdy = task.gen_rdy
      BY <1>0, <2>2, <3>1 DEF DecTasks, ParserPcs, AtWork
    <3>3. /\ tasks' \in GroupsOf(TaskCount, TaskInfos)
          /\ hal' \in [pc : HalPcs, hnd : Hnds \cup {None}, info : TaskInfos]
          /\ HalKept /\ HandlesInv' /\ TodoInv' /\ PrevInv'
      <4>1. ~IsDecode(info) /\ task'.prev_rdy \in BOOLEAN
        BY <2>5, <3>2 DEF IsDecode, DecTasks
      <4> QED BY <1>1, <2>2, <2>5, <3>1, <3>2, <4>1, PutFacts
    <3>4. TypeInv'
      BY <1>0, <1>1, <2>1, <3>2, <3>3 DEF Base, TypeInv, stream
    <3>5. TaskInv'
      BY <1>1, <1>4, <2>1, <2>2, <2>3, <2>5, <3>2 DEF Base, TaskInv, stream, FastMode, AtWork
    <3>6. ResetInv'
      <4>1. hal'.pc \in HalPcs /\ dec' \in Shared
        BY <1>0, <1>1, <3>3
      <4> QED BY <1>1, <3>2, <3>3, <4>1, ResetKept
    <3> QED BY <3>3, <3>4, <3>5, <3>6 DEF Base
  <2> QED BY <2>4, <2>5
<1> QED BY <1>2, <1>3, <1>4

(* No picture: the handle goes back, or carries the eos flag. *)
LEMMA BaseDropPacket ==
    ASSUME Base, ParserDropPacket
    PROVE  Base'
<1> USE DEF pools, lists, calls
<1>0. task \in DecTasks /\ dec \in Shared /\ session \in Sessions /\ task.info \in TaskInfos
  BY DEF Base, TypeInv, DecTasks
<1>1. /\ UNCHANGED <<session, codec, lists, calls, dec>>
      /\ task.pc = "parse" /\ ~task.parsed_rdy /\ task.hnd # None /\ ~task.gen_rdy
      /\ ~task.info.change
      /\ task' = [task EXCEPT !.hnd = None, !.copy_rdy = FALSE, !.curr_rdy = FALSE,
                            !.info = NoInfo, !.pc = "check"]
  BY <1>0 DEF ParserDropPacket, Base, TaskInv, AtWork, DecTasks
<1>2. /\ task' \in DecTasks /\ task'.pc = "check" /\ task'.wait = task.wait
      /\ task'.hnd = None /\ task'.info = NoInfo
      /\ task'.prev_rdy = task.prev_rdy /\ ~task'.curr_rdy
      /\ ~task'.copy_rdy /\ task'.parsed_rdy = task.parsed_rdy
      /\ task'.gen_rdy = task.gen_rdy
      /\ ~NoInfo.valid /\ ~NoInfo.change
  BY <1>0, <1>1, NewTaskFacts DEF DecTasks, ParserPcs
<1>3. TaskInv'
  BY <1>1, <1>2 DEF Base, TaskInv, stream, FastMode, AtWork
<1>4. CASE task.info.eos
  <2> DEFINE info == [task.info EXCEPT !.valid = FALSE]
  <2>1. PutTask(info)
    BY <1>4 DEF ParserDropPacket
  <2>2. info \in TaskInfos /\ ~info.valid /\ info.eos /\ ~info.change
    BY <1>0, <1>1, <1>4 DEF TaskInfos
  <2> HIDE DEF info
  <2>3. /\ tasks' \in GroupsOf(TaskCount, TaskInfos)
        /\ hal' \in [pc : HalPcs, hnd : Hnds \cup {None}, info : TaskInfos]
        /\ HalKept /\ HandlesInv' /\ TodoInv' /\ PrevInv'
    <3>1. ~IsDecode(info) /\ task'.prev_rdy \in BOOLEAN
      BY <1>2, <2>2 DEF IsDecode, DecTasks
    <3> QED BY <1>1, <1>2, <2>1, <2>2, <3>1, PutFacts
  <2>4. TypeInv'
    BY <1>0, <1>1, <1>2, <2>3 DEF Base, TypeInv, stream
  <2>5. ResetInv'
    <3>1. hal'.pc \in HalPcs /\ dec' \in Shared
      BY <1>0, <1>1, <2>3
    <3> QED BY <1>1, <1>2, <2>3, <3>1, ResetKept
  <2> QED BY <1>3, <2>3, <2>4, <2>5 DEF Base
<1>5. CASE ~task.info.eos
  <2>1. tasks' = SetStatus(tasks, task.hnd, "TASK_IDLE") /\ hal' = hal
    BY <1>5 DEF ParserDropPacket
  <2>2. /\ tasks' \in GroupsOf(TaskCount, TaskInfos)
        /\ LinkedOnce(tasks') /\ AllLinked(tasks')
        /\ tasks'.info = tasks.info /\ Todo' = Todo
        /\ tasks'.list["TASK_PROCESSING"] = tasks.list["TASK_PROCESSING"]
        /\ ProcDone' = ProcDone
    BY <1>1, <2>1, GiveBackFacts DEF Base
  <2>3. TypeInv'
    BY <1>0, <1>1, <1>2, <2>1, <2>2 DEF Base, TypeInv, stream
  <2>4. HandlesInv'
    BY <1>1, <1>2, <2>1, <2>2 DEF Base, HandlesInv, HasHnd, GetHnd
  <2>5. TodoInv'
    BY <1>1, <2>1, <2>2 DEF Base, TodoInv
  <2>6. ResetInv'
    <3>1. hal'.pc \in HalPcs /\ dec' \in Shared /\ HalKept
      BY <1>0, <1>1, <2>1 DEF Base, TypeInv, HalKept
    <3> QED BY <1>1, <1>2, <3>1, ResetKept
  <2>7. PrevInv'
    BY <1>1, <1>2, <2>2 DEF Base, PrevInv, FastMode
  <2> QED BY <1>3, <2>3, <2>4, <2>5, <2>6, <2>7 DEF Base
<1> QED BY <1>4, <1>5

(* A change of geometry is announced. *)
LEMMA BaseInfoChange ==
    ASSUME Base, ParserInfoChange
    PROVE  Base'
<1> USE DEF pools, lists, calls
<1>0. task \in DecTasks /\ dec \in Shared /\ session \in Sessions /\ task.info \in TaskInfos
  BY DEF Base, TypeInv, DecTasks
<1> DEFINE info == [task.info EXCEPT !.change = TRUE, !.eos = FALSE]
           kept == [task.info EXCEPT !.change = TRUE]
<1>1. /\ UNCHANGED <<session, codec, lists, calls, dec>>
      /\ task.pc = "change" /\ task.parsed_rdy /\ task.hnd # None /\ ~task.gen_rdy
      /\ task.curr_rdy /\ task.copy_rdy /\ task.info.valid /\ (FastMode \/ task.prev_rdy)
  BY <1>0 DEF ParserInfoChange, Base, TaskInv, AtWork, DecTasks
<1>2. /\ task' = [task EXCEPT !.hnd = None, !.gen_rdy = TRUE, !.info = kept, !.pc = "check"]
      /\ PutTask(info)
  BY <1>0 DEF ParserInfoChange, DecTasks, TaskInfos
<1>3. /\ info \in TaskInfos /\ info.valid /\ ~info.eos /\ info.change
      /\ kept \in TaskInfos /\ kept.valid /\ kept.change /\ kept.pkt = task.info.pkt
      /\ kept.output = task.info.output
  BY <1>0, <1>1 DEF TaskInfos
<1> HIDE DEF info, kept
<1>4. /\ task' \in DecTasks /\ task'.pc = "check" /\ task'.wait = task.wait
      /\ task'.hnd = None /\ task'.info = kept
      /\ task'.prev_rdy = task.prev_rdy /\ task'.curr_rdy = task.curr_rdy
      /\ task'.copy_rdy = task.copy_rdy /\ task'.parsed_rdy = task.parsed_rdy
      /\ task'.gen_rdy
  BY <1>0, <1>2, <1>3 DEF DecTasks, ParserPcs
<1>5. TaskInv'
  BY <1>1, <1>3, <1>4 DEF Base, TaskInv, stream, FastMode, AtWork
<1>6. /\ tasks' \in GroupsOf(TaskCount, TaskInfos)
      /\ hal' \in [pc : HalPcs, hnd : Hnds \cup {None}, info : TaskInfos]
      /\ HalKept /\ HandlesInv' /\ TodoInv' /\ PrevInv'
  <2>1. ~IsDecode(info) /\ task'.prev_rdy \in BOOLEAN
    BY <1>3, <1>4 DEF IsDecode, DecTasks
  <2> QED BY <1>1, <1>2, <1>3, <1>4, <2>1, PutFacts
<1>7. TypeInv'
  BY <1>0, <1>1, <1>4, <1>6 DEF Base, TypeInv, stream
<1>8. ResetInv'
  <2>1. hal'.pc \in HalPcs /\ dec' \in Shared
    BY <1>0, <1>1, <1>6
  <2> QED BY <1>1, <1>4, <1>6, <2>1, ResetKept
<1> QED BY <1>5, <1>6, <1>7, <1>8 DEF Base

(* The hardware is started. *)
LEMMA BaseStart ==
    ASSUME Base, ParserStart
    PROVE  Base'
<1> USE DEF pools, lists, calls
<1>0. task \in DecTasks /\ dec \in Shared /\ session \in Sessions /\ task.info \in TaskInfos
  BY DEF Base, TypeInv, DecTasks
<1> DEFINE info == [task.info EXCEPT !.change = FALSE]
           w == task.wait \ {"info_change"}
<1>1. /\ UNCHANGED <<session, codec, lists, calls, dec>>
      /\ task.pc = "change" /\ task.parsed_rdy /\ task.hnd # None
      /\ task.curr_rdy /\ task.copy_rdy /\ task.info.valid /\ (FastMode \/ task.prev_rdy)
  BY <1>0 DEF ParserStart, Base, TaskInv, AtWork, DecTasks
<1>2. /\ task' = [task EXCEPT !.wait = w, !.pc = "check",
                   !.hnd = None, !.copy_rdy = FALSE, !.curr_rdy = FALSE,
                   !.parsed_rdy = FALSE, !.prev_rdy = FALSE, !.gen_rdy = FALSE,
                   !.info = NoInfo]
      /\ PutTask(info)
  BY <1>0 DEF ParserStart, Pass, DecTasks
<1>3. info \in TaskInfos /\ info.valid /\ ~info.change
  BY <1>0, <1>1 DEF TaskInfos
<1> HIDE DEF info
<1>4. /\ task' \in DecTasks /\ task'.pc = "check" /\ task'.wait = w
      /\ task'.hnd = None /\ task'.info = NoInfo
      /\ ~task'.prev_rdy /\ ~task'.curr_rdy /\ ~task'.copy_rdy /\ ~task'.parsed_rdy
      /\ ~task'.gen_rdy /\ ~NoInfo.valid /\ ~NoInfo.change
  BY <1>0, <1>2, NewTaskFacts DEF DecTasks, ParserPcs
<1>5. TaskInv'
  BY <1>1, <1>4 DEF Base, TaskInv, stream, FastMode, AtWork
<1>6. /\ tasks' \in GroupsOf(TaskCount, TaskInfos)
      /\ hal' \in [pc : HalPcs, hnd : Hnds \cup {None}, info : TaskInfos]
      /\ HalKept /\ HandlesInv' /\ TodoInv' /\ PrevInv'
  <2>1. IsDecode(info) /\ task'.prev_rdy \in BOOLEAN
    BY <1>3, <1>4 DEF IsDecode, DecTasks
  <2> QED BY <1>1, <1>2, <1>3, <1>4, <2>1, PutFacts
<1>7. TypeInv'
  BY <1>0, <1>1, <1>4, <1>6 DEF Base, TypeInv, stream
<1>8. ResetInv'
  <2>1. hal'.pc \in HalPcs /\ dec' \in Shared
    BY <1>0, <1>1, <1>6
  <2> QED BY <1>1, <1>4, <1>6, <2>1, ResetKept
<1> QED BY <1>5, <1>6, <1>7, <1>8 DEF Base

HalType == [pc : HalPcs, hnd : Hnds \cup {None}, info : TaskInfos]

(* The parser is woken, or not, and the tasks are as they were. *)
LEMMA OthersKept ==
    ASSUME Base, TaskKept, UNCHANGED <<session, tasks, codec>>, hal' \in HalType,
           mPackets' \in Seq(Nat), \A k \in 1 .. Len(mPackets') : mPackets'[k] \in 1 .. sent',
           sent' \in Nat, sent <= sent', sent' <= Len(stream), dec' \in Shared,
           user' \in {"idle", "ready", "ready_notify"} \cup
                     {"flag", "notify", "unlock", "sem", "flush"},
           clr' \in {"idle", "join_parser", "join_hal", "done"}, resets' \in Nat
    PROVE  /\ TypeInv' /\ TaskInv' /\ PrevInv' /\ Todo' = Todo /\ ProcDone' = ProcDone
           /\ task'.hnd = task.hnd /\ task'.info = task.info /\ task'.pc \in ParserPcs
           /\ task'.pc \in {task.pc, "reset"} /\ (task'.pc # task.pc => task.pc = "wait")
           /\ task.pc # "wait" => task' = task
<1>0. task \in DecTasks /\ session \in Sessions
  BY DEF Base, TypeInv
<1>1. /\ task' \in DecTasks /\ task'.wait = task.wait
      /\ task'.hnd = task.hnd /\ task'.info = task.info
      /\ task'.prev_rdy = task.prev_rdy /\ task'.curr_rdy = task.curr_rdy
      /\ task'.copy_rdy = task.copy_rdy /\ task'.parsed_rdy = task.parsed_rdy
      /\ task'.gen_rdy = task.gen_rdy
      /\ task'.pc = task.pc \/ (task.pc = "wait" /\ task'.pc = "reset")
  BY <1>0 DEF TaskKept, DecTasks, ParserPcs
<1>2. TypeInv'
  BY <1>0, <1>1 DEF Base, TypeInv, stream, HalType
<1>3. TaskInv'
  <2>1. task.info.pkt \in 1 .. sent => task.info.pkt \in 1 .. sent'
    BY DEF Base, TypeInv
  <2> QED BY <1>1, <2>1 DEF Base, TaskInv, stream, FastMode, AtWork
<1>4. Todo' = Todo
  BY DEF Todo
<1>5. PrevInv'
  BY <1>1, <1>4 DEF Base, PrevInv, ProcDone, FastMode
<1>6. task'.pc \in ParserPcs
  BY <1>1 DEF DecTasks
<1>7. task.pc # "wait" => task' = task
  BY DEF TaskKept
<1> QED BY <1>1, <1>2, <1>3, <1>4, <1>5, <1>6, <1>7 DEF ProcDone

(* ResetInv does not look at the details. *)
LEMMA ResetKept2 ==
    ASSUME Base, task'.pc \in {task.pc, "reset"}, task'.pc # task.pc => task.pc = "wait",
           task.pc # "wait" => task' = task,
           UNCHANGED <<user, clr>>,
           UNCHANGED <<dec.reset_flag, dec.locked, dec.reset_post, dec.reset_done,
                       dec.hal_reset, dec.parser_reset>>,
           hal'.pc = "exited" => hal.pc = "exited",
           Quiet /\ ProcDone = <<>> => Quiet' /\ ProcDone' = <<>>,
           Quiet => Quiet'
    PROVE  ResetInv'
<1>1. \A pc \in {"sem_hal", "post", "exited"} : task'.pc = pc <=> task.pc = pc
  OBVIOUS
<1>2. task'.pc = "post" => task' = task
  OBVIOUS
<1> QED BY <1>1, <1>2 DEF Base, ResetInv

(* The hal thread goes on. *)
LEMMA HalGoFacts ==
    ASSUME TypeInv, NEW pc \in HalPcs, HalGo(pc)
    PROVE  hal' \in HalType /\ hal'.pc = pc /\ hal'.hnd = hal.hnd /\ hal'.info = hal.info
BY DEF TypeInv, HalGo, HalType

(* The hal thread takes the first task. *)
LEMMA BaseTake ==
    ASSUME Base, HalTake
    PROVE  Base'
<1> USE DEF pools, lists, calls
<1> DEFINE h == GetHnd(tasks, "TASK_PROCESSING")
           info == tasks.info[h]
<1>1. /\ UNCHANGED <<session, tasks, task, codec, dec, lists, calls>>
      /\ hal.pc = "check" /\ HasHnd(tasks, "TASK_PROCESSING")
      /\ hal' = [hnd |-> h, info |-> info,
                 pc |-> IF info.change THEN "change"
                        ELSE IF info.eos /\ ~info.valid THEN "eos" ELSE "hw"]
  BY DEF HalTake
<1>2. h \in Hnds /\ info \in TaskInfos /\ 1 \in 1 .. Len(Todo) /\ Todo[1] = info
  <2> DEFINE P == tasks.list["TASK_PROCESSING"]
  <2>1. /\ P \in Seq(Hnds) /\ P # <<>> /\ h = Head(P) /\ tasks.info \in [Hnds -> TaskInfos]
        /\ Todo = [k \in 1 .. Len(P) |-> tasks.info[P[k]]] /\ Len(Todo) = Len(P)
    BY <1>1, TaskLists DEF Base, HasHnd, GetHnd
  <2> HIDE DEF P, h
  <2>2. 1 \in 1 .. Len(P) /\ Head(P) = P[1] /\ P[1] \in Hnds
    BY <2>1
  <2> QED BY <2>1, <2>2
<1>3. /\ info.valid \in BOOLEAN /\ info.eos \in BOOLEAN /\ info.change \in BOOLEAN
      /\ info.change => info.valid /\ ~info.eos
      /\ ~info.valid => info.eos
  BY <1>2 DEF Base, TodoInv, TaskInfos
<1> HIDE DEF h, info
<1>4. /\ hal' \in HalType /\ hal'.pc \in {"change", "eos", "hw"}
      /\ hal'.hnd = h /\ hal'.info = info
      /\ hal'.pc = "change" => info.change
      /\ hal'.pc = "eos" => ~info.valid
      /\ hal'.pc = "hw" => info.valid /\ ~info.change
  BY <1>1, <1>2, <1>3 DEF HalType, HalPcs, Holding
<1>5. TaskKept
  BY <1>1 DEF TaskKept
<1>6. TypeInv' /\ TaskInv' /\ PrevInv' /\ Todo' = Todo /\ ProcDone' = ProcDone
  BY <1>1, <1>4, <1>5, OthersKept DEF Base, TypeInv, TaskInv
<1>7. HandlesInv'
  BY <1>1, <1>4 DEF Base, HandlesInv, h, info
<1>8. TodoInv'
  BY <1>4, <1>6 DEF Base, TodoInv, IsDecode
<1>9. ResetInv'
  BY <1>1, <1>4 DEF Base, ResetInv, Quiet
<1> QED BY <1>6, <1>7, <1>8, <1>9 DEF Base

(* An info change is announced. *)
LEMMA BaseHalChange ==
    ASSUME Base, HalInfoChange
    PROVE  Base'
<1> USE DEF pools, lists, calls
<1>1. /\ UNCHANGED <<session, tasks, task, codec, dec, mPackets, calls>>
      /\ hal.pc = "change" /\ HalGo("idle")
  BY DEF HalInfoChange
<1>2. hal' \in HalType /\ hal'.pc = "idle" /\ hal'.hnd = hal.hnd /\ hal'.info = hal.info
  BY <1>1, HalGoFacts DEF Base, HalPcs, Holding
<1>3. TaskKept
  BY <1>1 DEF TaskKept
<1>4. TypeInv' /\ TaskInv' /\ PrevInv' /\ Todo' = Todo /\ ProcDone' = ProcDone
  BY <1>1, <1>2, <1>3, OthersKept DEF Base, TypeInv, TaskInv
<1>5. HandlesInv'
  BY <1>1, <1>2 DEF Base, HandlesInv, Holding
<1>6. TodoInv'
  BY <1>1, <1>2, <1>4, HoldingFacts DEF Base, TodoInv, IsDecode, Holding
<1>7. ResetInv'
  BY <1>1, <1>2 DEF Base, ResetInv, Quiet
<1> QED BY <1>4, <1>5, <1>6, <1>7 DEF Base

(* The end of the stream is passed on. *)
LEMMA BaseHalEos ==
    ASSUME Base, HalEos
    PROVE  Base'
<1> USE DEF pools, lists, calls
<1>1. /\ UNCHANGED <<session, tasks, task, codec, dec, mPackets, calls>>
      /\ hal.pc = "eos" /\ HalGo("idle")
  BY DEF HalEos
<1>2. hal' \in HalType /\ hal'.pc = "idle" /\ hal'.hnd = hal.hnd /\ hal'.info = hal.info
  BY <1>1, HalGoFacts DEF Base, HalPcs, Holding
<1>3. TaskKept
  BY <1>1 DEF TaskKept
<1>4. TypeInv' /\ TaskInv' /\ PrevInv' /\ Todo' = Todo /\ ProcDone' = ProcDone
  BY <1>1, <1>2, <1>3, OthersKept DEF Base, TypeInv, TaskInv
<1>5. HandlesInv'
  BY <1>1, <1>2 DEF Base, HandlesInv, Holding
<1>6. TodoInv'
  BY <1>1, <1>2, <1>4, HoldingFacts DEF Base, TodoInv, IsDecode, Holding
<1>7. ResetInv'
  BY <1>1, <1>2 DEF Base, ResetInv, Quiet
<1> QED BY <1>4, <1>5, <1>6, <1>7 DEF Base

(* The hardware is done. *)
LEMMA BaseHwDone ==
    ASSUME Base, HalHwDone
    PROVE  Base'
<1> USE DEF pools, lists, calls
<1>1. /\ UNCHANGED <<session, tasks, task, codec, dec, mPackets, calls>>
      /\ hal.pc = "hw" /\ HalGo("done")
  BY DEF HalHwDone
<1>2. hal' \in HalType /\ hal'.pc = "done" /\ hal'.hnd = hal.hnd /\ hal'.info = hal.info
  BY <1>1, HalGoFacts DEF Base, HalPcs, Holding
<1>3. TaskKept
  BY <1>1 DEF TaskKept
<1>4. TypeInv' /\ TaskInv' /\ PrevInv' /\ Todo' = Todo /\ ProcDone' = ProcDone
  BY <1>1, <1>2, <1>3, OthersKept DEF Base, TypeInv, TaskInv
<1>5. HandlesInv'
  BY <1>1, <1>2 DEF Base, HandlesInv, Holding
<1>6. TodoInv'
  BY <1>1, <1>2, <1>4, HoldingFacts DEF Base, TodoInv, IsDecode, Holding
<1>7. ResetInv'
  BY <1>1, <1>2 DEF Base, ResetInv, Quiet
<1> QED BY <1>4, <1>5, <1>6, <1>7 DEF Base

(* The marks of the task are cleared. *)
LEMMA BaseHalClear ==
    ASSUME Base, HalClear
    PROVE  Base'
<1> USE DEF pools, lists, calls
<1>1. /\ UNCHANGED <<session, tasks, task, codec, dec, mPackets, calls>>
      /\ hal.pc = "clear" /\ HalGo("push")
  BY DEF HalClear
<1>2. hal' \in HalType /\ hal'.pc = "push" /\ hal'.hnd = hal.hnd /\ hal'.info = hal.info
  BY <1>1, HalGoFacts DEF Base, HalPcs, Holding
<1>3. TaskKept
  BY <1>1 DEF TaskKept
<1>4. TypeInv' /\ TaskInv' /\ PrevInv' /\ Todo' = Todo /\ ProcDone' = ProcDone
  BY <1>1, <1>2, <1>3, OthersKept DEF Base, TypeInv, TaskInv
<1>5. HandlesInv'
  BY <1>1, <1>2 DEF Base, HandlesInv, Holding
<1>6. TodoInv'
  BY <1>1, <1>2, <1>4, HoldingFacts DEF Base, TodoInv, IsDecode, Holding
<1>7. ResetInv'
  BY <1>1, <1>2 DEF Base, ResetInv, Quiet
<1> QED BY <1>4, <1>5, <1>6, <1>7 DEF Base

(* What is ready is put. *)
LEMMA BaseHalPush ==
    ASSUME Base, HalPush
    PROVE  Base'
<1> USE DEF pools, lists, calls
<1>1. /\ UNCHANGED <<session, tasks, task, codec, dec, mPackets, calls>>
      /\ hal.pc = "push" /\ HalGo("notify")
  BY DEF HalPush
<1>2. hal' \in HalType /\ hal'.pc = "notify" /\ hal'.hnd = hal.hnd /\ hal'.info = hal.info
  BY <1>1, HalGoFacts DEF Base, HalPcs, Holding
<1>3. TaskKept
  BY <1>1 DEF TaskKept
<1>4. TypeInv' /\ TaskInv' /\ PrevInv' /\ Todo' = Todo /\ ProcDone' = ProcDone
  BY <1>1, <1>2, <1>3, OthersKept DEF Base, TypeInv, TaskInv
<1>5. HandlesInv'
  BY <1>1, <1>2 DEF Base, HandlesInv, Holding
<1>6. TodoInv'
  BY <1>1, <1>2, <1>4, HoldingFacts DEF Base, TodoInv, IsDecode, Holding
<1>7. ResetInv'
  BY <1>1, <1>2 DEF Base, ResetInv, Quiet
<1> QED BY <1>4, <1>5, <1>6, <1>7 DEF Base

(* The hal thread ends. *)
LEMMA BaseHalExit ==
    ASSUME Base, HalExit
    PROVE  Base'
<1> USE DEF pools, lists, calls
<1>1. /\ UNCHANGED <<session, tasks, task, codec, dec, mPackets, calls>>
      /\ hal.pc = "check" /\ HalGo("exited")
      /\ clr \in {"join_hal", "done"}
  BY DEF HalExit, Stopped
<1>2. hal' \in HalType /\ hal'.pc = "exited" /\ hal'.hnd = hal.hnd /\ hal'.info = hal.info
  BY <1>1, HalGoFacts DEF Base, HalPcs, Holding
<1>3. TaskKept
  BY <1>1 DEF TaskKept
<1>4. TypeInv' /\ TaskInv' /\ PrevInv' /\ Todo' = Todo /\ ProcDone' = ProcDone
  BY <1>1, <1>2, <1>3, OthersKept DEF Base, TypeInv, TaskInv
<1>5. HandlesInv'
  BY <1>1, <1>2 DEF Base, HandlesInv, Holding
<1>6. TodoInv'
  BY <1>1, <1>2, <1>4, HoldingFacts DEF Base, TodoInv, IsDecode, Holding
<1>7. ResetInv'
  BY <1>1, <1>2 DEF Base, ResetInv, Quiet
<1> QED BY <1>4, <1>5, <1>6, <1>7 DEF Base

(* The hal thread gives a task back. *)
LEMMA BaseSetIdle ==
    ASSUME Base, HalSetIdle
    PROVE  Base'
<1> USE DEF pools, lists, calls
<1>1. /\ UNCHANGED <<session, task, codec, dec, mPackets, calls>>
      /\ hal.pc = "idle" /\ HalGo("notify")
      /\ tasks' = SetStatus(tasks, hal.hnd, "TASK_IDLE")
  BY DEF HalSetIdle
<1>2. hal' \in HalType /\ hal'.pc = "notify" /\ hal'.hnd = hal.hnd /\ hal'.info = hal.info
  BY <1>1, HalGoFacts DEF Base, HalPcs, Holding
<1>3. /\ tasks' \in GroupsOf(TaskCount, TaskInfos)
      /\ LinkedOnce(tasks') /\ AllLinked(tasks')
      /\ tasks'.info = tasks.info
      /\ Todo' = Tail(Todo) /\ ProcDone' = ProcDone
      /\ HasHnd(tasks, "TASK_IDLE") =>
            /\ HasHnd(tasks', "TASK_IDLE")
            /\ GetHnd(tasks', "TASK_IDLE") = GetHnd(tasks, "TASK_IDLE")
  <2>1. hal.pc \in Holding
    BY <1>1 DEF Holding
  <2> QED BY <1>1, <2>1, DoneFacts DEF Base
<1>4. TypeInv'
  BY <1>1, <1>2, <1>3 DEF Base, TypeInv, stream, HalType
<1>5. HandlesInv'
  BY <1>1, <1>2, <1>3 DEF Base, HandlesInv, Holding
<1>6. /\ Len(Todo) \in Nat \ {0} /\ Len(Todo') = Len(Todo) - 1
      /\ \A k \in 1 .. Len(Todo') : k + 1 \in 1 .. Len(Todo) /\ Todo'[k] = Todo[k + 1]
  BY <1>1, <1>3, HoldingFacts, TaskLists DEF Base, Holding
<1>7. TodoInv'
  BY <1>2, <1>6 DEF Base, TodoInv
<1>8. TaskInv'
  BY <1>1 DEF Base, TaskInv, stream, FastMode
<1>9. ResetInv'
  BY <1>1, <1>2 DEF Base, ResetInv, Quiet
<1>10. PrevInv'
  <2>1. \A j, k \in 1 .. Len(Todo') : j + 1 = k + 1 => j = k
    BY <1>6
  <2>2. FastMode' = FastMode /\ task' = task
    BY <1>1 DEF FastMode
  <2> QED BY <1>3, <1>6, <2>1, <2>2 DEF Base, PrevInv
<1> QED BY <1>4, <1>5, <1>7, <1>8, <1>9, <1>10 DEF Base

(* The hal thread is through with a picture. *)
LEMMA BaseTaskDone ==
    ASSUME Base, HalTaskDone
    PROVE  Base'
<1> USE DEF pools, lists, calls
<1> DEFINE t == IF FastMode THEN "TASK_IDLE" ELSE "TASK_PROC_DONE"
<1>0. session \in Sessions /\ FastMode \in BOOLEAN /\ hal.pc \in Holding
  BY SessionFacts DEF Base, TypeInv, HalTaskDone, Holding
<1>1. /\ UNCHANGED <<session, task, codec, dec, mPackets, calls>>
      /\ hal.pc = "done" /\ HalGo("clear")
      /\ tasks' = SetStatus(tasks, hal.hnd, t)
  BY DEF HalTaskDone
<1>2. hal' \in HalType /\ hal'.pc = "clear" /\ hal'.hnd = hal.hnd /\ hal'.info = hal.info
  BY <1>1, HalGoFacts DEF Base, HalPcs
<1>3. /\ tasks' \in GroupsOf(TaskCount, TaskInfos)
      /\ LinkedOnce(tasks') /\ AllLinked(tasks')
      /\ tasks'.info = tasks.info
      /\ Todo' = Tail(Todo)
      /\ ProcDone' = IF FastMode THEN ProcDone ELSE Append(ProcDone, hal.hnd)
      /\ HasHnd(tasks, "TASK_IDLE") =>
            /\ HasHnd(tasks', "TASK_IDLE")
            /\ GetHnd(tasks', "TASK_IDLE") = GetHnd(tasks, "TASK_IDLE")
  <2>1. t \in {"TASK_IDLE", "TASK_PROC_DONE"}
    OBVIOUS
  <2>2. (t = "TASK_IDLE") <=> FastMode
    OBVIOUS
  <2> HIDE DEF t
  <2> QED BY <1>0, <1>1, <2>1, <2>2, DoneFacts DEF Base
<1>4. TypeInv'
  BY <1>1, <1>2, <1>3 DEF Base, TypeInv, stream, HalType
<1>5. HandlesInv'
  BY <1>1, <1>2, <1>3 DEF Base, HandlesInv, Holding
<1>6. /\ Len(Todo) \in Nat \ {0} /\ Len(Todo') = Len(Todo) - 1
      /\ \A k \in 1 .. Len(Todo') : k + 1 \in 1 .. Len(Todo) /\ Todo'[k] = Todo[k + 1]
      /\ 1 \in 1 .. Len(Todo) /\ Todo[1] = hal.info
  BY <1>0, <1>3, HoldingFacts, TaskLists DEF Base
<1>7. TodoInv'
  BY <1>1, <1>2, <1>6 DEF Base, TodoInv
<1>8. TaskInv'
  BY <1>1 DEF Base, TaskInv, stream, FastMode
<1>9. ResetInv'
  BY <1>1, <1>2 DEF Base, ResetInv, Quiet
<1>10. PrevInv'
  <2>1. FastMode' = FastMode /\ task' = task
    BY <1>1 DEF FastMode
  <2>2. IsDecode(Todo[1])
    BY <1>1, <1>6 DEF Base, TodoInv
  <2>3. CASE FastMode
    BY <1>3, <2>1, <2>3 DEF Base, PrevInv
  <2>4. CASE ~FastMode
    <3>1. ~task.prev_rdy /\ ProcDone = <<>>
      BY <1>6, <2>2, <2>4 DEF Base, PrevInv
    <3>2. Len(ProcDone') = 1
      BY <1>3, <2>4, <3>1
    <3>3. \A k \in 1 .. Len(Todo') : ~IsDecode(Todo'[k])
      <4> SUFFICES ASSUME NEW k \in 1 .. Len(Todo'), IsDecode(Todo'[k]) PROVE FALSE
        OBVIOUS
      <4>1. k + 1 \in 1 .. Len(Todo) /\ IsDecode(Todo[k + 1]) /\ k + 1 # 1
        BY <1>6
      <4> QED BY <1>6, <2>2, <2>4, <4>1 DEF Base, PrevInv
    <3> QED BY <2>1, <2>4, <3>1, <3>2, <3>3 DEF PrevInv
  <2> QED BY <1>0, <2>3, <2>4
<1> QED BY <1>4, <1>5, <1>7, <1>8, <1>9, <1>10 DEF Base

(* The hal thread has nothing to do, and answers the parser. *)
LEMMA BaseHalReset ==
    ASSUME Base, HalReset
    PROVE  Base'
<1> USE DEF pools, lists, calls
<1>0. task \in DecTasks /\ dec \in Shared /\ session \in Sessions
  BY DEF Base, TypeInv
<1>1. /\ UNCHANGED <<session, task, codec, hal, mPackets, calls>>
      /\ hal.pc = "check" /\ ~HasHnd(tasks, "TASK_PROCESSING")
      /\ dec.reset_post # dec.reset_done
      /\ tasks' = SetAll(tasks, ProcDone, "TASK_IDLE")
      /\ dec' = [dec EXCEPT !.reset_done = dec.reset_done + 1,
                            !.hal_reset = dec.hal_reset + 1]
  BY DEF HalReset, HalIdle, SetAll, ProcDone
<1>2. \/ ProcDone = <<>> /\ tasks' = tasks
      \/ /\ ProcDone # <<>> /\ Tail(ProcDone) = <<>>
         /\ tasks' = SetStatus(tasks, Head(ProcDone), "TASK_IDLE")
  BY <1>1, FlushFacts DEF Base
<1>3. /\ tasks' \in GroupsOf(TaskCount, TaskInfos)
      /\ LinkedOnce(tasks') /\ AllLinked(tasks') /\ Todo' = Todo
      /\ tasks'.info = tasks.info
      /\ tasks'.list["TASK_PROCESSING"] = tasks.list["TASK_PROCESSING"]
      /\ ProcDone' = <<>>
      /\ HasHnd(tasks, "TASK_IDLE") =>
            /\ HasHnd(tasks', "TASK_IDLE")
            /\ GetHnd(tasks', "TASK_IDLE") = GetHnd(tasks, "TASK_IDLE")
  <2>1. CASE ProcDone = <<>> /\ tasks' = tasks
    BY <2>1 DEF Base, TypeInv, HandlesInv, Todo, ProcDone
  <2>2. CASE /\ ProcDone # <<>> /\ Tail(ProcDone) = <<>>
             /\ tasks' = SetStatus(tasks, Head(ProcDone), "TASK_IDLE")
    BY <2>2, CollectFacts DEF Base
  <2> QED BY <1>2, <2>1, <2>2
<1>4. /\ task.pc = "sem_hal" /\ dec.reset_post = dec.reset_done + 1 /\ dec.hal_reset = 0
      /\ dec.reset_flag
  BY <1>1 DEF Base, ResetInv
<1>5. /\ dec' \in Shared /\ dec'.reset_done = dec.reset_post /\ dec'.hal_reset = 1
      /\ UNCHANGED <<dec.reset_flag, dec.locked, dec.reset_post, dec.parser_reset>>
  <2>1. dec.reset_done + 1 \in Nat /\ dec.hal_reset + 1 \in Nat
    BY <1>0, SharedEdit
  <2>2. dec' \in Shared
    BY <1>0, <1>1, <2>1, SharedEdit
  <2>3. dec'.reset_done = dec.reset_done + 1 /\ dec'.hal_reset = dec.hal_reset + 1
    BY <1>0, <1>1 DEF Shared
  <2>4. UNCHANGED <<dec.reset_flag, dec.locked, dec.reset_post, dec.parser_reset>>
    BY <1>0, <1>1 DEF Shared
  <2> QED BY <1>0, <1>4, <2>2, <2>3, <2>4 DEF Shared
<1>6. TypeInv'
  BY <1>0, <1>1, <1>3, <1>5 DEF Base, TypeInv, stream
<1>7. HandlesInv'
  BY <1>1, <1>3 DEF Base, HandlesInv, Holding
<1>8. TodoInv'
  BY <1>1, <1>3 DEF Base, TodoInv
<1>9. TaskInv'
  BY <1>1 DEF Base, TaskInv, stream, FastMode
<1>10. ResetInv'
  BY <1>1, <1>3, <1>4, <1>5 DEF Base, ResetInv, Quiet, HasHnd
<1>11. PrevInv'
  BY <1>1, <1>3 DEF Base, PrevInv, FastMode
<1> QED BY <1>6, <1>7, <1>8, <1>9, <1>10, <1>11 DEF Base

(* The hal thread tells the parser that it is through, and sleeps. *)
LEMMA BaseSleep ==
    ASSUME Base, HalSleep
    PROVE  Base'
<1> USE DEF pools, lists, calls
<1>1. /\ UNCHANGED <<session, tasks, codec, lists, calls>>
      /\ hal.pc = "check" /\ HalGo("wait") /\ Notify({"dec_all_done"})
  BY DEF HalSleep, HalIdle
<1>2. hal' \in HalType /\ hal'.pc = "wait" /\ hal'.hnd = hal.hnd /\ hal'.info = hal.info
  BY <1>1, HalGoFacts DEF Base, HalPcs
<1>3. /\ dec' \in Shared /\ TaskKept
      /\ UNCHANGED <<dec.reset_flag, dec.locked, dec.reset_post, dec.reset_done,
                     dec.hal_reset, dec.parser_reset>>
  <2>1. {"dec_all_done"} \in SUBSET Reset
    BY DEF Reset
  <2> QED BY <1>1, <2>1, NotifyFacts DEF Base
<1>4. /\ TypeInv' /\ TaskInv' /\ PrevInv' /\ Todo' = Todo /\ ProcDone' = ProcDone
      /\ task'.hnd = task.hnd
      /\ task'.pc \in {task.pc, "reset"} /\ (task'.pc # task.pc => task.pc = "wait")
      /\ task.pc # "wait" => task' = task
  BY <1>1, <1>2, <1>3, OthersKept DEF Base, TypeInv, TaskInv
<1>5. HandlesInv'
  BY <1>1, <1>2, <1>4 DEF Base, HandlesInv, Holding
<1>6. TodoInv'
  BY <1>2, <1>4 DEF Base, TodoInv
<1>7. ResetInv'
  <2>1. Quiet => Quiet'
    BY <1>1, <1>2 DEF Quiet
  <2> QED BY <1>1, <1>2, <1>3, <1>4, <2>1, ResetKept2
<1> QED BY <1>4, <1>5, <1>6, <1>7 DEF Base

(* The hal thread tells the parser that a task is done. *)
LEMMA BaseHalNotify ==
    ASSUME Base, HalNotify
    PROVE  Base'
<1> USE DEF pools, lists, calls
<1>1. /\ UNCHANGED <<session, tasks, codec, lists, calls>>
      /\ hal.pc = "notify" /\ hal' = [pc |-> "check", hnd |-> None, info |-> NoInfo]
  BY DEF HalNotify
<1>2. hal' \in HalType /\ hal'.pc = "check"
  BY <1>1, NewTaskFacts DEF HalType, HalPcs
<1>3. /\ dec' \in Shared /\ TaskKept
      /\ UNCHANGED <<dec.reset_flag, dec.locked, dec.reset_post, dec.reset_done,
                     dec.hal_reset, dec.parser_reset>>
  <2>1. {"task_hnd", "prev_task"} \in SUBSET Reset /\ {"task_hnd"} \in SUBSET Reset
    BY DEF Reset, WaitBits
  <2>2. PICK flag \in SUBSET Reset : Notify(flag)
    BY <2>1 DEF HalNotify
  <2> QED BY <2>2, NotifyFacts DEF Base
<1>4. /\ TypeInv' /\ TaskInv' /\ PrevInv' /\ Todo' = Todo /\ ProcDone' = ProcDone
      /\ task'.hnd = task.hnd
      /\ task'.pc \in {task.pc, "reset"} /\ (task'.pc # task.pc => task.pc = "wait")
      /\ task.pc # "wait" => task' = task
  BY <1>1, <1>2, <1>3, OthersKept DEF Base, TypeInv, TaskInv
<1>5. HandlesInv'
  BY <1>1, <1>2, <1>4 DEF Base, HandlesInv, Holding
<1>6. TodoInv'
  BY <1>2, <1>4 DEF Base, TodoInv
<1>7. ResetInv'
  <2>1. Quiet => Quiet'
    BY <1>1, <1>2 DEF Quiet
  <2> QED BY <1>1, <1>2, <1>3, <1>4, <2>1, ResetKept2
<1> QED BY <1>4, <1>5, <1>6, <1>7 DEF Base

(* Steps of the user, which touch neither the tasks nor the hal thread. *)
LEMMA UserKept ==
    ASSUME Base, TaskKept, UNCHANGED <<session, tasks, codec, hal>>,
           mPackets' \in Seq(Nat), \A k \in 1 .. Len(mPackets') : mPackets'[k] \in 1 .. sent',
           sent' \in Nat, sent <= sent', sent' <= Len(stream), dec' \in Shared,
           user' \in {"idle", "ready", "ready_notify"} \cup
                     {"flag", "notify", "unlock", "sem", "flush"},
           clr' \in {"idle", "join_parser", "join_hal", "done"}, resets' \in Nat
    PROVE  /\ TypeInv' /\ HandlesInv' /\ TodoInv' /\ TaskInv' /\ PrevInv'
           /\ Quiet' = Quiet /\ ProcDone' = ProcDone /\ Todo' = Todo
           /\ task'.pc \in {task.pc, "reset"} /\ (task'.pc # task.pc => task.pc = "wait")
           /\ task.pc # "wait" => task' = task
<1>1. hal' \in HalType
  BY DEF Base, TypeInv, HalType
<1>2. /\ TypeInv' /\ TaskInv' /\ PrevInv' /\ Todo' = Todo /\ ProcDone' = ProcDone
      /\ task'.hnd = task.hnd
      /\ task'.pc \in {task.pc, "reset"} /\ (task'.pc # task.pc => task.pc = "wait")
      /\ task.pc # "wait" => task' = task
  BY <1>1, OthersKept
<1>3. HandlesInv'
  BY <1>2 DEF Base, HandlesInv
<1>4. TodoInv'
  BY <1>2 DEF Base, TodoInv
<1>5. Quiet' = Quiet
  BY DEF Quiet
<1> QED BY <1>2, <1>3, <1>4, <1>5

(* The user is not between the request of a reset and its answer. *)
Outside == {"idle", "ready", "ready_notify", "flag", "flush"}

(* ResetInv, when the user is not about to reset. *)
LEMMA UserResetKept ==
    ASSUME Base, task'.pc \in {task.pc, "reset"}, task'.pc # task.pc => task.pc = "wait",
           task.pc # "wait" => task' = task, hal' = hal, ProcDone' = ProcDone,
           Quiet' = Quiet, clr' = clr,
           user' = user \/ (/\ user \in Outside /\ user' \in Outside
                            /\ user' # "idle" => clr = "idle"),
           UNCHANGED <<dec.reset_flag, dec.locked, dec.reset_post, dec.reset_done,
                       dec.hal_reset, dec.parser_reset>>
    PROVE  ResetInv'
<1>1. \A pc \in {"sem_hal", "post", "exited"} : task'.pc = pc <=> task.pc = pc
  OBVIOUS
<1>2. task'.pc = "post" => task' = task
  OBVIOUS
<1>3. CASE user' = user
  BY <1>1, <1>2, <1>3 DEF Base, ResetInv
<1>4. CASE /\ user \in Outside /\ user' \in Outside
           /\ user' # "idle" => clr = "idle"
  <2>1. ~dec.reset_flag /\ dec.parser_reset = 0 /\ ~dec.locked
    BY <1>4 DEF Base, ResetInv, Outside
  <2> QED BY <1>1, <1>2, <1>4, <2>1 DEF Base, ResetInv, Outside
<1> QED BY <1>3, <1>4

(* A packet is put. *)
LEMMA BasePutPacket ==
    ASSUME Base, PutPacket
    PROVE  Base'
<1> USE DEF pools, lists, calls
<1>1. UNCHANGED <<session, tasks, codec, hal, resets, clr>>
  BY DEF PutPacket
<1>2. /\ mPackets' \in Seq(Nat)
      /\ \A k \in 1 .. Len(mPackets') : mPackets'[k] \in 1 .. sent'
      /\ sent' \in Nat /\ sent <= sent' /\ sent' <= Len(stream) /\ resets' \in Nat
  <2>1. /\ mPackets \in Seq(Nat) /\ sent \in Nat /\ resets' \in Nat
        /\ \A k \in 1 .. Len(mPackets) : mPackets[k] \in 1 .. sent
        /\ Len(stream) \in Nat /\ sent < Len(stream)
        /\ mPackets' = Append(mPackets, sent + 1) /\ sent' = sent + 1
    BY <1>1, SessionFacts DEF Base, TypeInv, TaskInv, PutPacket
  <2>2. \A k \in 1 .. Len(mPackets') : mPackets'[k] \in 1 .. sent \/ mPackets'[k] = sent + 1
    BY <2>1
  <2> QED BY <2>1, <2>2
<1>3. /\ dec' \in Shared /\ TaskKept
      /\ UNCHANGED <<dec.reset_flag, dec.locked, dec.reset_post, dec.reset_done,
                     dec.hal_reset, dec.parser_reset>>
  <2>1. {"dec_pkt_in"} \in SUBSET Reset
    BY DEF Reset, WaitBits
  <2>2. Notify({"dec_pkt_in"})
    BY DEF PutPacket
  <2> QED BY <2>1, <2>2, NotifyFacts DEF Base
<1>4. /\ user' \in {"idle", "ready", "ready_notify"} \cup
                   {"flag", "notify", "unlock", "sem", "flush"}
      /\ clr' = clr /\ clr \in {"idle", "join_parser", "join_hal", "done"}
      /\ user' = user \/ (/\ user \in Outside /\ user' \in Outside
                          /\ user' # "idle" => clr = "idle")
  BY <1>1 DEF PutPacket, Base, TypeInv, ResetInv, Outside
<1>5. /\ TypeInv' /\ HandlesInv' /\ TodoInv' /\ TaskInv' /\ PrevInv'
      /\ Quiet' = Quiet /\ ProcDone' = ProcDone
      /\ task'.pc \in {task.pc, "reset"} /\ (task'.pc # task.pc => task.pc = "wait")
      /\ task.pc # "wait" => task' = task
  BY <1>1, <1>2, <1>3, <1>4, UserKept
<1>6. ResetInv'
  BY <1>1, <1>3, <1>4, <1>5, UserResetKept
<1> QED BY <1>5, <1>6 DEF Base

(* A frame is fetched. *)
LEMMA BaseGetFrame ==
    ASSUME Base, GetFrame
    PROVE  Base'
<1> USE DEF pools, lists, calls
<1>1. UNCHANGED <<session, tasks, codec, hal, mPackets, sent, resets, clr>>
  BY DEF GetFrame
<1>2. /\ mPackets' \in Seq(Nat)
      /\ \A k \in 1 .. Len(mPackets') : mPackets'[k] \in 1 .. sent'
      /\ sent' \in Nat /\ sent <= sent' /\ sent' <= Len(stream) /\ resets' \in Nat
  BY <1>1 DEF Base, TypeInv, TaskInv
<1>3. /\ dec' \in Shared /\ TaskKept
      /\ UNCHANGED <<dec.reset_flag, dec.locked, dec.reset_post, dec.reset_done,
                     dec.hal_reset, dec.parser_reset>>
  <2>1. {"dis_que_full"} \in SUBSET Reset
    BY DEF Reset, WaitBits
  <2>2. Notify({"dis_que_full"})
    BY DEF GetFrame
  <2> QED BY <2>1, <2>2, NotifyFacts DEF Base
<1>4. /\ user' \in {"idle", "ready", "ready_notify"} \cup
                   {"flag", "notify", "unlock", "sem", "flush"}
      /\ clr' = clr /\ clr \in {"idle", "join_parser", "join_hal", "done"}
      /\ user' = user \/ (/\ user \in Outside /\ user' \in Outside
                          /\ user' # "idle" => clr = "idle")
  BY <1>1 DEF GetFrame, Base, TypeInv, ResetInv, Outside
<1>5. /\ TypeInv' /\ HandlesInv' /\ TodoInv' /\ TaskInv' /\ PrevInv'
      /\ Quiet' = Quiet /\ ProcDone' = ProcDone
      /\ task'.pc \in {task.pc, "reset"} /\ (task'.pc # task.pc => task.pc = "wait")
      /\ task.pc # "wait" => task' = task
  BY <1>1, <1>2, <1>3, <1>4, UserKept
<1>6. ResetInv'
  BY <1>1, <1>3, <1>4, <1>5, UserResetKept
<1> QED BY <1>5, <1>6 DEF Base

(* No frame is there. *)
LEMMA BaseGetNothing ==
    ASSUME Base, GetNothing
    PROVE  Base'
<1> USE DEF pools, lists, calls
<1>1. UNCHANGED <<session, tasks, codec, hal, mPackets, sent, resets, clr>>
  BY DEF GetNothing
<1>2. /\ mPackets' \in Seq(Nat)
      /\ \A k \in 1 .. Len(mPackets') : mPackets'[k] \in 1 .. sent'
      /\ sent' \in Nat /\ sent <= sent' /\ sent' <= Len(stream) /\ resets' \in Nat
  BY <1>1 DEF Base, TypeInv, TaskInv
<1>3. /\ dec' \in Shared /\ TaskKept
      /\ UNCHANGED <<dec.reset_flag, dec.locked, dec.reset_post, dec.reset_done,
                     dec.hal_reset, dec.parser_reset>>
  <2>1. {"dec_pkt_in"} \in SUBSET Reset
    BY DEF Reset, WaitBits
  <2>2. Notify({"dec_pkt_in"})
    BY DEF GetNothing
  <2> QED BY <2>1, <2>2, NotifyFacts DEF Base
<1>4. /\ user' \in {"idle", "ready", "ready_notify"} \cup
                   {"flag", "notify", "unlock", "sem", "flush"}
      /\ clr' = clr /\ clr \in {"idle", "join_parser", "join_hal", "done"}
      /\ user' = user \/ (/\ user \in Outside /\ user' \in Outside
                          /\ user' # "idle" => clr = "idle")
  BY <1>1 DEF GetNothing, Base, TypeInv, ResetInv, Outside
<1>5. /\ TypeInv' /\ HandlesInv' /\ TodoInv' /\ TaskInv' /\ PrevInv'
      /\ Quiet' = Quiet /\ ProcDone' = ProcDone
      /\ task'.pc \in {task.pc, "reset"} /\ (task'.pc # task.pc => task.pc = "wait")
      /\ task.pc # "wait" => task' = task
  BY <1>1, <1>2, <1>3, <1>4, UserKept
<1>6. ResetInv'
  BY <1>1, <1>3, <1>4, <1>5, UserResetKept
<1> QED BY <1>5, <1>6 DEF Base

(* An info change is acknowledged. *)
LEMMA BaseSetReady ==
    ASSUME Base, SetReady
    PROVE  Base'
<1> USE DEF pools, lists, calls
<1>1. UNCHANGED <<session, tasks, codec, hal, mPackets, sent, resets, clr>>
  BY DEF SetReady
<1>2. /\ mPackets' \in Seq(Nat)
      /\ \A k \in 1 .. Len(mPackets') : mPackets'[k] \in 1 .. sent'
      /\ sent' \in Nat /\ sent <= sent' /\ sent' <= Len(stream) /\ resets' \in Nat
  BY <1>1 DEF Base, TypeInv, TaskInv
<1>3. /\ dec' \in Shared /\ TaskKept
      /\ UNCHANGED <<dec.reset_flag, dec.locked, dec.reset_post, dec.reset_done,
                     dec.hal_reset, dec.parser_reset>>
  BY DEF SetReady, TaskKept, Base, TypeInv
<1>4. /\ user' \in {"idle", "ready", "ready_notify"} \cup
                   {"flag", "notify", "unlock", "sem", "flush"}
      /\ clr' = clr /\ clr \in {"idle", "join_parser", "join_hal", "done"}
      /\ user' = user \/ (/\ user \in Outside /\ user' \in Outside
                          /\ user' # "idle" => clr = "idle")
  BY <1>1 DEF SetReady, Base, TypeInv, ResetInv, Outside
<1>5. /\ TypeInv' /\ HandlesInv' /\ TodoInv' /\ TaskInv' /\ PrevInv'
      /\ Quiet' = Quiet /\ ProcDone' = ProcDone
      /\ task'.pc \in {task.pc, "reset"} /\ (task'.pc # task.pc => task.pc = "wait")
      /\ task.pc # "wait" => task' = task
  BY <1>1, <1>2, <1>3, <1>4, UserKept
<1>6. ResetInv'
  BY <1>1, <1>3, <1>4, <1>5, UserResetKept
<1> QED BY <1>5, <1>6 DEF Base

(* The parser hears of it. *)
LEMMA BaseNotifyReady ==
    ASSUME Base, NotifyReady
    PROVE  Base'
<1> USE DEF pools, lists, calls
<1>1. UNCHANGED <<session, tasks, codec, hal, mPackets, sent, resets, clr>>
  BY DEF NotifyReady
<1>2. /\ mPackets' \in Seq(Nat)
      /\ \A k \in 1 .. Len(mPackets') : mPackets'[k] \in 1 .. sent'
      /\ sent' \in Nat /\ sent <= sent' /\ sent' <= Len(stream) /\ resets' \in Nat
  BY <1>1 DEF Base, TypeInv, TaskInv
<1>3. /\ dec' \in Shared /\ TaskKept
      /\ UNCHANGED <<dec.reset_flag, dec.locked, dec.reset_post, dec.reset_done,
                     dec.hal_reset, dec.parser_reset>>
  <2>1. {"info_change", "dec_pic_match"} \in SUBSET Reset
    BY DEF Reset, WaitBits
  <2>2. Notify({"info_change", "dec_pic_match"})
    BY DEF NotifyReady
  <2> QED BY <2>1, <2>2, NotifyFacts DEF Base
<1>4. /\ user' \in {"idle", "ready", "ready_notify"} \cup
                   {"flag", "notify", "unlock", "sem", "flush"}
      /\ clr' = clr /\ clr \in {"idle", "join_parser", "join_hal", "done"}
      /\ user' = user \/ (/\ user \in Outside /\ user' \in Outside
                          /\ user' # "idle" => clr = "idle")
  BY <1>1 DEF NotifyReady, Base, TypeInv, ResetInv, Outside
<1>5. /\ TypeInv' /\ HandlesInv' /\ TodoInv' /\ TaskInv' /\ PrevInv'
      /\ Quiet' = Quiet /\ ProcDone' = ProcDone
      /\ task'.pc \in {task.pc, "reset"} /\ (task'.pc # task.pc => task.pc = "wait")
      /\ task.pc # "wait" => task' = task
  BY <1>1, <1>2, <1>3, <1>4, UserKept
<1>6. ResetInv'
  BY <1>1, <1>3, <1>4, <1>5, UserResetKept
<1> QED BY <1>5, <1>6 DEF Base

(* A reset drops the packets. *)
LEMMA BaseResetStart ==
    ASSUME Base, ResetStart
    PROVE  Base'
<1> USE DEF pools, lists, calls
<1>1. /\ UNCHANGED <<session, tasks, codec, hal, sent, clr>>
      /\ mPackets' = <<>> /\ resets' = resets + 1
  BY DEF ResetStart
<1>2. /\ mPackets' \in Seq(Nat)
      /\ \A k \in 1 .. Len(mPackets') : mPackets'[k] \in 1 .. sent'
      /\ sent' \in Nat /\ sent <= sent' /\ sent' <= Len(stream) /\ resets' \in Nat
  BY <1>1 DEF Base, TypeInv, TaskInv
<1>3. /\ dec' \in Shared /\ TaskKept
      /\ UNCHANGED <<dec.reset_flag, dec.locked, dec.reset_post, dec.reset_done,
                     dec.hal_reset, dec.parser_reset>>
  BY DEF ResetStart, TaskKept, Base, TypeInv
<1>4. /\ user' \in {"idle", "ready", "ready_notify"} \cup
                   {"flag", "notify", "unlock", "sem", "flush"}
      /\ clr' = clr /\ clr \in {"idle", "join_parser", "join_hal", "done"}
      /\ user' = user \/ (/\ user \in Outside /\ user' \in Outside
                          /\ user' # "idle" => clr = "idle")
  BY <1>1 DEF ResetStart, Base, TypeInv, ResetInv, Outside
<1>5. /\ TypeInv' /\ HandlesInv' /\ TodoInv' /\ TaskInv' /\ PrevInv'
      /\ Quiet' = Quiet /\ ProcDone' = ProcDone
      /\ task'.pc \in {task.pc, "reset"} /\ (task'.pc # task.pc => task.pc = "wait")
      /\ task.pc # "wait" => task' = task
  BY <1>1, <1>2, <1>3, <1>4, UserKept
<1>6. ResetInv'
  BY <1>1, <1>3, <1>4, <1>5, UserResetKept
<1> QED BY <1>5, <1>6 DEF Base

(* A reset drops the frames. *)
LEMMA BaseResetFlush ==
    ASSUME Base, ResetFlush
    PROVE  Base'
<1> USE DEF pools, lists, calls
<1>1. UNCHANGED <<session, tasks, codec, hal, mPackets, sent, resets, clr>>
  BY DEF ResetFlush
<1>2. /\ mPackets' \in Seq(Nat)
      /\ \A k \in 1 .. Len(mPackets') : mPackets'[k] \in 1 .. sent'
      /\ sent' \in Nat /\ sent <= sent' /\ sent' <= Len(stream) /\ resets' \in Nat
  BY <1>1 DEF Base, TypeInv, TaskInv
<1>3. /\ dec' \in Shared /\ TaskKept
      /\ UNCHANGED <<dec.reset_flag, dec.locked, dec.reset_post, dec.reset_done,
                     dec.hal_reset, dec.parser_reset>>
  BY DEF ResetFlush, TaskKept, Base, TypeInv
<1>4. /\ user' \in {"idle", "ready", "ready_notify"} \cup
                   {"flag", "notify", "unlock", "sem", "flush"}
      /\ clr' = clr /\ clr \in {"idle", "join_parser", "join_hal", "done"}
      /\ user' = user \/ (/\ user \in Outside /\ user' \in Outside
                          /\ user' # "idle" => clr = "idle")
  BY <1>1 DEF ResetFlush, Base, TypeInv, ResetInv, Outside
<1>5. /\ TypeInv' /\ HandlesInv' /\ TodoInv' /\ TaskInv' /\ PrevInv'
      /\ Quiet' = Quiet /\ ProcDone' = ProcDone
      /\ task'.pc \in {task.pc, "reset"} /\ (task'.pc # task.pc => task.pc = "wait")
      /\ task.pc # "wait" => task' = task
  BY <1>1, <1>2, <1>3, <1>4, UserKept
<1>6. ResetInv'
  BY <1>1, <1>3, <1>4, <1>5, UserResetKept
<1> QED BY <1>5, <1>6 DEF Base

(* A reset is requested. *)
LEMMA BaseResetFlag ==
    ASSUME Base, ResetFlag
    PROVE  Base'
<1> USE DEF pools, lists, calls
<1>0. task \in DecTasks /\ dec \in Shared /\ session \in Sessions
  BY DEF Base, TypeInv
<1>1. UNCHANGED <<session, tasks, codec, hal, mPackets, sent, resets>>
  BY DEF ResetFlag
<1>2. /\ mPackets' \in Seq(Nat)
      /\ \A k \in 1 .. Len(mPackets') : mPackets'[k] \in 1 .. sent'
      /\ sent' \in Nat /\ sent <= sent' /\ sent' <= Len(stream) /\ resets' \in Nat
  BY <1>1 DEF Base, TypeInv, TaskInv
<1>3. /\ dec' \in Shared /\ TaskKept
      /\ dec'.reset_flag /\ dec'.locked
      /\ UNCHANGED <<dec.reset_post, dec.reset_done, dec.hal_reset, dec.parser_reset>>
  <2>1. TRUE \in BOOLEAN
    BY <1>0, SharedEdit DEF ResetFlag, Base, ResetInv
  <2>2. dec' \in Shared /\ task' = task
    BY <1>0, <2>1, SharedEdit DEF ResetFlag
  <2> QED BY <1>0, <2>2 DEF Shared, ResetFlag, TaskKept
<1>4. /\ user' \in {"idle", "ready", "ready_notify"} \cup
                   {"flag", "notify", "unlock", "sem", "flush"}
      /\ clr' \in {"idle", "join_parser", "join_hal", "done"}
  BY <1>1 DEF ResetFlag, Base, TypeInv
<1>5. /\ TypeInv' /\ HandlesInv' /\ TodoInv' /\ TaskInv' /\ PrevInv'
      /\ Quiet' = Quiet /\ ProcDone' = ProcDone
      /\ task'.pc \in {task.pc, "reset"} /\ (task'.pc # task.pc => task.pc = "wait")
      /\ task.pc # "wait" => task' = task
  BY <1>1, <1>2, <1>3, <1>4, UserKept
<1>6. ResetInv'
  <2>1. \A pc \in {"sem_hal", "post", "exited"} : task'.pc = pc <=> task.pc = pc
    BY <1>5
  <2>2. task'.pc = "post" => task' = task
    BY <1>5
  <2> QED BY <1>1, <1>3, <1>5, <2>1, <2>2 DEF Base, ResetInv, ResetFlag
<1> QED BY <1>5, <1>6 DEF Base

(* The parser is told. *)
LEMMA BaseResetNotify ==
    ASSUME Base, ResetNotify
    PROVE  Base'
<1> USE DEF pools, lists, calls
<1>0. task \in DecTasks /\ dec \in Shared /\ session \in Sessions
  BY DEF Base, TypeInv
<1>1. UNCHANGED <<session, tasks, codec, hal, mPackets, sent, resets>>
  BY DEF ResetNotify
<1>2. /\ mPackets' \in Seq(Nat)
      /\ \A k \in 1 .. Len(mPackets') : mPackets'[k] \in 1 .. sent'
      /\ sent' \in Nat /\ sent <= sent' /\ sent' <= Len(stream) /\ resets' \in Nat
  BY <1>1 DEF Base, TypeInv, TaskInv
<1>3. /\ dec' \in Shared /\ TaskKept
      /\ UNCHANGED <<dec.reset_flag, dec.locked, dec.reset_post, dec.reset_done,
                     dec.hal_reset, dec.parser_reset>>
  <2>1. Notify(Reset)
    BY DEF ResetNotify
  <2> QED BY <2>1, NotifyFacts DEF Base
<1>4. /\ user' \in {"idle", "ready", "ready_notify"} \cup
                   {"flag", "notify", "unlock", "sem", "flush"}
      /\ clr' \in {"idle", "join_parser", "join_hal", "done"}
  BY <1>1 DEF ResetNotify, Base, TypeInv
<1>5. /\ TypeInv' /\ HandlesInv' /\ TodoInv' /\ TaskInv' /\ PrevInv'
      /\ Quiet' = Quiet /\ ProcDone' = ProcDone
      /\ task'.pc \in {task.pc, "reset"} /\ (task'.pc # task.pc => task.pc = "wait")
      /\ task.pc # "wait" => task' = task
  BY <1>1, <1>2, <1>3, <1>4, UserKept
<1>6. ResetInv'
  <2>1. \A pc \in {"sem_hal", "post", "exited"} : task'.pc = pc <=> task.pc = pc
    BY <1>5
  <2>2. task'.pc = "post" => task' = task
    BY <1>5
  <2> QED BY <1>1, <1>3, <1>5, <2>1, <2>2 DEF Base, ResetInv, ResetNotify
<1> QED BY <1>5, <1>6 DEF Base

(* The lock of a reset is released. *)
LEMMA BaseResetUnlock ==
    ASSUME Base, ResetUnlock
    PROVE  Base'
<1> USE DEF pools, lists, calls
<1>0. task \in DecTasks /\ dec \in Shared /\ session \in Sessions
  BY DEF Base, TypeInv
<1>1. UNCHANGED <<session, tasks, codec, hal, mPackets, sent, resets>>
  BY DEF ResetUnlock
<1>2. /\ mPackets' \in Seq(Nat)
      /\ \A k \in 1 .. Len(mPackets') : mPackets'[k] \in 1 .. sent'
      /\ sent' \in Nat /\ sent <= sent' /\ sent' <= Len(stream) /\ resets' \in Nat
  BY <1>1 DEF Base, TypeInv, TaskInv
<1>3. /\ dec' \in Shared /\ TaskKept
      /\ ~dec'.locked
      /\ UNCHANGED <<dec.reset_flag, dec.reset_post, dec.reset_done, dec.hal_reset,
                     dec.parser_reset>>
  <2>1. FALSE \in BOOLEAN
    BY <1>0, SharedEdit DEF ResetUnlock, Base, ResetInv
  <2>2. dec' \in Shared /\ task' = task
    BY <1>0, <2>1, SharedEdit DEF ResetUnlock
  <2> QED BY <1>0, <2>2 DEF Shared, ResetUnlock, TaskKept
<1>4. /\ user' \in {"idle", "ready", "ready_notify"} \cup
                   {"flag", "notify", "unlock", "sem", "flush"}
      /\ clr' \in {"idle", "join_parser", "join_hal", "done"}
  BY <1>1 DEF ResetUnlock, Base, TypeInv
<1>5. /\ TypeInv' /\ HandlesInv' /\ TodoInv' /\ TaskInv' /\ PrevInv'
      /\ Quiet' = Quiet /\ ProcDone' = ProcDone
      /\ task'.pc \in {task.pc, "reset"} /\ (task'.pc # task.pc => task.pc = "wait")
      /\ task.pc # "wait" => task' = task
  BY <1>1, <1>2, <1>3, <1>4, UserKept
<1>6. ResetInv'
  <2>1. \A pc \in {"sem_hal", "post", "exited"} : task'.pc = pc <=> task.pc = pc
    BY <1>5
  <2>2. task'.pc = "post" => task' = task
    BY <1>5
  <2> QED BY <1>1, <1>3, <1>5, <2>1, <2>2 DEF Base, ResetInv, ResetUnlock
<1> QED BY <1>5, <1>6 DEF Base

(* The parser has answered. *)
LEMMA BaseResetWait ==
    ASSUME Base, ResetWait
    PROVE  Base'
<1> USE DEF pools, lists, calls
<1>0. task \in DecTasks /\ dec \in Shared /\ session \in Sessions
  BY DEF Base, TypeInv
<1>1. UNCHANGED <<session, tasks, codec, hal, mPackets, sent, resets>>
  BY DEF ResetWait
<1>2. /\ mPackets' \in Seq(Nat)
      /\ \A k \in 1 .. Len(mPackets') : mPackets'[k] \in 1 .. sent'
      /\ sent' \in Nat /\ sent <= sent' /\ sent' <= Len(stream) /\ resets' \in Nat
  BY <1>1 DEF Base, TypeInv, TaskInv
<1>3. /\ dec' \in Shared /\ TaskKept
      /\ dec'.parser_reset = dec.parser_reset - 1
      /\ UNCHANGED <<dec.reset_flag, dec.locked, dec.reset_post, dec.reset_done, dec.hal_reset>>
  <2>1. dec.parser_reset - 1 \in Nat
    BY <1>0, SharedEdit DEF ResetWait, Base, ResetInv
  <2>2. dec' \in Shared /\ task' = task
    BY <1>0, <2>1, SharedEdit DEF ResetWait
  <2> QED BY <1>0, <2>2 DEF Shared, ResetWait, TaskKept
<1>4. /\ user' \in {"idle", "ready", "ready_notify"} \cup
                   {"flag", "notify", "unlock", "sem", "flush"}
      /\ clr' \in {"idle", "join_parser", "join_hal", "done"}
  BY <1>1 DEF ResetWait, Base, TypeInv
<1>5. /\ TypeInv' /\ HandlesInv' /\ TodoInv' /\ TaskInv' /\ PrevInv'
      /\ Quiet' = Quiet /\ ProcDone' = ProcDone
      /\ task'.pc \in {task.pc, "reset"} /\ (task'.pc # task.pc => task.pc = "wait")
      /\ task.pc # "wait" => task' = task
  BY <1>1, <1>2, <1>3, <1>4, UserKept
<1>6. ResetInv'
  <2>1. \A pc \in {"sem_hal", "post", "exited"} : task'.pc = pc <=> task.pc = pc
    BY <1>5
  <2>2. task'.pc = "post" => task' = task
    BY <1>5
  <2> QED BY <1>1, <1>3, <1>5, <2>1, <2>2 DEF Base, ResetInv, ResetWait
<1> QED BY <1>5, <1>6 DEF Base

(* The parser is stopped. *)
LEMMA BaseClearStart ==
    ASSUME Base, ClearStart
    PROVE  Base'
<1> USE DEF pools, lists, calls
<1>0. task \in DecTasks /\ dec \in Shared /\ session \in Sessions
  BY DEF Base, TypeInv
<1>1. UNCHANGED <<session, tasks, codec, hal, mPackets, sent, resets>>
  BY DEF ClearStart
<1>2. /\ mPackets' \in Seq(Nat)
      /\ \A k \in 1 .. Len(mPackets') : mPackets'[k] \in 1 .. sent'
      /\ sent' \in Nat /\ sent <= sent' /\ sent' <= Len(stream) /\ resets' \in Nat
  BY <1>1 DEF Base, TypeInv, TaskInv
<1>3. dec' = dec /\ dec' \in Shared /\ TaskKept
  BY <1>0 DEF ClearStart, TaskKept
<1>4. /\ user' \in {"idle", "ready", "ready_notify"} \cup
                   {"flag", "notify", "unlock", "sem", "flush"}
      /\ clr' \in {"idle", "join_parser", "join_hal", "done"}
  BY <1>1 DEF ClearStart, Base, TypeInv
<1>5. /\ TypeInv' /\ HandlesInv' /\ TodoInv' /\ TaskInv' /\ PrevInv'
      /\ Quiet' = Quiet /\ ProcDone' = ProcDone
      /\ task'.pc \in {task.pc, "reset"} /\ (task'.pc # task.pc => task.pc = "wait")
      /\ task.pc # "wait" => task' = task
  BY <1>1, <1>2, <1>3, <1>4, UserKept
<1>6. ResetInv'
  <2>1. \A pc \in {"sem_hal", "post", "exited"} : task'.pc = pc <=> task.pc = pc
    BY <1>5
  <2>2. task'.pc = "post" => task' = task
    BY <1>5
  <2> QED BY <1>1, <1>3, <1>5, <2>1, <2>2 DEF Base, ResetInv, ClearStart
<1> QED BY <1>5, <1>6 DEF Base

(* The hal thread has ended. *)
LEMMA BaseClearDone ==
    ASSUME Base, ClearDone
    PROVE  Base'
<1> USE DEF pools, lists, calls
<1>0. task \in DecTasks /\ dec \in Shared /\ session \in Sessions
  BY DEF Base, TypeInv
<1>1. UNCHANGED <<session, tasks, codec, hal, mPackets, sent, resets>>
  BY DEF ClearDone
<1>2. /\ mPackets' \in Seq(Nat)
      /\ \A k \in 1 .. Len(mPackets') : mPackets'[k] \in 1 .. sent'
      /\ sent' \in Nat /\ sent <= sent' /\ sent' <= Len(stream) /\ resets' \in Nat
  BY <1>1 DEF Base, TypeInv, TaskInv
<1>3. dec' = dec /\ dec' \in Shared /\ TaskKept
  BY <1>0 DEF ClearDone, TaskKept
<1>4. /\ user' \in {"idle", "ready", "ready_notify"} \cup
                   {"flag", "notify", "unlock", "sem", "flush"}
      /\ clr' \in {"idle", "join_parser", "join_hal", "done"}
  BY <1>1 DEF ClearDone, Base, TypeInv
<1>5. /\ TypeInv' /\ HandlesInv' /\ TodoInv' /\ TaskInv' /\ PrevInv'
      /\ Quiet' = Quiet /\ ProcDone' = ProcDone
      /\ task'.pc \in {task.pc, "reset"} /\ (task'.pc # task.pc => task.pc = "wait")
      /\ task.pc # "wait" => task' = task
  BY <1>1, <1>2, <1>3, <1>4, UserKept
<1>6. ResetInv'
  <2>1. \A pc \in {"sem_hal", "post", "exited"} : task'.pc = pc <=> task.pc = pc
    BY <1>5
  <2>2. task'.pc = "post" => task' = task
    BY <1>5
  <2> QED BY <1>1, <1>3, <1>5, <2>1, <2>2 DEF Base, ResetInv, ClearDone
<1> QED BY <1>5, <1>6 DEF Base

(* The hal thread is stopped. *)
LEMMA BaseStopHal ==
    ASSUME Base, ClearStopHal
    PROVE  Base'
<1> USE DEF pools, lists, calls
<1>0. task \in DecTasks /\ dec \in Shared /\ session \in Sessions
  BY DEF Base, TypeInv
<1>1. /\ UNCHANGED <<session, tasks, task, codec, dec, mPackets, sent, resets, user>>
      /\ clr = "join_parser" /\ clr' = "join_hal" /\ task.pc = "exited"
  BY DEF ClearStopHal
<1>2. HalKept /\ hal' \in HalType
  BY SignalFacts DEF Base, ClearStopHal, HalType
<1>3. /\ hal'.pc \in Holding => hal' = hal
      /\ hal'.pc \in {"hw", "done", "clear", "push", "exited"} => hal' = hal
  BY <1>2 DEF HalKept, Base, TypeInv, Holding
<1>4. /\ mPackets' \in Seq(Nat)
      /\ \A k \in 1 .. Len(mPackets') : mPackets'[k] \in 1 .. sent'
      /\ sent' \in Nat /\ sent <= sent' /\ sent' <= Len(stream) /\ resets' \in Nat
      /\ user' \in {"idle", "ready", "ready_notify"} \cup
                    {"flag", "notify", "unlock", "sem", "flush"}
      /\ clr' \in {"idle", "join_parser", "join_hal", "done"} /\ TaskKept
  BY <1>1 DEF Base, TypeInv, TaskInv, TaskKept
<1>5. TypeInv' /\ TaskInv' /\ PrevInv' /\ Todo' = Todo /\ ProcDone' = ProcDone
  BY <1>0, <1>1, <1>2, <1>4, OthersKept
<1>6. HandlesInv'
  BY <1>1, <1>3 DEF Base, HandlesInv
<1>7. TodoInv'
  BY <1>3, <1>5 DEF Base, TodoInv, Holding
<1>8. ResetInv'
  BY <1>1, <1>3 DEF Base, ResetInv
<1> QED BY <1>5, <1>6, <1>7, <1>8 DEF Base

(* Nothing changes. *)
LEMMA BaseStutter ==
    ASSUME Base, UNCHANGED vars
    PROVE  Base'
<1>1. UNCHANGED <<session, slots, pslots, tasks, task, codec, hal, dec, mPackets, mFrames,
                  user, clr, sent, resets, got>>
  BY DEF vars, pools, lists, calls
<1>2. Todo' = Todo /\ ProcDone' = ProcDone
  BY <1>1 DEF Todo, ProcDone
<1>3. TypeInv' /\ HandlesInv'
  BY <1>1 DEF Base, TypeInv, HandlesInv, stream
<1>4. TodoInv' /\ TaskInv'
  BY <1>1, <1>2 DEF Base, TodoInv, TaskInv, stream, FastMode
<1>5. ResetInv' /\ PrevInv'
  BY <1>1, <1>2 DEF Base, ResetInv, PrevInv, Quiet, FastMode
<1> QED BY <1>3, <1>4, <1>5 DEF Base

(* The tasks, the threads and the calls stay in order. *)
LEMMA BaseStep ==
    ASSUME Base, Room, [Next]_vars
    PROVE  Base'
<1>1. CASE UNCHANGED vars
  BY <1>1, BaseStutter
<1>2. CASE Parser
  BY <1>2, BaseCheck, BaseReset, BaseDrop, BaseResetDone, BaseGetHnd, BaseGetPacket,
     BaseCopy, BaseWaitPrev, BaseWaitDisplay, BaseWaitSlot, BaseParse, BaseDropPacket,
     BaseInfoChange, BaseWaitReady, BaseStart, BaseExit DEF Parser
<1>3. CASE HalThread
  BY <1>3, BaseTake, BaseHalReset, BaseSleep, BaseHalChange, BaseHalEos, BaseSetIdle,
     BaseHwDone, BaseTaskDone, BaseHalClear, BaseHalPush, BaseHalNotify, BaseHalExit
     DEF HalThread
<1>4. CASE PutPacket \/ GetFrame \/ GetNothing \/ SetReady \/ NotifyReady
           \/ ResetStart \/ ResetSteps
  BY <1>4, BasePutPacket, BaseGetFrame, BaseGetNothing, BaseSetReady, BaseNotifyReady,
     BaseResetStart, BaseResetFlag, BaseResetNotify, BaseResetUnlock, BaseResetWait,
     BaseResetFlush DEF ResetSteps
<1>5. CASE ClearStart \/ ClearStopHal \/ ClearDone \/ Finished
  BY <1>5, BaseClearStart, BaseStopHal, BaseClearDone, BaseStutter DEF Finished
<1> QED BY <1>1, <1>2, <1>3, <1>4, <1>5 DEF Next

(* The first state. *)
LEMMA BaseInit ==
    ASSUME Init
    PROVE  Base
<1>1. /\ session \in Sessions /\ Len(stream) \in Nat /\ TaskCount \in Nat
  BY SessionFacts, CountAssumption DEF Init
<1>2. /\ tasks \in GroupsOf(TaskCount, TaskInfos) /\ LinkedOnce(tasks)
      /\ tasks.list["TASK_PROCESSING"] = <<>> /\ tasks.list["TASK_PROC_DONE"] = <<>>
      /\ ToSet(tasks.list["TASK_IDLE"]) = Hnds
  <2>1. /\ tasks = GroupInit(TaskCount, NoInfo) /\ NoInfo \in TaskInfos
    BY NewTaskFacts DEF Init
  <2>2. tasks.list["TASK_IDLE"] = [i \in 1 .. TaskCount |-> i]
    BY <2>1 DEF GroupInit, TaskStatuses
  <2>3. ToSet(tasks.list["TASK_IDLE"]) = Hnds
    BY <1>1, <2>2 DEF ToSet, Hnds
  <2> QED BY <1>1, <2>1, <2>3, GroupInitFacts
<1>3. /\ task \in DecTasks /\ task.pc = "check" /\ task.hnd = None
      /\ task.wait = {} /\ task.info = NoInfo
      /\ task.prev_rdy /\ ~task.curr_rdy /\ ~task.copy_rdy
      /\ ~task.parsed_rdy /\ ~task.gen_rdy /\ ~NoInfo.valid /\ ~NoInfo.change
  BY NewTaskFacts DEF Init, ParserPcs
<1>4. /\ hal \in HalType /\ hal.pc = "check"
  BY NewTaskFacts DEF Init, HalType, HalPcs
<1>5. /\ dec \in Shared /\ ~dec.reset_flag /\ ~dec.locked
      /\ dec.reset_post = 0 /\ dec.reset_done = 0 /\ dec.hal_reset = 0
      /\ dec.parser_reset = 0
  BY DEF Init, Shared
<1>6. /\ codec \in [ref0 : FrameSlots \cup {NoSlot}, found_i : BOOLEAN]
      /\ codec.ref0 = NoSlot /\ ~codec.found_i
  BY DEF Init
<1>7. /\ mPackets = <<>> /\ user = "idle" /\ clr = "idle" /\ sent = 0 /\ resets = 0
  BY DEF Init
<1>8. Todo = <<>> /\ Len(Todo) = 0 /\ ProcDone = <<>>
  BY <1>2 DEF Todo, ProcDone
<1>9. TypeInv
  BY <1>1, <1>2, <1>3, <1>4, <1>5, <1>6, <1>7 DEF TypeInv, HalType
<1>10. HandlesInv
  <2>1. AllLinked(tasks)
    BY <1>2 DEF AllLinked, TaskStatuses
  <2> QED BY <1>2, <1>3, <1>4, <2>1 DEF HandlesInv, Holding
<1>11. TodoInv
  BY <1>4, <1>8 DEF TodoInv
<1>12. TaskInv
  BY <1>3, <1>6, <1>7 DEF TaskInv, AtWork
<1>13. ResetInv
  BY <1>3, <1>4, <1>5, <1>7 DEF ResetInv
<1>14. PrevInv
  BY <1>3, <1>8 DEF PrevInv
<1> QED BY <1>9, <1>10, <1>11, <1>12, <1>13, <1>14 DEF Base

(* The property that ResetInv is there for. *)
LEMMA BaseQuiesced ==
    ASSUME Base
    PROVE  ResetQuiesced
BY DEF Base, ResetInv, ResetQuiesced, Quiet

-----------------------------------------------------------------------------
(* Drained is such a fold. *)
LEMMA DrainedFold ==
    ASSUME NEW p
    PROVE  Drained(p) = ShowAll(p, Displayed(p))
BY DEF Drained, ShowAll, Show

(* What is shown: the queue up to the first slot that is not ready. *)
LEMMA DisplayedFacts ==
    ASSUME NEW p, NEW S, NEW D, D \in Seq(S), D = DisplayQueue(p)
    PROVE  /\ Displayed(p) \in Seq(S) /\ Len(Displayed(p)) \in 0 .. Len(D)
           /\ \A k \in 1 .. Len(Displayed(p)) :
                 k \in 1 .. Len(D) /\ Displayed(p)[k] = D[k] /\ D[k] \notin p.not_ready
<1> DEFINE I == {i \in 1 .. Len(D) : D[i] \in p.not_ready}
           m == ReadySlots(p)
<1>1. m = IF I # {} THEN Min(I) ELSE 0
  BY DEF ReadySlots, SelectInSeq
<1>2. Len(D) \in Nat
  OBVIOUS
<1>3. CASE I = {}
  <2>1. Displayed(p) = D
    BY <1>1, <1>3 DEF Displayed
  <2> QED BY <1>2, <1>3, <2>1
<1>4. CASE I # {}
  <2>1. m \in I /\ \A k \in I : m <= k
    <3> HIDE DEF m
    <3>1. I \subseteq Nat
      OBVIOUS
    <3> HIDE DEF I
    <3>2. \E x \in I : \A k \in I : x <= k
      BY <1>4, <3>1, NatMin
    <3> QED BY <1>1, <1>4, <3>2 DEF Min
  <2>2. m \in 1 .. Len(D) /\ \A k \in 1 .. m - 1 : D[k] \notin p.not_ready
    <3>1. \A k \in 1 .. Len(D) : D[k] \in p.not_ready => m <= k
      BY <2>1
    <3>2. m \in 1 .. Len(D)
      BY <2>1
    <3> HIDE DEF m, I
    <3> QED BY <1>2, <3>1, <3>2
  <2>3. Displayed(p) = SubSeq(D, 1, m - 1)
    BY <2>2 DEF Displayed
  <2> HIDE DEF m, I
  <2>4. m - 1 \in 0 .. Len(D)
    BY <1>2, <2>2
  <2>5. /\ SubSeq(D, 1, m - 1) \in Seq(S) /\ Len(SubSeq(D, 1, m - 1)) = m - 1
        /\ \A k \in 1 .. m - 1 : SubSeq(D, 1, m - 1)[k] = D[k]
    BY <1>2, <2>4
  <2>6. \A k \in 1 .. m - 1 : k \in 1 .. Len(D)
    BY <1>2, <2>4
  <2> QED BY <2>2, <2>3, <2>4, <2>5, <2>6
<1> QED BY <1>3, <1>4

-----------------------------------------------------------------------------
(* The slots of the tasks U. *)
InputsOf(U) ==
    [k \in 1 .. Len(U) |-> IF IsDecode(U[k]) THEN {U[k].input} ELSE {}]
OutputsOf(U) ==
    [k \in 1 .. Len(U) |-> IF IsDecode(U[k]) THEN {U[k].output} ELSE {}]
RefersOf(U) ==
    [k \in 1 .. Len(U) |-> IF IsDecode(U[k]) THEN U[k].refer ELSE {}]

(* A task is added. *)
LEMMA SlotsAppended ==
    ASSUME NEW U \in Seq(TaskInfos), NEW info \in TaskInfos
    PROVE  /\ InputsOf(Append(U, info)) =
                 Append(InputsOf(U), IF IsDecode(info) THEN {info.input} ELSE {})
           /\ OutputsOf(Append(U, info)) =
                 Append(OutputsOf(U), IF IsDecode(info) THEN {info.output} ELSE {})
           /\ RefersOf(Append(U, info)) =
                 Append(RefersOf(U), IF IsDecode(info) THEN info.refer ELSE {})
<1> DEFINE V == Append(U, info)
           in == IF IsDecode(info) THEN {info.input} ELSE {}
           out == IF IsDecode(info) THEN {info.output} ELSE {}
           ref == IF IsDecode(info) THEN info.refer ELSE {}
<1>1. /\ Len(U) \in Nat /\ Len(V) = Len(U) + 1 /\ V[Len(U) + 1] = info
      /\ \A k \in 1 .. Len(U) : V[k] = U[k]
      /\ \A k \in 1 .. Len(V) : k \in 1 .. Len(U) \/ k = Len(U) + 1
  BY Appended
<1> HIDE DEF V
<1>2. ASSUME NEW M, NEW N, NEW e, Len(M) = Len(U), M = [k \in 1 .. Len(U) |-> M[k]],
             N = [k \in 1 .. Len(V) |-> N[k]],
             N[Len(U) + 1] = e, \A k \in 1 .. Len(U) : N[k] = M[k]
      PROVE  N = Append(M, e)
  <2>1. Append(M, e) = [k \in 1 .. Len(U) + 1 |-> IF k = Len(U) + 1 THEN e ELSE M[k]]
    BY <1>1, <1>2
  <2>2. \A k \in 1 .. Len(V) : N[k] = IF k = Len(U) + 1 THEN e ELSE M[k]
    BY <1>1, <1>2
  <2> QED BY <1>1, <1>2, <2>1, <2>2
<1>3. InputsOf(V) = Append(InputsOf(U), in)
  <2>1. InputsOf(U) = [k \in 1 .. Len(U) |-> InputsOf(U)[k]] /\ Len(InputsOf(U)) = Len(U)
    BY <1>1 DEF InputsOf
  <2>2. InputsOf(V) = [k \in 1 .. Len(V) |-> InputsOf(V)[k]]
    BY DEF InputsOf
  <2>3. Len(U) + 1 \in 1 .. Len(V) /\ \A k \in 1 .. Len(U) : k \in 1 .. Len(V)
    BY <1>1
  <2>4. InputsOf(V)[Len(U) + 1] = in
    BY <1>1, <2>3, Zenon DEF InputsOf
  <2>5. \A k \in 1 .. Len(U) : InputsOf(V)[k] = InputsOf(U)[k]
    BY <1>1, <2>3, Zenon DEF InputsOf
  <2> HIDE DEF in
  <2> QED BY <1>2, <2>1, <2>2, <2>4, <2>5
<1>4. OutputsOf(V) = Append(OutputsOf(U), out)
  <2>1. OutputsOf(U) = [k \in 1 .. Len(U) |-> OutputsOf(U)[k]] /\ Len(OutputsOf(U)) = Len(U)
    BY <1>1 DEF OutputsOf
  <2>2. OutputsOf(V) = [k \in 1 .. Len(V) |-> OutputsOf(V)[k]]
    BY DEF OutputsOf
  <2>3. Len(U) + 1 \in 1 .. Len(V) /\ \A k \in 1 .. Len(U) : k \in 1 .. Len(V)
    BY <1>1
  <2>4. OutputsOf(V)[Len(U) + 1] = out
    BY <1>1, <2>3, Zenon DEF OutputsOf
  <2>5. \A k \in 1 .. Len(U) : OutputsOf(V)[k] = OutputsOf(U)[k]
    BY <1>1, <2>3, Zenon DEF OutputsOf
  <2> HIDE DEF out
  <2> QED BY <1>2, <2>1, <2>2, <2>4, <2>5
<1>5. RefersOf(V) = Append(RefersOf(U), ref)
  <2>1. /\ RefersOf(U) = [k \in 1 .. Len(U) |-> RefersOf(U)[k]] /\ Len(RefersOf(U)) = Len(U)
        /\ RefersOf(V) = [k \in 1 .. Len(V) |-> RefersOf(V)[k]]
        /\ RefersOf(V)[Len(U) + 1] = ref
        /\ \A k \in 1 .. Len(U) : RefersOf(V)[k] = RefersOf(U)[k]
    BY <1>1 DEF RefersOf
  <2> HIDE DEF ref
  <2> QED BY <1>2, <2>1
<1> QED BY <1>3, <1>4, <1>5 DEF V

(* The first task is through. *)
LEMMA SlotsShortened ==
    ASSUME NEW U \in Seq(TaskInfos), U # <<>>
    PROVE  /\ InputsOf(Tail(U)) = Tail(InputsOf(U)) /\ InputsOf(U) # <<>>
           /\ OutputsOf(Tail(U)) = Tail(OutputsOf(U)) /\ OutputsOf(U) # <<>>
           /\ RefersOf(Tail(U)) = Tail(RefersOf(U)) /\ RefersOf(U) # <<>>
           /\ InputsOf(U)[1] = (IF IsDecode(U[1]) THEN {U[1].input} ELSE {})
           /\ OutputsOf(U)[1] = (IF IsDecode(U[1]) THEN {U[1].output} ELSE {})
           /\ RefersOf(U)[1] = (IF IsDecode(U[1]) THEN U[1].refer ELSE {})
<1> DEFINE V == Tail(U)
<1>1. /\ Len(U) \in Nat /\ Len(V) = Len(U) - 1 /\ 1 \in 1 .. Len(U)
      /\ \A k \in 1 .. Len(V) : V[k] = U[k + 1] /\ k + 1 \in 1 .. Len(U)
  BY Shortened
<1> HIDE DEF V
<1>2. ASSUME NEW M, NEW N, Len(M) = Len(U), M = [k \in 1 .. Len(U) |-> M[k]],
             N = [k \in 1 .. Len(V) |-> N[k]],
             \A k \in 1 .. Len(V) : N[k] = M[k + 1]
      PROVE  N = Tail(M) /\ M # <<>>
  <2>1. Len(M) # 0
    BY <1>1, <1>2
  <2>2. M # <<>>
    BY <2>1
  <2>3. Tail(M) = [k \in 1 .. Len(U) - 1 |-> M[k + 1]]
    BY <1>1, <1>2, <2>2
  <2> QED BY <1>1, <1>2, <2>2, <2>3
<1>3. InputsOf(V) = Tail(InputsOf(U)) /\ InputsOf(U) # <<>>
  <2>1. InputsOf(U) = [k \in 1 .. Len(U) |-> InputsOf(U)[k]] /\ Len(InputsOf(U)) = Len(U)
    BY <1>1 DEF InputsOf
  <2>2. InputsOf(V) = [k \in 1 .. Len(V) |-> InputsOf(V)[k]]
    BY DEF InputsOf
  <2>3. \A k \in 1 .. Len(V) : InputsOf(V)[k] = InputsOf(U)[k + 1]
    BY <1>1, Zenon DEF InputsOf
  <2> QED BY <1>2, <2>1, <2>2, <2>3
<1>4. OutputsOf(V) = Tail(OutputsOf(U)) /\ OutputsOf(U) # <<>>
  <2>1. OutputsOf(U) = [k \in 1 .. Len(U) |-> OutputsOf(U)[k]] /\ Len(OutputsOf(U)) = Len(U)
    BY <1>1 DEF OutputsOf
  <2>2. OutputsOf(V) = [k \in 1 .. Len(V) |-> OutputsOf(V)[k]]
    BY DEF OutputsOf
  <2>3. \A k \in 1 .. Len(V) : OutputsOf(V)[k] = OutputsOf(U)[k + 1]
    BY <1>1, Zenon DEF OutputsOf
  <2> QED BY <1>2, <2>1, <2>2, <2>3
<1>5. RefersOf(V) = Tail(RefersOf(U)) /\ RefersOf(U) # <<>>
  <2>1. /\ RefersOf(U) = [k \in 1 .. Len(U) |-> RefersOf(U)[k]] /\ Len(RefersOf(U)) = Len(U)
        /\ RefersOf(V) = [k \in 1 .. Len(V) |-> RefersOf(V)[k]]
        /\ \A k \in 1 .. Len(V) : RefersOf(V)[k] = RefersOf(U)[k + 1]
    BY <1>1 DEF RefersOf
  <2> QED BY <1>2, <2>1
<1> QED BY <1>1, <1>3, <1>4, <1>5 DEF V, InputsOf, OutputsOf, RefersOf

(* They are lists of sets of slots. *)
LEMMA SlotsOfType ==
    ASSUME NEW U \in Seq(TaskInfos)
    PROVE  /\ InputsOf(U) \in Seq(SUBSET (0 .. 2 \cup {NoSlot}))
           /\ OutputsOf(U) \in Seq(SUBSET (FrameSlots \cup {NoSlot}))
           /\ RefersOf(U) \in Seq(SUBSET FrameSlots)
<1>1. \A k \in 1 .. Len(U) : U[k] \in TaskInfos
  OBVIOUS
<1>2. Len(U) \in Nat
  OBVIOUS
<1>3. InputsOf(U) \in Seq(SUBSET (0 .. 2 \cup {NoSlot}))
  <2>1. \A k \in 1 .. Len(U) : U[k].input \in 0 .. 2 \cup {NoSlot}
    BY <1>1 DEF TaskInfos
  <2> QED BY <1>2, <2>1 DEF InputsOf
<1>4. OutputsOf(U) \in Seq(SUBSET (FrameSlots \cup {NoSlot}))
  <2>1. \A k \in 1 .. Len(U) : U[k].output \in FrameSlots \cup {NoSlot}
    BY <1>1 DEF TaskInfos
  <2> QED BY <1>2, <2>1 DEF OutputsOf
<1>5. RefersOf(U) \in Seq(SUBSET FrameSlots)
  <2>1. \A k \in 1 .. Len(U) : U[k].refer \in SUBSET FrameSlots
    BY <1>1 DEF TaskInfos
  <2> QED BY <1>2, <2>1 DEF RefersOf
<1> QED BY <1>3, <1>4, <1>5

(* The tasks whose packet the hardware may still read. *)
Unread == IF hal.pc = "done" THEN Tail(Todo) ELSE Todo

(* The tasks whose marks on frame slots are still set. *)
Undone == IF hal.pc = "clear" THEN <<hal.info>> \o Todo ELSE Todo

(* A task that decodes nothing comes or goes, or none does. *)
Plain(U, V) ==
    \/ V = U
    \/ \E info \in TaskInfos : ~IsDecode(info) /\ V = Append(U, info)
    \/ U # <<>> /\ ~IsDecode(U[1]) /\ V = Tail(U)

(* What an item at the front of a list does. *)
LEMMA Fronted ==
    ASSUME NEW S, NEW M \in Seq(S), NEW a \in S, NEW N, N = <<a>> \o M
    PROVE  /\ N \in Seq(S) /\ N # <<>> /\ Head(N) = a /\ N[1] = a /\ Tail(N) = M
           /\ \A e \in S : Append(N, e) = <<a>> \o Append(M, e)
<1>1. N \in Seq(S) /\ N # <<>> /\ Len(N) = Len(M) + 1 /\ N[1] = a /\ Head(N) = a
  OBVIOUS
<1>2. Tail(N) = M
  OBVIOUS
<1>3. ASSUME NEW e \in S PROVE Append(N, e) = <<a>> \o Append(M, e)
  OBVIOUS
<1> QED BY <1>1, <1>2, <1>3

(* Both lists are lists of tasks. *)
LEMMA ListsOfType ==
    ASSUME Base
    PROVE  /\ Unread \in Seq(TaskInfos) /\ Undone \in Seq(TaskInfos)
           /\ Todo \in Seq(TaskInfos) /\ hal.info \in TaskInfos
           /\ hal.pc = "done" => Todo # <<>> /\ Todo[1] = hal.info
<1>1. Todo \in Seq(TaskInfos) /\ hal.info \in TaskInfos
  BY TaskLists DEF Base, TypeInv
<1>2. hal.pc = "done" => Todo # <<>> /\ Todo[1] = hal.info
  BY HoldingFacts DEF Base, Holding
<1>3. Unread \in Seq(TaskInfos)
  BY <1>1, <1>2 DEF Unread
<1>4. Undone \in Seq(TaskInfos)
  BY <1>1 DEF Undone
<1> QED BY <1>1, <1>2, <1>3, <1>4

(* The hal thread is neither about to give back nor to clear a task. *)
HalFar == HalKept \/ (hal.pc \notin {"done", "clear"} /\ hal'.pc \notin {"done", "clear"})

(* The tasks stay as they are. *)
LEMMA ListsSame ==
    ASSUME Base, Todo' = Todo, HalFar
    PROVE  Unread' = Unread /\ Undone' = Undone
<1>1. CASE hal' = hal
  BY <1>1 DEF Unread, Undone
<1>2. CASE hal.pc \notin {"done", "clear"} /\ hal'.pc \notin {"done", "clear"}
  BY <1>2 DEF Unread, Undone
<1>3. CASE hal.pc = "wait" /\ hal' = [hal EXCEPT !.pc = "check"]
  <2>1. hal'.pc = "check"
    BY <1>3 DEF Base, TypeInv
  <2> QED BY <1>3, <2>1 DEF Unread, Undone
<1> QED BY <1>1, <1>2, <1>3 DEF HalFar, HalKept

(* A task is handed to the hal thread. *)
LEMMA ListsPut ==
    ASSUME Base, NEW info \in TaskInfos, Todo' = Append(Todo, info), HalKept
    PROVE  Unread' = Append(Unread, info) /\ Undone' = Append(Undone, info)
<1>1. /\ Todo \in Seq(TaskInfos) /\ hal.info \in TaskInfos
      /\ hal.pc = "done" => Todo # <<>>
  BY ListsOfType
<1>2. /\ hal'.pc = "done" <=> hal.pc = "done"
      /\ hal'.pc = "clear" <=> hal.pc = "clear"
      /\ hal.pc = "clear" => hal'.info = hal.info
  BY DEF HalKept, Base, TypeInv
<1>3. hal.pc = "done" => Tail(Append(Todo, info)) = Append(Tail(Todo), info)
  BY <1>1
<1>4. <<hal.info>> \o Append(Todo, info) = Append(<<hal.info>> \o Todo, info)
  BY <1>1, Fronted
<1> QED BY <1>2, <1>3, <1>4 DEF Unread, Undone

(* The hal thread gives back a task that decoded nothing. *)
LEMMA ListsIdle ==
    ASSUME Base, HalSetIdle
    PROVE  /\ Todo # <<>> /\ ~IsDecode(Todo[1])
           /\ Unread = Todo /\ Unread' = Tail(Unread)
           /\ Undone = Todo /\ Undone' = Tail(Undone)
<1>1. hal.pc = "idle" /\ HalGo("notify") /\ tasks' = SetStatus(tasks, hal.hnd, "TASK_IDLE")
  BY DEF HalSetIdle
<1>2. hal'.pc = "notify"
  BY <1>1, HalGoFacts DEF Base, HalPcs, Holding
<1>3. Todo' = Tail(Todo)
  BY <1>1, DoneFacts DEF Base, Holding
<1>4. Todo # <<>> /\ Todo[1] = hal.info /\ ~IsDecode(hal.info)
  BY <1>1, HoldingFacts DEF Base, Holding, TodoInv
<1> QED BY <1>1, <1>2, <1>3, <1>4 DEF Unread, Undone

(* The hal thread gives back a task that decoded a picture. *)
LEMMA ListsDone ==
    ASSUME Base, HalTaskDone
    PROVE  Unread' = Unread /\ Undone' = Undone
<1>1. /\ hal.pc = "done" /\ HalGo("clear")
      /\ tasks' = SetStatus(tasks, hal.hnd,
                            IF FastMode THEN "TASK_IDLE" ELSE "TASK_PROC_DONE")
  BY DEF HalTaskDone
<1>2. hal'.pc = "clear" /\ hal'.info = hal.info
  BY <1>1, HalGoFacts DEF Base, HalPcs, Holding
<1>3. Todo' = Tail(Todo)
  BY <1>1, DoneFacts DEF Base, Holding
<1>4. Todo \in Seq(TaskInfos) /\ Todo # <<>> /\ Todo[1] = hal.info
  BY <1>1, ListsOfType
<1>5. <<hal.info>> \o Tail(Todo) = Todo
  BY <1>4
<1> QED BY <1>1, <1>2, <1>3, <1>5 DEF Unread, Undone

(* The hardware is through with a packet. *)
LEMMA ListsRead ==
    ASSUME Base, HalHwDone
    PROVE  /\ Todo # <<>> /\ Todo[1] = hal.info /\ IsDecode(Todo[1])
           /\ Unread = Todo /\ Unread' = Tail(Unread)
           /\ Undone' = Undone
<1>1. hal.pc = "hw" /\ HalGo("done") /\ tasks' = tasks
  BY DEF HalHwDone, pools
<1>2. hal'.pc = "done"
  BY <1>1, HalGoFacts DEF Base, HalPcs, Holding
<1>3. Todo' = Todo
  BY <1>1, TodoKept
<1>4. Todo # <<>> /\ Todo[1] = hal.info /\ IsDecode(hal.info)
  BY <1>1, HoldingFacts DEF Base, Holding, TodoInv
<1> QED BY <1>1, <1>2, <1>3, <1>4 DEF Unread, Undone

(* The marks of a task are cleared. *)
LEMMA ListsClear ==
    ASSUME Base, HalClear
    PROVE  /\ Undone # <<>> /\ Undone[1] = hal.info /\ IsDecode(Undone[1])
           /\ Undone' = Tail(Undone) /\ Unread' = Unread
<1>1. hal.pc = "clear" /\ HalGo("push") /\ tasks' = tasks
  BY DEF HalClear, pools
<1>2. hal'.pc = "push"
  BY <1>1, HalGoFacts DEF Base, HalPcs, Holding
<1>3. Todo' = Todo
  BY <1>1, TodoKept
<1>4. Todo \in Seq(TaskInfos) /\ hal.info \in TaskInfos
  BY ListsOfType
<1>5. Undone = <<hal.info>> \o Todo /\ IsDecode(hal.info)
  BY <1>1 DEF Undone, Base, TodoInv
<1>6. Undone # <<>> /\ Undone[1] = hal.info /\ Tail(Undone) = Todo
  BY <1>4, <1>5, Fronted
<1> QED BY <1>1, <1>2, <1>3, <1>5, <1>6 DEF Unread, Undone

(* What the task in hand has, and the marks it has set, stay. *)
MarksKept ==
    /\ task'.copy_rdy = task.copy_rdy /\ task'.parsed_rdy = task.parsed_rdy
    /\ task'.curr_rdy = task.curr_rdy
    /\ task'.info.input = task.info.input /\ task'.info.output = task.info.output
    /\ task'.info.refer = task.info.refer /\ task'.info.pkt = task.info.pkt

(* The parser may take a slot. *)
AtParse == task.pc = "parse" /\ ~task.parsed_rdy

(* The list of packets grows, loses its first, or is emptied. *)
PacketsMove ==
    \/ mPackets' = mPackets /\ sent' = sent
    \/ mPackets' = Append(mPackets, sent + 1) /\ sent' = sent + 1
    \/ mPackets' = <<>> /\ sent' = sent
    \/ mPackets # <<>> /\ mPackets' = Tail(mPackets) /\ sent' = sent

(* A step that sets and clears no mark but those of the display queue. *)
Aside ==
    /\ session' = session /\ codec' = codec /\ pslots' = pslots
    /\ slots' \in {slots, Drained(slots), Ready(slots)}
    /\ MarksKept /\ PacketsMove
    /\ Plain(Unread, Unread') /\ Plain(Undone, Undone')
    /\ AtParse' => AtParse \/ (slots' = slots /\ UnusedCount(slots) # 0)

(* A thread that is woken keeps its task. *)
LEMMA WokenMarks ==
    ASSUME TypeInv, TaskKept
    PROVE  MarksKept /\ task'.pc \in {task.pc, "reset"}
BY DEF TypeInv, DecTasks, TaskKept, MarksKept

(* A parser that goes on to another stage keeps its task. *)
LEMMA MovesMarks ==
    ASSUME TypeInv, NEW w \in SUBSET WaitBits, NEW pc \in ParserPcs, Moves(w, pc)
    PROVE  MarksKept /\ task'.pc = pc
BY MovesFacts DEF MarksKept

(* The steps that leave the task group alone. *)
LEMMA AsideKept ==
    ASSUME Base, session' = session, codec' = codec, pslots' = pslots, Todo' = Todo,
           slots' \in {slots, Drained(slots), Ready(slots)}, HalFar, MarksKept,
           PacketsMove,
           AtParse' => AtParse \/ (slots' = slots /\ UnusedCount(slots) # 0)
    PROVE  Aside
BY ListsSame DEF Aside, Plain

(* A frame is fetched. *)
LEMMA AsideGetFrame ==
    ASSUME Base, GetFrame
    PROVE  Aside
<1> USE DEF pools, lists, calls
<1>1. /\ UNCHANGED <<session, codec, pslots, tasks>>
      /\ slots' = slots
      /\ mPackets' = mPackets /\ sent' = sent
  BY DEF GetFrame
<1>2. TaskKept
  <2>1. Notify({"dis_que_full"}) /\ {"dis_que_full"} \subseteq Reset
    BY DEF GetFrame, Reset, WaitBits
  <2> QED BY <2>1, NotifyFacts DEF Base
<1>3. HalFar
  BY DEF GetFrame, HalFar, HalKept
<1>4. Todo' = Todo
  BY <1>1, TodoKept
<1>5. MarksKept /\ (AtParse' => AtParse)
  BY <1>2, WokenMarks DEF Base, AtParse, MarksKept
<1>6. PacketsMove
  BY <1>1 DEF PacketsMove
<1> QED BY <1>1, <1>3, <1>4, <1>5, <1>6, AsideKept

(* No frame is there. *)
LEMMA AsideGetNothing ==
    ASSUME Base, GetNothing
    PROVE  Aside
<1> USE DEF pools, lists, calls
<1>1. /\ UNCHANGED <<session, codec, pslots, tasks>>
      /\ slots' = slots
      /\ mPackets' = mPackets /\ sent' = sent
  BY DEF GetNothing
<1>2. TaskKept
  <2>1. Notify({"dec_pkt_in"}) /\ {"dec_pkt_in"} \subseteq Reset
    BY DEF GetNothing, Reset, WaitBits
  <2> QED BY <2>1, NotifyFacts DEF Base
<1>3. HalFar
  BY DEF GetNothing, HalFar, HalKept
<1>4. Todo' = Todo
  BY <1>1, TodoKept
<1>5. MarksKept /\ (AtParse' => AtParse)
  BY <1>2, WokenMarks DEF Base, AtParse, MarksKept
<1>6. PacketsMove
  BY <1>1 DEF PacketsMove
<1> QED BY <1>1, <1>3, <1>4, <1>5, <1>6, AsideKept

(* An info change is acknowledged. *)
LEMMA AsideNotifyReady ==
    ASSUME Base, NotifyReady
    PROVE  Aside
<1> USE DEF pools, lists, calls
<1>1. /\ UNCHANGED <<session, codec, pslots, tasks>>
      /\ slots' = slots
      /\ mPackets' = mPackets /\ sent' = sent
  BY DEF NotifyReady
<1>2. TaskKept
  <2>1. Notify({"info_change", "dec_pic_match"}) /\ {"info_change", "dec_pic_match"} \subseteq Reset
    BY DEF NotifyReady, Reset, WaitBits
  <2> QED BY <2>1, NotifyFacts DEF Base
<1>3. HalFar
  BY DEF NotifyReady, HalFar, HalKept
<1>4. Todo' = Todo
  BY <1>1, TodoKept
<1>5. MarksKept /\ (AtParse' => AtParse)
  BY <1>2, WokenMarks DEF Base, AtParse, MarksKept
<1>6. PacketsMove
  BY <1>1 DEF PacketsMove
<1> QED BY <1>1, <1>3, <1>4, <1>5, <1>6, AsideKept

(* A reset notifies the parser. *)
LEMMA AsideResetNotify ==
    ASSUME Base, ResetNotify
    PROVE  Aside
<1> USE DEF pools, lists, calls
<1>1. /\ UNCHANGED <<session, codec, pslots, tasks>>
      /\ slots' = slots
      /\ mPackets' = mPackets /\ sent' = sent
  BY DEF ResetNotify
<1>2. TaskKept
  <2>1. Notify(Reset) /\ Reset \subseteq Reset
    BY DEF ResetNotify, Reset, WaitBits
  <2> QED BY <2>1, NotifyFacts DEF Base
<1>3. HalFar
  BY DEF ResetNotify, HalFar, HalKept
<1>4. Todo' = Todo
  BY <1>1, TodoKept
<1>5. MarksKept /\ (AtParse' => AtParse)
  BY <1>2, WokenMarks DEF Base, AtParse, MarksKept
<1>6. PacketsMove
  BY <1>1 DEF PacketsMove
<1> QED BY <1>1, <1>3, <1>4, <1>5, <1>6, AsideKept

(* A packet is put. *)
LEMMA AsidePutPacket ==
    ASSUME Base, PutPacket
    PROVE  Aside
<1> USE DEF pools, lists, calls
<1>1. /\ UNCHANGED <<session, codec, pslots, tasks>>
      /\ slots' = slots
      /\ mPackets' = Append(mPackets, sent + 1) /\ sent' = sent + 1
  BY DEF PutPacket
<1>2. TaskKept
  <2>1. Notify({"dec_pkt_in"}) /\ {"dec_pkt_in"} \subseteq Reset
    BY DEF PutPacket, Reset, WaitBits
  <2> QED BY <2>1, NotifyFacts DEF Base
<1>3. HalFar
  BY DEF PutPacket, HalFar, HalKept
<1>4. Todo' = Todo
  BY <1>1, TodoKept
<1>5. MarksKept /\ (AtParse' => AtParse)
  BY <1>2, WokenMarks DEF Base, AtParse, MarksKept
<1>6. PacketsMove
  BY <1>1 DEF PacketsMove
<1> QED BY <1>1, <1>3, <1>4, <1>5, <1>6, AsideKept

(* The slots are ready. *)
LEMMA AsideSetReady ==
    ASSUME Base, SetReady
    PROVE  Aside
<1> USE DEF pools, lists, calls
<1>1. /\ UNCHANGED <<session, codec, pslots, tasks>>
      /\ slots' = Ready(slots)
      /\ mPackets' = mPackets /\ sent' = sent
  BY DEF SetReady
<1>2. TaskKept
  BY DEF SetReady, TaskKept
<1>3. HalFar
  BY DEF SetReady, HalFar, HalKept
<1>4. Todo' = Todo
  BY <1>1, TodoKept
<1>5. MarksKept /\ (AtParse' => AtParse)
  BY <1>2, WokenMarks DEF Base, AtParse, MarksKept
<1>6. PacketsMove
  BY <1>1 DEF PacketsMove
<1> QED BY <1>1, <1>3, <1>4, <1>5, <1>6, AsideKept

(* A reset starts. *)
LEMMA AsideResetStart ==
    ASSUME Base, ResetStart
    PROVE  Aside
<1> USE DEF pools, lists, calls
<1>1. /\ UNCHANGED <<session, codec, pslots, tasks>>
      /\ slots' = slots
      /\ mPackets' = <<>> /\ sent' = sent
  BY DEF ResetStart
<1>2. TaskKept
  BY DEF ResetStart, TaskKept
<1>3. HalFar
  BY DEF ResetStart, HalFar, HalKept
<1>4. Todo' = Todo
  BY <1>1, TodoKept
<1>5. MarksKept /\ (AtParse' => AtParse)
  BY <1>2, WokenMarks DEF Base, AtParse, MarksKept
<1>6. PacketsMove
  BY <1>1 DEF PacketsMove
<1> QED BY <1>1, <1>3, <1>4, <1>5, <1>6, AsideKept

(* A reset is asked for. *)
LEMMA AsideResetFlag ==
    ASSUME Base, ResetFlag
    PROVE  Aside
<1> USE DEF pools, lists, calls
<1>1. /\ UNCHANGED <<session, codec, pslots, tasks>>
      /\ slots' = slots
      /\ mPackets' = mPackets /\ sent' = sent
  BY DEF ResetFlag
<1>2. TaskKept
  BY DEF ResetFlag, TaskKept
<1>3. HalFar
  BY DEF ResetFlag, HalFar, HalKept
<1>4. Todo' = Todo
  BY <1>1, TodoKept
<1>5. MarksKept /\ (AtParse' => AtParse)
  BY <1>2, WokenMarks DEF Base, AtParse, MarksKept
<1>6. PacketsMove
  BY <1>1 DEF PacketsMove
<1> QED BY <1>1, <1>3, <1>4, <1>5, <1>6, AsideKept

(* A reset waits. *)
LEMMA AsideResetUnlock ==
    ASSUME Base, ResetUnlock
    PROVE  Aside
<1> USE DEF pools, lists, calls
<1>1. /\ UNCHANGED <<session, codec, pslots, tasks>>
      /\ slots' = slots
      /\ mPackets' = mPackets /\ sent' = sent
  BY DEF ResetUnlock
<1>2. TaskKept
  BY DEF ResetUnlock, TaskKept
<1>3. HalFar
  BY DEF ResetUnlock, HalFar, HalKept
<1>4. Todo' = Todo
  BY <1>1, TodoKept
<1>5. MarksKept /\ (AtParse' => AtParse)
  BY <1>2, WokenMarks DEF Base, AtParse, MarksKept
<1>6. PacketsMove
  BY <1>1 DEF PacketsMove
<1> QED BY <1>1, <1>3, <1>4, <1>5, <1>6, AsideKept

(* A reset was done. *)
LEMMA AsideResetWait ==
    ASSUME Base, ResetWait
    PROVE  Aside
<1> USE DEF pools, lists, calls
<1>1. /\ UNCHANGED <<session, codec, pslots, tasks>>
      /\ slots' = slots
      /\ mPackets' = mPackets /\ sent' = sent
  BY DEF ResetWait
<1>2. TaskKept
  BY DEF ResetWait, TaskKept
<1>3. HalFar
  BY DEF ResetWait, HalFar, HalKept
<1>4. Todo' = Todo
  BY <1>1, TodoKept
<1>5. MarksKept /\ (AtParse' => AtParse)
  BY <1>2, WokenMarks DEF Base, AtParse, MarksKept
<1>6. PacketsMove
  BY <1>1 DEF PacketsMove
<1> QED BY <1>1, <1>3, <1>4, <1>5, <1>6, AsideKept

(* The frames are dropped. *)
LEMMA AsideResetFlush ==
    ASSUME Base, ResetFlush
    PROVE  Aside
<1> USE DEF pools, lists, calls
<1>1. /\ UNCHANGED <<session, codec, pslots, tasks>>
      /\ slots' = slots
      /\ mPackets' = mPackets /\ sent' = sent
  BY DEF ResetFlush
<1>2. TaskKept
  BY DEF ResetFlush, TaskKept
<1>3. HalFar
  BY DEF ResetFlush, HalFar, HalKept
<1>4. Todo' = Todo
  BY <1>1, TodoKept
<1>5. MarksKept /\ (AtParse' => AtParse)
  BY <1>2, WokenMarks DEF Base, AtParse, MarksKept
<1>6. PacketsMove
  BY <1>1 DEF PacketsMove
<1> QED BY <1>1, <1>3, <1>4, <1>5, <1>6, AsideKept

(* All is cleared. *)
LEMMA AsideClearDone ==
    ASSUME Base, ClearDone
    PROVE  Aside
<1> USE DEF pools, lists, calls
<1>1. /\ UNCHANGED <<session, codec, pslots, tasks>>
      /\ slots' = slots
      /\ mPackets' = mPackets /\ sent' = sent
  BY DEF ClearDone
<1>2. TaskKept
  BY DEF ClearDone, TaskKept
<1>3. HalFar
  BY DEF ClearDone, HalFar, HalKept
<1>4. Todo' = Todo
  BY <1>1, TodoKept
<1>5. MarksKept /\ (AtParse' => AtParse)
  BY <1>2, WokenMarks DEF Base, AtParse, MarksKept
<1>6. PacketsMove
  BY <1>1 DEF PacketsMove
<1> QED BY <1>1, <1>3, <1>4, <1>5, <1>6, AsideKept

(* The parser is stopped. *)
LEMMA AsideClearStart ==
    ASSUME Base, ClearStart
    PROVE  Aside
<1> USE DEF pools, lists, calls
<1>1. /\ UNCHANGED <<session, codec, pslots, tasks>>
      /\ slots' = slots
      /\ mPackets' = mPackets /\ sent' = sent
  BY DEF ClearStart
<1>2. TaskKept
  BY DEF ClearStart, TaskKept
<1>3. HalFar
  BY DEF ClearStart, HalFar, HalKept
<1>4. Todo' = Todo
  BY <1>1, TodoKept
<1>5. MarksKept /\ (AtParse' => AtParse)
  BY <1>2, WokenMarks DEF Base, AtParse, MarksKept
<1>6. PacketsMove
  BY <1>1 DEF PacketsMove
<1> QED BY <1>1, <1>3, <1>4, <1>5, <1>6, AsideKept

(* The hal thread is stopped. *)
LEMMA AsideClearStopHal ==
    ASSUME Base, ClearStopHal
    PROVE  Aside
<1> USE DEF pools, lists, calls
<1>1. /\ UNCHANGED <<session, codec, pslots, tasks>>
      /\ slots' = slots
      /\ mPackets' = mPackets /\ sent' = sent
  BY DEF ClearStopHal
<1>2. TaskKept
  BY DEF ClearStopHal, TaskKept
<1>3. HalFar
  BY SignalFacts DEF Base, ClearStopHal, HalFar
<1>4. Todo' = Todo
  BY <1>1, TodoKept
<1>5. MarksKept /\ (AtParse' => AtParse)
  BY <1>2, WokenMarks DEF Base, AtParse, MarksKept
<1>6. PacketsMove
  BY <1>1 DEF PacketsMove
<1> QED BY <1>1, <1>3, <1>4, <1>5, <1>6, AsideKept

(* A task is taken. *)
LEMMA AsideHalTake ==
    ASSUME Base, HalTake
    PROVE  Aside
<1> USE DEF pools, lists, calls
<1>1. /\ UNCHANGED <<session, codec, pslots, mPackets, sent>>
      /\ slots' = slots
  BY DEF HalTake
<1>2. TaskKept
  BY DEF HalTake, TaskKept
<1>3. HalFar
  BY DEF HalTake, HalFar, HalKept
<1>4. Todo' = Todo
  <2>1. tasks' = tasks
    BY DEF HalTake
  <2> QED BY <2>1, TodoKept
<1>5. MarksKept /\ (AtParse' => AtParse)
  BY <1>2, WokenMarks DEF Base, AtParse, MarksKept
<1>6. PacketsMove
  BY <1>1 DEF PacketsMove
<1> QED BY <1>1, <1>3, <1>4, <1>5, <1>6, AsideKept

(* The hal thread resets. *)
LEMMA AsideHalReset ==
    ASSUME Base, HalReset
    PROVE  Aside
<1> USE DEF pools, lists, calls
<1>1. /\ UNCHANGED <<session, codec, pslots, mPackets, sent>>
      /\ slots' = Drained(slots)
  BY DEF HalReset
<1>2. TaskKept
  BY DEF HalReset, TaskKept
<1>3. HalFar
  BY DEF HalReset, HalFar, HalKept
<1>4. Todo' = Todo
  <2>1. tasks' = SetAll(tasks, ProcDone, "TASK_IDLE")
    BY DEF HalReset, SetAll, ProcDone
  <2>2. \/ tasks' = tasks
        \/ ProcDone # <<>> /\ tasks' = SetStatus(tasks, Head(ProcDone), "TASK_IDLE")
    BY <2>1, FlushFacts DEF Base
  <2> QED BY <2>2, TodoKept, CollectFacts DEF Base
<1>5. MarksKept /\ (AtParse' => AtParse)
  BY <1>2, WokenMarks DEF Base, AtParse, MarksKept
<1>6. PacketsMove
  BY <1>1 DEF PacketsMove
<1> QED BY <1>1, <1>3, <1>4, <1>5, <1>6, AsideKept

(* The hal thread sleeps. *)
LEMMA AsideHalSleep ==
    ASSUME Base, HalSleep
    PROVE  Aside
<1> USE DEF pools, lists, calls
<1>1. /\ UNCHANGED <<session, codec, pslots, mPackets, sent>>
      /\ slots' = slots
  BY DEF HalSleep
<1>2. TaskKept
  <2>1. Notify({"dec_all_done"}) /\ {"dec_all_done"} \subseteq Reset
    BY DEF HalSleep, Reset, WaitBits
  <2> QED BY <2>1, NotifyFacts DEF Base
<1>3. HalFar
  <2>1. hal.pc = "check" /\ HalGo("wait")
    BY DEF HalSleep, HalIdle
  <2>2. hal'.pc = "wait"
    BY <2>1, HalGoFacts DEF Base, HalPcs, Holding
  <2> QED BY <2>1, <2>2 DEF HalFar
<1>4. Todo' = Todo
  <2>1. tasks' = tasks
    BY DEF HalSleep
  <2> QED BY <2>1, TodoKept
<1>5. MarksKept /\ (AtParse' => AtParse)
  BY <1>2, WokenMarks DEF Base, AtParse, MarksKept
<1>6. PacketsMove
  BY <1>1 DEF PacketsMove
<1> QED BY <1>1, <1>3, <1>4, <1>5, <1>6, AsideKept

(* An info change is put. *)
LEMMA AsideHalInfoChange ==
    ASSUME Base, HalInfoChange
    PROVE  Aside
<1> USE DEF pools, lists, calls
<1>1. /\ UNCHANGED <<session, codec, pslots, mPackets, sent>>
      /\ slots' = Drained(slots)
  BY DEF HalInfoChange
<1>2. TaskKept
  BY DEF HalInfoChange, TaskKept
<1>3. HalFar
  <2>1. hal.pc = "change" /\ HalGo("idle")
    BY DEF HalInfoChange, HalIdle
  <2>2. hal'.pc = "idle"
    BY <2>1, HalGoFacts DEF Base, HalPcs, Holding
  <2> QED BY <2>1, <2>2 DEF HalFar
<1>4. Todo' = Todo
  <2>1. tasks' = tasks
    BY DEF HalInfoChange
  <2> QED BY <2>1, TodoKept
<1>5. MarksKept /\ (AtParse' => AtParse)
  BY <1>2, WokenMarks DEF Base, AtParse, MarksKept
<1>6. PacketsMove
  BY <1>1 DEF PacketsMove
<1> QED BY <1>1, <1>3, <1>4, <1>5, <1>6, AsideKept

(* The end is put. *)
LEMMA AsideHalEos ==
    ASSUME Base, HalEos
    PROVE  Aside
<1> USE DEF pools, lists, calls
<1>1. /\ UNCHANGED <<session, codec, pslots, mPackets, sent>>
      /\ slots' = Drained(slots)
  BY DEF HalEos
<1>2. TaskKept
  BY DEF HalEos, TaskKept
<1>3. HalFar
  <2>1. hal.pc = "eos" /\ HalGo("idle")
    BY DEF HalEos, HalIdle
  <2>2. hal'.pc = "idle"
    BY <2>1, HalGoFacts DEF Base, HalPcs, Holding
  <2> QED BY <2>1, <2>2 DEF HalFar
<1>4. Todo' = Todo
  <2>1. tasks' = tasks
    BY DEF HalEos
  <2> QED BY <2>1, TodoKept
<1>5. MarksKept /\ (AtParse' => AtParse)
  BY <1>2, WokenMarks DEF Base, AtParse, MarksKept
<1>6. PacketsMove
  BY <1>1 DEF PacketsMove
<1> QED BY <1>1, <1>3, <1>4, <1>5, <1>6, AsideKept

(* What is ready is put. *)
LEMMA AsideHalPush ==
    ASSUME Base, HalPush
    PROVE  Aside
<1> USE DEF pools, lists, calls
<1>1. /\ UNCHANGED <<session, codec, pslots, mPackets, sent>>
      /\ slots' = Drained(slots)
  BY DEF HalPush
<1>2. TaskKept
  BY DEF HalPush, TaskKept
<1>3. HalFar
  <2>1. hal.pc = "push" /\ HalGo("notify")
    BY DEF HalPush, HalIdle
  <2>2. hal'.pc = "notify"
    BY <2>1, HalGoFacts DEF Base, HalPcs, Holding
  <2> QED BY <2>1, <2>2 DEF HalFar
<1>4. Todo' = Todo
  <2>1. tasks' = tasks
    BY DEF HalPush
  <2> QED BY <2>1, TodoKept
<1>5. MarksKept /\ (AtParse' => AtParse)
  BY <1>2, WokenMarks DEF Base, AtParse, MarksKept
<1>6. PacketsMove
  BY <1>1 DEF PacketsMove
<1> QED BY <1>1, <1>3, <1>4, <1>5, <1>6, AsideKept

(* The parser is told. *)
LEMMA AsideHalNotify ==
    ASSUME Base, HalNotify
    PROVE  Aside
<1> USE DEF pools, lists, calls
<1>1. /\ UNCHANGED <<session, codec, pslots, mPackets, sent>>
      /\ slots' = slots
  BY DEF HalNotify
<1>2. TaskKept
  <2>1. PICK flag \in SUBSET Reset : Notify(flag)
    BY DEF HalNotify, Reset, WaitBits
  <2> QED BY <2>1, NotifyFacts DEF Base
<1>3. HalFar
  BY DEF HalNotify, HalFar, HalKept
<1>4. Todo' = Todo
  <2>1. tasks' = tasks
    BY DEF HalNotify
  <2> QED BY <2>1, TodoKept
<1>5. MarksKept /\ (AtParse' => AtParse)
  BY <1>2, WokenMarks DEF Base, AtParse, MarksKept
<1>6. PacketsMove
  BY <1>1 DEF PacketsMove
<1> QED BY <1>1, <1>3, <1>4, <1>5, <1>6, AsideKept

(* The hal thread ends. *)
LEMMA AsideHalExit ==
    ASSUME Base, HalExit
    PROVE  Aside
<1> USE DEF pools, lists, calls
<1>1. /\ UNCHANGED <<session, codec, pslots, mPackets, sent>>
      /\ slots' = slots
  BY DEF HalExit
<1>2. TaskKept
  BY DEF HalExit, TaskKept
<1>3. HalFar
  <2>1. hal.pc = "check" /\ HalGo("exited")
    BY DEF HalExit, HalIdle
  <2>2. hal'.pc = "exited"
    BY <2>1, HalGoFacts DEF Base, HalPcs, Holding
  <2> QED BY <2>1, <2>2 DEF HalFar
<1>4. Todo' = Todo
  <2>1. tasks' = tasks
    BY DEF HalExit
  <2> QED BY <2>1, TodoKept
<1>5. MarksKept /\ (AtParse' => AtParse)
  BY <1>2, WokenMarks DEF Base, AtParse, MarksKept
<1>6. PacketsMove
  BY <1>1 DEF PacketsMove
<1> QED BY <1>1, <1>3, <1>4, <1>5, <1>6, AsideKept

(* A task that decoded nothing goes back. *)
LEMMA AsideHalSetIdle ==
    ASSUME Base, HalSetIdle
    PROVE  Aside
<1> USE DEF pools, lists, calls
<1>1. UNCHANGED <<session, codec, pslots, slots, mPackets, sent, task>>
  BY DEF HalSetIdle
<1>2. Plain(Unread, Unread') /\ Plain(Undone, Undone')
  BY ListsIdle DEF Plain
<1>3. MarksKept /\ (AtParse' => AtParse) /\ PacketsMove
  BY <1>1 DEF AtParse, MarksKept, PacketsMove
<1> QED BY <1>1, <1>2, <1>3 DEF Aside

(* A task goes back. *)
LEMMA AsideHalTaskDone ==
    ASSUME Base, HalTaskDone
    PROVE  Aside
<1> USE DEF pools, lists, calls
<1>1. UNCHANGED <<session, codec, pslots, slots, mPackets, sent, task>>
  BY DEF HalTaskDone
<1>2. Plain(Unread, Unread') /\ Plain(Undone, Undone')
  BY ListsDone DEF Plain
<1>3. MarksKept /\ (AtParse' => AtParse) /\ PacketsMove
  BY <1>1 DEF AtParse, MarksKept, PacketsMove
<1> QED BY <1>1, <1>2, <1>3 DEF Aside

(* A turn starts. *)
LEMMA AsideParserCheck ==
    ASSUME Base, ParserCheck
    PROVE  Aside
<1> USE DEF pools, lists, calls
<1>0. task.wait \in SUBSET WaitBits
  BY DEF Base, TypeInv, DecTasks
<1>1. /\ UNCHANGED <<session, codec, pslots, slots, mPackets, sent, tasks>>
      /\ HalFar
  BY DEF ParserCheck, HalFar, HalKept
<1>2. PICK pc \in {"reset", "wait"} : Moves(task.wait, pc)
  BY DEF ParserCheck, Moves, Go
<1>3. MarksKept /\ task'.pc = pc
  BY <1>0, <1>2, MovesMarks DEF Base, ParserPcs, AtWork
<1>4. Todo' = Todo
  BY <1>1, TodoKept
<1>5. ~AtParse'
  BY <1>2, <1>3 DEF AtParse
<1>6. PacketsMove
  BY <1>1 DEF PacketsMove
<1> QED BY <1>1, <1>3, <1>4, <1>5, <1>6, AsideKept

(* A reset is asked of the hal thread. *)
LEMMA AsideParserReset ==
    ASSUME Base, ParserReset
    PROVE  Aside
<1> USE DEF pools, lists, calls
<1>0. task.wait \in SUBSET WaitBits
  BY DEF Base, TypeInv, DecTasks
<1>1. /\ UNCHANGED <<session, codec, pslots, slots, mPackets, sent, tasks>>
      /\ HalFar
  BY SignalFacts DEF ParserReset, HalFar, HalKept, Base
<1>2. PICK pc \in {"sem_hal"} : Moves(task.wait, pc)
  BY DEF ParserReset, Moves, Go
<1>3. MarksKept /\ task'.pc = pc
  BY <1>0, <1>2, MovesMarks DEF Base, ParserPcs, AtWork
<1>4. Todo' = Todo
  BY <1>1, TodoKept
<1>5. ~AtParse'
  BY <1>2, <1>3 DEF AtParse
<1>6. PacketsMove
  BY <1>1 DEF PacketsMove
<1> QED BY <1>1, <1>3, <1>4, <1>5, <1>6, AsideKept

(* A reset is done. *)
LEMMA AsideParserResetDone ==
    ASSUME Base, ParserResetDone
    PROVE  Aside
<1> USE DEF pools, lists, calls
<1>0. task.wait \in SUBSET WaitBits
  BY DEF Base, TypeInv, DecTasks
<1>1. /\ UNCHANGED <<session, codec, pslots, slots, mPackets, sent, tasks>>
      /\ HalFar
  BY DEF ParserResetDone, HalFar, HalKept
<1>2. PICK pc \in {"check"} : Moves(task.wait, pc)
  BY DEF ParserResetDone, Moves, Go
<1>3. MarksKept /\ task'.pc = pc
  BY <1>0, <1>2, MovesMarks DEF Base, ParserPcs, AtWork
<1>4. Todo' = Todo
  BY <1>1, TodoKept
<1>5. ~AtParse'
  BY <1>2, <1>3 DEF AtParse
<1>6. PacketsMove
  BY <1>1 DEF PacketsMove
<1> QED BY <1>1, <1>3, <1>4, <1>5, <1>6, AsideKept

(* The display is waited for. *)
LEMMA AsideParserWaitDisplay ==
    ASSUME Base, ParserWaitDisplay
    PROVE  Aside
<1> USE DEF pools, lists, calls
<1>0. task.wait \in SUBSET WaitBits
  BY DEF Base, TypeInv, DecTasks
<1>1. /\ UNCHANGED <<session, codec, pslots, slots, mPackets, sent, tasks>>
      /\ HalFar
  BY DEF ParserWaitDisplay, HalFar, HalKept
<1>2. PICK pc \in {"check", "slot"}, w \in SUBSET WaitBits : Moves(w, pc)
  BY <1>0 DEF ParserWaitDisplay, Moves, Block, Pass, WaitBits
<1>3. MarksKept /\ task'.pc = pc
  BY <1>0, <1>2, MovesMarks DEF Base, ParserPcs, AtWork
<1>4. Todo' = Todo
  BY <1>1, TodoKept
<1>5. ~AtParse'
  BY <1>2, <1>3 DEF AtParse
<1>6. PacketsMove
  BY <1>1 DEF PacketsMove
<1> QED BY <1>1, <1>3, <1>4, <1>5, <1>6, AsideKept

(* A slot is looked for. *)
LEMMA AsideParserWaitSlot ==
    ASSUME Base, ParserWaitSlot
    PROVE  Aside
<1> USE DEF pools, lists, calls
<1>0. task.wait \in SUBSET WaitBits
  BY DEF Base, TypeInv, DecTasks
<1>1. /\ UNCHANGED <<session, codec, pslots, slots, mPackets, sent, tasks>>
      /\ HalFar
  BY DEF ParserWaitSlot, HalFar, HalKept
<1>2. PICK pc \in {"check", "parse"}, w \in SUBSET WaitBits : Moves(w, pc)
  BY <1>0 DEF ParserWaitSlot, Moves, Block, Pass, WaitBits
<1>3. MarksKept /\ task'.pc = pc
  BY <1>0, <1>2, MovesMarks DEF Base, ParserPcs, AtWork
<1>4. Todo' = Todo
  BY <1>1, TodoKept
<1>5. AtParse' => UnusedCount(slots) # 0
  <2>1. ASSUME UnusedCount(slots) = 0 PROVE task'.pc = "check"
    <3>1. Moves(task.wait \cup {"dec_slot_idx"}, "check")
      BY <2>1 DEF ParserWaitSlot, Block, Moves
    <3> QED BY <1>0, <3>1, MovesMarks DEF Base, ParserPcs, WaitBits
  <2> QED BY <2>1 DEF AtParse
<1>6. PacketsMove
  BY <1>1 DEF PacketsMove
<1> QED BY <1>1, <1>3, <1>4, <1>5, <1>6, AsideKept

(* The user is waited for. *)
LEMMA AsideParserWaitReady ==
    ASSUME Base, ParserWaitReady
    PROVE  Aside
<1> USE DEF pools, lists, calls
<1>0. task.wait \in SUBSET WaitBits
  BY DEF Base, TypeInv, DecTasks
<1>1. /\ UNCHANGED <<session, codec, pslots, slots, mPackets, sent, tasks>>
      /\ HalFar
  BY DEF ParserWaitReady, HalFar, HalKept
<1>2. PICK pc \in {"check"}, w \in SUBSET WaitBits : Moves(w, pc)
  BY <1>0 DEF ParserWaitReady, Moves, Block, Pass, WaitBits
<1>3. MarksKept /\ task'.pc = pc
  BY <1>0, <1>2, MovesMarks DEF Base, ParserPcs, AtWork
<1>4. Todo' = Todo
  BY <1>1, TodoKept
<1>5. ~AtParse'
  BY <1>2, <1>3 DEF AtParse
<1>6. PacketsMove
  BY <1>1 DEF PacketsMove
<1> QED BY <1>1, <1>3, <1>4, <1>5, <1>6, AsideKept

(* A handle is looked for. *)
LEMMA AsideParserGetHnd ==
    ASSUME Base, ParserGetHnd
    PROVE  Aside
<1> USE DEF pools, lists, calls
<1>0. task \in DecTasks
  BY DEF Base, TypeInv
<1>1. UNCHANGED <<session, codec, pslots, slots, mPackets, sent, tasks, hal>>
  BY DEF ParserGetHnd
<1>2. MarksKept /\ ~AtParse'
  BY <1>0 DEF ParserGetHnd, Go, Pass, Block, MarksKept, AtParse, DecTasks
<1>3. Todo' = Todo /\ HalFar /\ PacketsMove
  BY <1>1, TodoKept DEF HalFar, HalKept, PacketsMove
<1> QED BY <1>1, <1>2, <1>3, AsideKept

(* The previous task is waited for, or collected. *)
LEMMA AsideParserWaitPrev ==
    ASSUME Base, ParserWaitPrev
    PROVE  Aside
<1> USE DEF pools, lists, calls
<1>0. task \in DecTasks
  BY DEF Base, TypeInv
<1>1. UNCHANGED <<session, codec, pslots, slots, mPackets, sent, hal>>
  BY DEF ParserWaitPrev
<1>2. MarksKept /\ ~AtParse'
  BY <1>0 DEF ParserWaitPrev, Go, Pass, Block, MarksKept, AtParse, DecTasks
<1>3. Todo' = Todo
  <2>1. CASE tasks' = tasks
    BY <2>1, TodoKept
  <2>2. CASE /\ HasHnd(tasks, "TASK_PROC_DONE")
             /\ tasks' = SetStatus(tasks, GetHnd(tasks, "TASK_PROC_DONE"), "TASK_IDLE")
    BY <2>2, CollectFacts DEF Base, HasHnd, GetHnd, ProcDone
  <2> QED BY <2>1, <2>2 DEF ParserWaitPrev
<1>4. HalFar /\ PacketsMove
  BY <1>1 DEF HalFar, HalKept, PacketsMove
<1> QED BY <1>1, <1>2, <1>3, <1>4, AsideKept

(* A change of geometry is announced by a task that decodes nothing. *)
LEMMA AsideParserInfoChange ==
    ASSUME Base, ParserInfoChange
    PROVE  Aside
<1> USE DEF pools, lists, calls
<1>0. task \in DecTasks /\ task.info \in TaskInfos
  BY DEF Base, TypeInv, DecTasks
<1> DEFINE info == [task.info EXCEPT !.change = TRUE, !.eos = FALSE]
<1>1. /\ UNCHANGED <<session, codec, pslots, slots, mPackets, sent>>
      /\ PutTask(info) /\ task.hnd # None
  BY DEF ParserInfoChange, Base, TaskInv, AtWork
<1>2. MarksKept /\ ~AtParse'
  BY <1>0 DEF ParserInfoChange, MarksKept, AtParse, DecTasks, TaskInfos
<1>3. info \in TaskInfos /\ ~IsDecode(info)
  BY <1>0 DEF TaskInfos, IsDecode
<1> HIDE DEF info
<1>4. Todo' = Append(Todo, info) /\ HalKept
  BY <1>1, <1>3, PutTaskFacts, SignalFacts DEF Base, PutTask
<1>5. Unread' = Append(Unread, info) /\ Undone' = Append(Undone, info)
  BY <1>3, <1>4, ListsPut
<1> QED BY <1>1, <1>2, <1>3, <1>5 DEF Aside, Plain, PacketsMove

(* Nothing changes. *)
LEMMA AsideStutter ==
    ASSUME Base, UNCHANGED vars
    PROVE  Aside
<1>1. UNCHANGED <<session, codec, pslots, slots, mPackets, sent, tasks, task, hal>>
  BY DEF vars, pools, lists, calls
<1>2. Todo' = Todo /\ HalFar /\ PacketsMove
  BY <1>1, TodoKept DEF HalFar, HalKept, PacketsMove
<1>3. MarksKept /\ (AtParse' => AtParse)
  BY <1>1 DEF MarksKept, AtParse
<1> QED BY <1>1, <1>2, <1>3, AsideKept

-----------------------------------------------------------------------------
(* The steps that are not aside. *)

(* What none of these steps changes. *)
Elsewhere == session' = session /\ sent' = sent /\ ~AtParse'

ListsKept == Unread' = Unread /\ Undone' = Undone

(* The parser takes a packet. *)
Taken ==
    /\ Elsewhere /\ ListsKept /\ UNCHANGED <<slots, pslots, codec>>
    /\ ~task.curr_rdy /\ mPackets # <<>> /\ mPackets' = Tail(mPackets)
    /\ task'.curr_rdy /\ task'.info.pkt = Head(mPackets)
    /\ ~task.copy_rdy /\ ~task'.copy_rdy /\ ~task.parsed_rdy /\ ~task'.parsed_rdy

(* The stream is copied to a packet slot. *)
Copied(i) ==
    /\ Elsewhere /\ ListsKept /\ UNCHANGED <<slots, codec, mPackets>>
    /\ task.pc = "copy" /\ ~task.copy_rdy /\ task'.copy_rdy /\ task'.info.input = i
    /\ ~task.parsed_rdy /\ ~task'.parsed_rdy
    /\ task'.curr_rdy = task.curr_rdy /\ task'.info.pkt = task.info.pkt
    /\ i = FirstUnused(pslots)
    /\ pslots' = SetFlag(SetFlag(GetUnused(pslots), i, "CODEC_READY"), i, "HAL_INPUT")

(* The packet is parsed, and a frame slot is taken. *)
ParsedTo(i) ==
    /\ Elsewhere /\ ListsKept /\ UNCHANGED <<pslots, mPackets>>
    /\ AtParse /\ task.curr_rdy /\ ~Undecodable(task.info.pkt)
    /\ i = FirstUnused(slots) /\ slots' = Parsed(i, task.info.pkt)
    /\ codec' = [ref0 |-> i, found_i |-> TRUE]
    /\ task'.parsed_rdy /\ task'.info.output = i
    /\ task'.info.refer = References(task.info.pkt)
    /\ task'.copy_rdy = task.copy_rdy /\ task'.info.input = task.info.input
    /\ task'.curr_rdy /\ task'.info.pkt = task.info.pkt

(* The flags of a parser without a task. *)
NoneInHand == ~task'.curr_rdy /\ ~task'.copy_rdy /\ ~task'.parsed_rdy

(* The task in hand is handed over. *)
Started ==
    /\ Elsewhere /\ NoneInHand /\ UNCHANGED <<slots, pslots, codec, mPackets>>
    /\ task.parsed_rdy /\ task.copy_rdy /\ task.curr_rdy
    /\ \E info \in TaskInfos :
          /\ IsDecode(info) /\ info.pkt = task.info.pkt
          /\ info.input = task.info.input /\ info.output = task.info.output
          /\ info.refer = task.info.refer
          /\ Unread' = Append(Unread, info) /\ Undone' = Append(Undone, info)

(* The packet in hand is dropped. *)
Refused ==
    /\ Elsewhere /\ NoneInHand /\ UNCHANGED <<slots, codec, mPackets>>
    /\ AtParse /\ task.curr_rdy /\ task.copy_rdy
    /\ pslots' = ClrFlag(pslots, task.info.input, "HAL_INPUT")
    /\ Plain(Unread, Unread') /\ Plain(Undone, Undone')

(* The task in hand is dropped, and what the codec holds. *)
Abandoned ==
    /\ Elsewhere /\ NoneInHand /\ mPackets' = mPackets
    /\ Unread = <<>> /\ Undone = <<>> /\ Unread' = <<>> /\ Undone' = <<>>
    /\ slots' = Drained(DropParsed(DropChange(DropRefer(slots))))
    /\ pslots' = DropCopied(pslots)
    /\ codec' = [ref0 |-> NoSlot, found_i |-> FALSE]

(* The hardware is through with the packet of the first task. *)
WasRead ==
    /\ session' = session /\ sent' = sent /\ (AtParse' => AtParse)
    /\ MarksKept /\ UNCHANGED <<slots, codec, mPackets>>
    /\ Unread # <<>> /\ IsDecode(Unread[1]) /\ Unread' = Tail(Unread)
    /\ Undone' = Undone
    /\ pslots' = ClrFlag(pslots, Unread[1].input, "HAL_INPUT")

(* The marks of the first task are cleared. *)
WasCleared ==
    /\ session' = session /\ sent' = sent /\ (AtParse' => AtParse)
    /\ MarksKept /\ UNCHANGED <<pslots, codec, mPackets>>
    /\ Undone # <<>> /\ IsDecode(Undone[1]) /\ Undone' = Tail(Undone)
    /\ Unread' = Unread
    /\ slots' = ClrAllInputs(ClrFlag(slots, Undone[1].output, "HAL_OUTPUT"),
                             Undone[1].refer)

(* The parser thread ends, and marks the packet slot in hand as consumed. *)
Ended ==
    /\ Elsewhere /\ ListsKept /\ MarksKept /\ UNCHANGED <<slots, codec, mPackets>>
    /\ task.copy_rdy
    /\ pslots' = ClrFlag(SetFlag(SetFlag(pslots, task.info.input, "CODEC_READY"),
                                 task.info.input, "HAL_INPUT"),
                         task.info.input, "HAL_INPUT")

(* The steps of ParserGetPacket. *)
LEMMA StepGetPacket ==
    ASSUME Base, ParserGetPacket
    PROVE  Aside \/ Taken
<1> USE DEF pools, calls
<1>0. /\ task \in DecTasks /\ dec \in Shared /\ session \in Sessions /\ task.info \in TaskInfos
      /\ mPackets \in Seq(Nat)
  BY DEF Base, TypeInv, DecTasks
<1>1. /\ UNCHANGED <<session, codec, sent, slots, pslots>>
      /\ task.pc = "pkt" /\ task.hnd # None
  BY DEF ParserGetPacket, Base, TaskInv, AtWork
<1>2. CASE task.curr_rdy \/ mPackets = <<>>
  <2>1. UNCHANGED <<tasks, hal, mPackets>>
    BY <1>2 DEF ParserGetPacket
  <2>2. MarksKept /\ ~AtParse'
    BY <1>0, <1>2 DEF ParserGetPacket, Go, Block, MarksKept, AtParse, DecTasks
  <2>3. Todo' = Todo /\ HalFar /\ PacketsMove
    BY <1>1, <2>1, TodoKept DEF HalFar, HalKept, PacketsMove
  <2> QED BY <1>1, <2>2, <2>3, AsideKept
<1>3. CASE ~task.curr_rdy /\ mPackets # <<>>
  <2> DEFINE n == Head(mPackets)
             w == task.wait \ {"dec_pkt_in"}
             info == Prepared(n)
  <2>1. n \in 1 .. sent /\ mPackets' = Tail(mPackets)
    <3>1. \A k \in 1 .. Len(mPackets) : mPackets[k] \in 1 .. sent
      BY DEF Base, TaskInv
    <3> QED BY <1>0, <1>3, <3>1 DEF ParserGetPacket
  <2>2. /\ info \in TaskInfos /\ ~info.change
        /\ info.output = task.info.output /\ info.refer = task.info.refer
        /\ (info.valid => info.pkt = n)
    BY <1>3, <2>1, PreparedFacts
  <2>3. ~task.parsed_rdy /\ ~task.copy_rdy
    BY <1>0, <1>3 DEF Base, TaskInv, DecTasks
  <2>4. info.input = task.info.input /\ (~info.valid => info.pkt = task.info.pkt)
    BY <1>0 DEF Prepared, TaskInfos
  <2>5. CASE info.valid
    <3>1. /\ task' = [task EXCEPT !.wait = w, !.pc = "copy", !.info = info, !.curr_rdy = TRUE]
          /\ UNCHANGED <<tasks, hal>>
      BY <1>0, <1>3, <2>5 DEF ParserGetPacket, Pass, DecTasks
    <3> HIDE DEF info, n, w
    <3>2. /\ task'.pc = "copy" /\ task'.info = info /\ task'.curr_rdy
          /\ task'.copy_rdy = task.copy_rdy /\ task'.parsed_rdy = task.parsed_rdy
      BY <1>0, <3>1 DEF DecTasks
    <3>3. ListsKept
      <4>1. Todo' = Todo /\ HalFar
        BY <3>1, TodoKept DEF HalFar, HalKept
      <4> QED BY <4>1, ListsSame DEF ListsKept
    <3>4. Elsewhere
      BY <1>1, <3>2 DEF Elsewhere, AtParse
    <3>5. task'.info.pkt = Head(mPackets)
      BY <2>2, <2>5, <3>2 DEF n
    <3> QED BY <1>1, <1>3, <2>1, <2>3, <3>2, <3>3, <3>4, <3>5 DEF Taken
  <2>6. CASE ~info.valid
    <3>1. /\ task' = [task EXCEPT !.wait = w, !.pc = "check", !.info = info, !.hnd = None]
          /\ PutTask(info)
      BY <1>0, <1>3, <2>6 DEF ParserGetPacket, Pass, DecTasks
    <3> HIDE DEF info, n, w
    <3>2. /\ task'.pc = "check" /\ task'.info = info /\ task'.curr_rdy = task.curr_rdy
          /\ task'.copy_rdy = task.copy_rdy /\ task'.parsed_rdy = task.parsed_rdy
      BY <1>0, <3>1 DEF DecTasks
    <3>3. MarksKept /\ ~AtParse'
      BY <2>2, <2>4, <2>6, <3>2 DEF MarksKept, AtParse
    <3>4. Todo' = Append(Todo, info) /\ HalKept
      BY <1>1, <2>2, <3>1, PutTaskFacts, SignalFacts DEF Base, PutTask
    <3>5. Unread' = Append(Unread, info) /\ Undone' = Append(Undone, info)
      BY <2>2, <3>4, ListsPut
    <3>6. Plain(Unread, Unread') /\ Plain(Undone, Undone')
      BY <2>2, <2>6, <3>5 DEF Plain, IsDecode
    <3>7. PacketsMove
      BY <1>1, <1>3, <2>1 DEF PacketsMove
    <3> QED BY <1>1, <3>3, <3>6, <3>7 DEF Aside
  <2> QED BY <2>5, <2>6
<1> QED BY <1>2, <1>3

(* The steps of ParserCopy. *)
LEMMA StepCopy ==
    ASSUME Base, ParserCopy
    PROVE  Aside \/ \E i : Copied(i)
<1> USE DEF pools, lists, calls
<1>0. task \in DecTasks /\ task.info \in TaskInfos
  BY DEF Base, TypeInv, DecTasks
<1>1. UNCHANGED <<session, codec, slots, mPackets, sent, tasks, hal>>
  BY DEF ParserCopy
<1>2. Todo' = Todo /\ HalFar /\ PacketsMove
  BY <1>1, TodoKept DEF HalFar, HalKept, PacketsMove
<1>3. CASE task.copy_rdy
  <2>1. MarksKept /\ ~AtParse' /\ pslots' = pslots
    BY <1>0, <1>3 DEF ParserCopy, Go, MarksKept, AtParse, DecTasks
  <2> QED BY <1>1, <1>2, <2>1, AsideKept
<1>4. CASE ~task.copy_rdy
  <2> DEFINE i == FirstUnused(pslots)
             info == [task.info EXCEPT !.input = i]
  <2>1. /\ pslots' = SetFlag(SetFlag(GetUnused(pslots), i, "CODEC_READY"), i, "HAL_INPUT")
        /\ task' = [task EXCEPT !.info = info, !.copy_rdy = TRUE, !.pc = "prev"]
    BY <1>0, <1>4 DEF ParserCopy, DecTasks, TaskInfos
  <2>2. info.input = i /\ info.pkt = task.info.pkt
    BY <1>0 DEF TaskInfos
  <2>3. i = FirstUnused(pslots)
    OBVIOUS
  <2> HIDE DEF info, i
  <2>4. /\ task'.copy_rdy /\ task'.info = info /\ task'.pc = "prev"
        /\ task'.parsed_rdy = task.parsed_rdy /\ task'.curr_rdy = task.curr_rdy
    BY <1>0, <2>1 DEF DecTasks
  <2>5. ListsKept
    BY <1>2, ListsSame DEF ListsKept
  <2>6. Elsewhere
    BY <1>1, <2>4 DEF Elsewhere, AtParse
  <2>7. ~task.parsed_rdy /\ task.pc = "copy"
    BY <1>0, <1>4 DEF Base, TaskInv, DecTasks, ParserCopy
  <2> QED BY <1>1, <1>4, <2>1, <2>2, <2>3, <2>4, <2>5, <2>6, <2>7 DEF Copied
<1> QED BY <1>3, <1>4

(* The steps of ParserParse. *)
LEMMA StepParse ==
    ASSUME Base, ParserParse
    PROVE  Aside \/ \E i : ParsedTo(i)
<1> USE DEF pools, lists, calls
<1>0. task \in DecTasks /\ task.info \in TaskInfos
  BY DEF Base, TypeInv, DecTasks
<1>1. UNCHANGED <<session, pslots, mPackets, sent, tasks, hal>>
  BY DEF ParserParse
<1>2. Todo' = Todo /\ HalFar /\ PacketsMove
  BY <1>1, TodoKept DEF HalFar, HalKept, PacketsMove
<1>3. CASE task.parsed_rdy
  <2>1. MarksKept /\ ~AtParse' /\ slots' = slots /\ codec' = codec
    BY <1>0, <1>3 DEF ParserParse, Go, MarksKept, AtParse, DecTasks
  <2> QED BY <1>1, <1>2, <2>1, AsideKept
<1>4. CASE ~task.parsed_rdy
  <2> DEFINE i == FirstUnused(slots)
             n == task.info.pkt
             info == [task.info EXCEPT !.output = i, !.refer = References(n)]
  <2>1. /\ ~Undecodable(n) /\ slots' = Parsed(i, n)
        /\ codec' = [ref0 |-> i, found_i |-> TRUE]
        /\ task' = [task EXCEPT !.info = info, !.parsed_rdy = TRUE, !.pc = "change"]
    BY <1>0, <1>4 DEF ParserParse, DecTasks, TaskInfos
  <2>2. /\ info.output = i /\ info.pkt = task.info.pkt /\ info.refer = References(n)
        /\ info.input = task.info.input
    BY <1>0 DEF TaskInfos
  <2>3. i = FirstUnused(slots) /\ n = task.info.pkt
    OBVIOUS
  <2> HIDE DEF info, i, n
  <2>4. /\ task'.parsed_rdy /\ task'.info = info /\ task'.pc = "change"
        /\ task'.copy_rdy = task.copy_rdy /\ task'.curr_rdy = task.curr_rdy
    BY <1>0, <2>1 DEF DecTasks
  <2>5. ListsKept
    BY <1>2, ListsSame DEF ListsKept
  <2>6. Elsewhere
    BY <1>1, <2>4 DEF Elsewhere, AtParse
  <2>7. AtParse /\ task.curr_rdy
    BY <1>0, <1>4 DEF Base, TaskInv, AtWork, ParserParse, AtParse
  <2> QED BY <1>1, <2>1, <2>2, <2>3, <2>4, <2>5, <2>6, <2>7 DEF ParsedTo
<1> QED BY <1>3, <1>4

(* The step of ParserStart. *)
LEMMA StepStart ==
    ASSUME Base, ParserStart
    PROVE  Started
<1> USE DEF pools, lists, calls
<1>0. task \in DecTasks /\ task.info \in TaskInfos
  BY DEF Base, TypeInv, DecTasks
<1> DEFINE info == [task.info EXCEPT !.change = FALSE]
<1>1. /\ UNCHANGED <<session, codec, pslots, slots, mPackets, sent>>
      /\ PutTask(info) /\ task.hnd # None
      /\ task.parsed_rdy /\ task.copy_rdy /\ task.curr_rdy /\ task.info.valid
  BY <1>0 DEF ParserStart, Base, TaskInv, AtWork, DecTasks
<1>2. NoneInHand /\ task'.pc = "check"
  BY <1>0 DEF ParserStart, Pass, NoneInHand, DecTasks
<1>3. /\ info \in TaskInfos /\ IsDecode(info) /\ info.pkt = task.info.pkt
      /\ info.input = task.info.input /\ info.output = task.info.output
      /\ info.refer = task.info.refer
  BY <1>0, <1>1 DEF TaskInfos, IsDecode
<1> HIDE DEF info
<1>4. Todo' = Append(Todo, info) /\ HalKept
  BY <1>1, <1>3, PutTaskFacts, SignalFacts DEF Base, PutTask
<1>5. Unread' = Append(Unread, info) /\ Undone' = Append(Undone, info)
  BY <1>3, <1>4, ListsPut
<1>6. Elsewhere
  BY <1>1, <1>2 DEF Elsewhere, AtParse
<1> QED BY <1>1, <1>2, <1>3, <1>5, <1>6 DEF Started

(* The step of ParserDropPacket. *)
LEMMA StepDropPacket ==
    ASSUME Base, ParserDropPacket
    PROVE  Refused
<1> USE DEF pools, lists, calls
<1>0. task \in DecTasks /\ task.info \in TaskInfos
  BY DEF Base, TypeInv, DecTasks
<1>1. /\ UNCHANGED <<session, codec, slots, mPackets, sent>>
      /\ AtParse /\ task.curr_rdy /\ task.copy_rdy /\ task.hnd # None
      /\ pslots' = ClrFlag(pslots, task.info.input, "HAL_INPUT")
  BY <1>0 DEF ParserDropPacket, DropCopied, Base, TaskInv, AtWork, DecTasks, AtParse
<1>2. NoneInHand /\ task'.pc = "check"
  BY <1>0, <1>1 DEF ParserDropPacket, NoneInHand, DecTasks, AtParse
<1>3. Plain(Unread, Unread') /\ Plain(Undone, Undone')
  <2>1. CASE task.info.eos
    <3> DEFINE info == [task.info EXCEPT !.valid = FALSE]
    <3>1. PutTask(info)
      BY <2>1 DEF ParserDropPacket
    <3>2. info \in TaskInfos /\ ~IsDecode(info)
      BY <1>0 DEF TaskInfos, IsDecode
    <3> HIDE DEF info
    <3>3. Todo' = Append(Todo, info) /\ HalKept
      BY <1>1, <3>1, <3>2, PutTaskFacts, SignalFacts DEF Base, PutTask
    <3>4. Unread' = Append(Unread, info) /\ Undone' = Append(Undone, info)
      BY <3>2, <3>3, ListsPut
    <3> QED BY <3>2, <3>4 DEF Plain
  <2>2. CASE ~task.info.eos
    <3>1. tasks' = SetStatus(tasks, task.hnd, "TASK_IDLE") /\ hal' = hal
      BY <2>2 DEF ParserDropPacket
    <3>2. Todo' = Todo
      BY <1>1, <3>1, GiveBackFacts DEF Base
    <3>3. Unread' = Unread /\ Undone' = Undone
      BY <3>1, <3>2, ListsSame DEF HalFar, HalKept
    <3> QED BY <3>3 DEF Plain
  <2> QED BY <2>1, <2>2
<1>4. Elsewhere
  BY <1>1, <1>2 DEF Elsewhere, AtParse
<1> QED BY <1>1, <1>2, <1>3, <1>4 DEF Refused

(* The step of ParserDrop. *)
LEMMA StepDrop ==
    ASSUME Base, ParserDrop
    PROVE  Abandoned
<1> USE DEF pools, lists, calls
<1>1. /\ UNCHANGED <<session, mPackets, sent, tasks, hal>>
      /\ task.pc = "sem_hal" /\ dec.hal_reset > 0 /\ task' = NewTask("post")
      /\ slots' = Drained(DropParsed(DropChange(DropRefer(slots))))
      /\ pslots' = DropCopied(pslots)
      /\ codec' = [ref0 |-> NoSlot, found_i |-> FALSE]
  BY DEF ParserDrop
<1>2. NoneInHand /\ task'.pc = "post"
  BY <1>1, NewTaskFacts DEF NoneInHand, ParserPcs
<1>3. ~HasHnd(tasks, "TASK_PROCESSING") /\ hal.pc \in {"check", "wait"}
  BY <1>1 DEF Base, ResetInv, Quiet
<1>4. Todo = <<>>
  BY <1>3, TaskLists DEF Base
<1>5. Unread = <<>> /\ Undone = <<>>
  BY <1>3, <1>4 DEF Unread, Undone
<1>6. Unread' = Unread /\ Undone' = Undone
  <2>1. Todo' = Todo /\ HalFar
    BY <1>1, TodoKept DEF HalFar, HalKept
  <2> QED BY <2>1, ListsSame
<1>7. Elsewhere
  BY <1>1, <1>2 DEF Elsewhere, AtParse
<1> QED BY <1>1, <1>2, <1>5, <1>6, <1>7 DEF Abandoned

(* The step of HalHwDone. *)
LEMMA StepHwDone ==
    ASSUME Base, HalHwDone
    PROVE  WasRead
<1> USE DEF pools, lists, calls
<1>1. /\ UNCHANGED <<session, slots, task, codec, mPackets, sent>>
      /\ pslots' = ClrFlag(pslots, hal.info.input, "HAL_INPUT")
  BY DEF HalHwDone
<1>2. /\ Unread # <<>> /\ Unread[1] = hal.info /\ IsDecode(Unread[1])
      /\ Unread' = Tail(Unread) /\ Undone' = Undone
  BY ListsRead
<1>3. MarksKept /\ (AtParse' => AtParse)
  BY <1>1 DEF MarksKept, AtParse
<1> QED BY <1>1, <1>2, <1>3 DEF WasRead

(* The step of HalClear. *)
LEMMA StepClear ==
    ASSUME Base, HalClear
    PROVE  WasCleared
<1> USE DEF pools, lists, calls
<1>1. /\ UNCHANGED <<session, pslots, task, codec, mPackets, sent>>
      /\ slots' = ClrAllInputs(ClrFlag(slots, hal.info.output, "HAL_OUTPUT"),
                               hal.info.refer)
  BY DEF HalClear, ClrAllInputs
<1>2. /\ Undone # <<>> /\ Undone[1] = hal.info /\ IsDecode(Undone[1])
      /\ Undone' = Tail(Undone) /\ Unread' = Unread
  BY ListsClear
<1>3. MarksKept /\ (AtParse' => AtParse)
  BY <1>1 DEF MarksKept, AtParse
<1> QED BY <1>1, <1>2, <1>3 DEF WasCleared

(* The steps of ParserExit. *)
LEMMA StepExit ==
    ASSUME Base, ParserExit
    PROVE  Aside \/ Ended
<1> USE DEF pools, lists, calls
<1>0. task \in DecTasks /\ task.info \in TaskInfos
  BY DEF Base, TypeInv, DecTasks
<1>1. /\ UNCHANGED <<session, slots, codec, mPackets, sent, tasks, hal>>
      /\ task' = [task EXCEPT !.pc = "exited"] /\ task.pc = "check"
  BY DEF ParserExit, Go
<1>2. MarksKept /\ ~AtParse'
  BY <1>0, <1>1 DEF MarksKept, AtParse, DecTasks
<1>3. Todo' = Todo /\ HalFar /\ PacketsMove
  BY <1>1, TodoKept DEF HalFar, HalKept, PacketsMove
<1>4. CASE pslots' = pslots
  BY <1>1, <1>2, <1>3, <1>4, AsideKept
<1>5. CASE pslots' # pslots
  <2>1. /\ task.info.valid
        /\ pslots' = ClrFlag(SetFlag(SetFlag(pslots, task.info.input, "CODEC_READY"),
                                     task.info.input, "HAL_INPUT"),
                             task.info.input, "HAL_INPUT")
    BY <1>5 DEF ParserExit
  <2>2. task.copy_rdy
    BY <1>1, <2>1 DEF Base, TaskInv
  <2>3. ListsKept
    BY <1>3, ListsSame DEF ListsKept
  <2> QED BY <1>1, <1>2, <2>1, <2>2, <2>3 DEF Ended, Elsewhere
<1> QED BY <1>4, <1>5

-----------------------------------------------------------------------------
(* Every step is one of these. *)
Kinds ==
    \/ Aside \/ Taken \/ (\E i : Copied(i)) \/ (\E i : ParsedTo(i))
    \/ Started \/ Refused \/ Abandoned \/ WasRead \/ WasCleared \/ Ended

(* What a step does to the marks. *)
LEMMA StepKinds ==
    ASSUME Base, [Next]_vars
    PROVE  Kinds
<1>1. CASE UNCHANGED vars
  BY <1>1, AsideStutter DEF Kinds
<1>2. CASE Parser
  <2>1. CASE \/ ParserCheck \/ ParserReset \/ ParserResetDone \/ ParserGetHnd
             \/ ParserWaitPrev \/ ParserWaitDisplay \/ ParserWaitSlot
             \/ ParserInfoChange \/ ParserWaitReady
    BY <2>1, AsideParserCheck, AsideParserReset, AsideParserResetDone, AsideParserGetHnd,
       AsideParserWaitPrev, AsideParserWaitDisplay, AsideParserWaitSlot,
       AsideParserInfoChange, AsideParserWaitReady DEF Kinds
  <2>2. CASE ParserDrop \/ ParserGetPacket \/ ParserCopy
    BY <2>2, StepDrop, StepGetPacket, StepCopy DEF Kinds
  <2>3. CASE ParserParse \/ ParserDropPacket \/ ParserStart \/ ParserExit
    BY <2>3, StepParse, StepDropPacket, StepStart, StepExit DEF Kinds
  <2> QED BY <1>2, <2>1, <2>2, <2>3 DEF Parser
<1>3. CASE HalThread
  <2>1. CASE HalTake \/ HalReset \/ HalSleep \/ HalInfoChange \/ HalEos \/ HalSetIdle
    BY <2>1, AsideHalTake, AsideHalReset, AsideHalSleep, AsideHalInfoChange, AsideHalEos,
       AsideHalSetIdle DEF Kinds
  <2>2. CASE HalTaskDone \/ HalPush \/ HalNotify \/ HalExit
    BY <2>2, AsideHalTaskDone, AsideHalPush, AsideHalNotify, AsideHalExit DEF Kinds
  <2>3. CASE HalHwDone \/ HalClear
    BY <2>3, StepHwDone, StepClear DEF Kinds
  <2> QED BY <1>3, <2>1, <2>2, <2>3 DEF HalThread
<1>4. CASE PutPacket \/ GetFrame \/ GetNothing \/ SetReady \/ NotifyReady
           \/ ResetStart \/ ResetSteps
  BY <1>4, AsidePutPacket, AsideGetFrame, AsideGetNothing, AsideSetReady,
     AsideNotifyReady, AsideResetStart, AsideResetFlag, AsideResetNotify,
     AsideResetUnlock, AsideResetWait, AsideResetFlush DEF ResetSteps, Kinds
<1>5. CASE ClearStart \/ ClearStopHal \/ ClearDone \/ Finished
  BY <1>5, AsideClearStart, AsideClearStopHal, AsideClearDone, AsideStutter
     DEF Finished, Kinds
<1> QED BY <1>1, <1>2, <1>3, <1>4, <1>5 DEF Next

(* What the mark of a reader does. *)
LEMMA InputSet ==
    ASSUME NEW S, NEW F, NEW I, NEW p, p \in PoolType(S, F, I), NEW i \in S, NEW q,
           i \in p.on_used, p.hal_use[i] + 1 < HalUseRange, q = SetFlag(p, i, "HAL_INPUT")
    PROVE  /\ q \in PoolType(S, F, I) /\ Accounted(p, q)
           /\ OnlyChanges(p, q, {"hal_use"})
           /\ \A j \in S : q.hal_use[j] = IF j = i THEN p.hal_use[j] + 1 ELSE p.hal_use[j]
<1>1. q \in PoolType(S, F, I) /\ Accounted(p, q) /\ OnlyChanges(p, q, {"hal_use"})
  BY SetHalInput, Zenon
<1>2. q.hal_use = [p.hal_use EXCEPT ![i] = p.hal_use[i] + 1]
  BY SetHalInput
<1>3. p.hal_use \in [S -> 0 .. 255]
  BY PoolFields
<1> QED BY <1>1, <1>2, <1>3

(* What clearing it does. *)
LEMMA InputCleared ==
    ASSUME NEW S, NEW F, NEW I, NEW p, p \in PoolType(S, F, I), NEW i \in S, NEW q,
           i \in p.on_used, p.hal_use[i] > 0, q = ClrFlag(p, i, "HAL_INPUT")
    PROVE  /\ q \in PoolType(S, F, I) /\ Accounted(p, q)
           /\ OnlyChanges(p, q, {"hal_use"} \cup UsageFields)
           /\ AtMostLeaves(p, q, i) /\ q.used_count <= p.used_count
           /\ \A j \in S : q.hal_use[j] = IF j = i THEN p.hal_use[j] - 1 ELSE p.hal_use[j]
<1>1. /\ q \in PoolType(S, F, I) /\ Accounted(p, q)
      /\ OnlyChanges(p, q, {"hal_use"} \cup UsageFields)
      /\ AtMostLeaves(p, q, i) /\ q.used_count <= p.used_count
  BY ClrHalInput, Zenon
<1>2. q.hal_use = [p.hal_use EXCEPT ![i] = p.hal_use[i] - 1]
  BY ClrHalInput
<1>3. p.hal_use \in [S -> 0 .. 255]
  BY PoolFields
<1> QED BY <1>1, <1>2, <1>3

(* The packet pool keeps no frame and no geometry. *)
NoFrames == {}
NoInfos == {None}

(* A slot of the packet pool is used by one reader, or it is unused. *)
PacketPool(p, S) ==
    /\ p \in PoolType(S, NoFrames, NoInfos)
    /\ p.not_ready = {} /\ p.codec_use = {} /\ p.hal_output = {}
    /\ \A i \in S : p.queue_use[i] = 0
    /\ \A i \in S : p.hal_use[i] = IF i \in p.on_used THEN 1 ELSE 0

(* Such a pool accounts for its slots. *)
LEMMA PacketUsedOK ==
    ASSUME NEW S, NEW p, PacketPool(p, S)
    PROVE  UsedOK(p) /\ Slots(p) = S /\ p.on_used \subseteq S
<1>1. Slots(p) = S /\ p.on_used \subseteq S
  BY PoolFields DEF PacketPool
<1> QED BY <1>1 DEF PacketPool, UsedOK, Idle

(* A pool whose marks but those of readers are clear. *)
LEMMA PacketFromUsed ==
    ASSUME NEW S, NEW q, q \in PoolType(S, NoFrames, NoInfos), UsedOK(q),
           q.not_ready = {} /\ q.codec_use = {} /\ q.hal_output = {},
           \A i \in S : q.queue_use[i] = 0, \A i \in S : q.hal_use[i] \in {0, 1}
    PROVE  PacketPool(q, S)
<1>1. Slots(q) = S
  BY PoolFields
<1>2. \A i \in S : i \in q.on_used <=> q.hal_use[i] = 1
  BY <1>1 DEF UsedOK, Idle
<1> QED BY <1>2 DEF PacketPool

(* A packet slot is taken, and marked for the hardware. *)
LEMMA PacketTaken ==
    ASSUME NEW n \in Nat, NEW p, PacketPool(p, 0 .. n - 1), FreeSlots(p) # {}, NEW i,
           i = FirstUnused(p), NEW q,
           q = SetFlag(SetFlag(GetUnused(p), i, "CODEC_READY"), i, "HAL_INPUT")
    PROVE  /\ PacketPool(q, 0 .. n - 1)
           /\ i \in 0 .. n - 1 /\ i \notin p.on_used
           /\ q.on_used = p.on_used \cup {i}
<1> DEFINE S == 0 .. n - 1
           g == GetUnused(p)
           r == SetFlag(g, i, "CODEC_READY")
<1>1. /\ g \in PoolType(S, NoFrames, NoInfos) /\ i \in S /\ i \notin p.on_used
      /\ g.on_used = p.on_used \cup {i} /\ g.not_ready = p.not_ready \cup {i}
      /\ OnlyChanges(p, g, {"on_used", "not_ready", "used_count"})
  BY GetUnusedFacts DEF PacketPool
<1>2. r = [g EXCEPT !.not_ready = g.not_ready \ {i}]
  BY DEF SetFlag
<1> HIDE DEF g
<1>3. g.not_ready \ {i} \in SUBSET S /\ "not_ready" \in DOMAIN g
  BY <1>1, PoolFields DEF PoolType
<1>4. r \in PoolType(S, NoFrames, NoInfos)
  <2>1. \A v \in SUBSET S : [g EXCEPT !.not_ready = v] \in PoolType(S, NoFrames, NoInfos)
    BY <1>1, PoolEdit
  <2> QED BY <1>2, <1>3, <2>1
<1>5. /\ r.not_ready = {} /\ r.on_used = g.on_used /\ r.hal_use = g.hal_use
      /\ r.codec_use = g.codec_use /\ r.hal_output = g.hal_output
      /\ r.queue_use = g.queue_use
  <2>1. g.not_ready \ {i} = {}
    BY <1>1 DEF PacketPool
  <2> QED BY <1>1, <1>2, <2>1 DEF PoolType
<1>6. g.hal_use = p.hal_use /\ g.codec_use = {} /\ g.hal_output = {}
      /\ g.queue_use = p.queue_use
  BY <1>1 DEF OnlyChanges, Fields, PacketPool
<1> HIDE DEF r
<1>7. p.hal_use[i] = 0
  BY <1>1 DEF PacketPool
<1>8. /\ q \in PoolType(S, NoFrames, NoInfos)
      /\ \A j \in S : q.hal_use[j] = IF j = i THEN r.hal_use[j] + 1 ELSE r.hal_use[j]
      /\ OnlyChanges(r, q, {"hal_use"})
  <2>1. i \in r.on_used /\ r.hal_use[i] = 0
    BY <1>1, <1>5, <1>6, <1>7
  <2>2. r.hal_use[i] + 1 < HalUseRange
    BY <2>1 DEF HalUseRange
  <2>3. q = SetFlag(r, i, "HAL_INPUT")
    BY DEF r, g
  <2> HIDE DEF S
  <2> QED BY <1>1, <1>4, <2>1, <2>2, <2>3, InputSet
<1>9. /\ q.on_used = p.on_used \cup {i} /\ q.not_ready = {} /\ q.codec_use = {}
      /\ q.hal_output = {} /\ q.queue_use = p.queue_use
  BY <1>1, <1>5, <1>6, <1>8 DEF OnlyChanges, Fields
<1>10. \A j \in S : q.hal_use[j] = IF j \in q.on_used THEN 1 ELSE 0
  <2>1. r.hal_use = p.hal_use /\ p.hal_use \in [S -> 0 .. 255]
    BY <1>5, <1>6, PoolFields, ZenonT(60) DEF PacketPool
  <2> QED BY <1>1, <1>8, <1>9, <2>1 DEF PacketPool
<1>11. PacketPool(q, S)
  BY <1>8, <1>9, <1>10 DEF PacketPool
<1> QED BY <1>1, <1>9, <1>11

(* The mark of a reader is cleared, and the slot is unused. *)
LEMMA PacketReleased ==
    ASSUME NEW S, NEW p, PacketPool(p, S), NEW i \in p.on_used, NEW q,
           q = ClrFlag(p, i, "HAL_INPUT")
    PROVE  PacketPool(q, S) /\ q.on_used = p.on_used \ {i}
<1>1. UsedOK(p) /\ i \in S /\ p.hal_use[i] = 1
  BY PacketUsedOK DEF PacketPool
<1>2. /\ q \in PoolType(S, NoFrames, NoInfos) /\ UsedOK(q)
      /\ OnlyChanges(p, q, {"hal_use"} \cup UsageFields)
      /\ \A j \in S : q.hal_use[j] = IF j = i THEN p.hal_use[j] - 1 ELSE p.hal_use[j]
  <2>1. p \in PoolType(S, NoFrames, NoInfos) /\ p.hal_use[i] > 0
    BY <1>1 DEF PacketPool
  <2>2. Accounted(p, q) => UsedOK(q)
    BY <1>1 DEF Accounted
  <2> QED BY <1>1, <2>1, <2>2, InputCleared
<1>3. /\ q.not_ready = {} /\ q.codec_use = {} /\ q.hal_output = {}
      /\ q.queue_use = p.queue_use
  BY <1>2 DEF OnlyChanges, Fields, UsageFields, PacketPool
<1>4. Slots(q) = S /\ q.on_used \subseteq S /\ p.on_used \subseteq S
  BY <1>2, PoolFields DEF PacketPool
<1>5. \A j \in S : q.hal_use[j] = IF j = i THEN 0 ELSE p.hal_use[j]
  BY <1>1, <1>2
<1>6. \A j \in S : q.hal_use[j] \in {0, 1} /\ q.queue_use[j] = 0
  BY <1>3, <1>5 DEF PacketPool
<1>7. PacketPool(q, S)
  BY <1>2, <1>3, <1>6, PacketFromUsed
<1>8. \A j \in S : j \in q.on_used <=> j \in p.on_used \ {i}
  BY <1>5, <1>7 DEF PacketPool
<1> QED BY <1>4, <1>7, <1>8

(* One of two marks is cleared, and the slot stays in use. *)
LEMMA PacketLowered ==
    ASSUME NEW S, NEW s, s \in PoolType(S, NoFrames, NoInfos), UsedOK(s), NEW i \in S,
           i \in s.on_used, s.hal_use[i] = 2, NEW q, q = ClrFlag(s, i, "HAL_INPUT")
    PROVE  /\ q \in PoolType(S, NoFrames, NoInfos) /\ UsedOK(q)
           /\ OnlyChanges(s, q, {"hal_use"} \cup UsageFields)
           /\ \A j \in S : q.hal_use[j] = IF j = i THEN 1 ELSE s.hal_use[j]
<1>1. s.hal_use[i] > 0
  OBVIOUS
<1>2. q \in PoolType(S, NoFrames, NoInfos) /\ Accounted(s, q)
  BY <1>1, InputCleared
<1>3. OnlyChanges(s, q, {"hal_use"} \cup UsageFields)
  BY <1>1, InputCleared
<1>4. \A j \in S : q.hal_use[j] = IF j = i THEN s.hal_use[j] - 1 ELSE s.hal_use[j]
  BY <1>1, InputCleared
<1> QED BY <1>2, <1>3, <1>4 DEF Accounted

(* A second mark comes and goes. *)
LEMMA PacketMarkedTwice ==
    ASSUME NEW S, NEW p, PacketPool(p, S), NEW i \in p.on_used, NEW q,
           q = ClrFlag(SetFlag(SetFlag(p, i, "CODEC_READY"), i, "HAL_INPUT"),
                       i, "HAL_INPUT")
    PROVE  PacketPool(q, S) /\ q.on_used = p.on_used
<1> DEFINE r == SetFlag(p, i, "CODEC_READY")
           s == SetFlag(r, i, "HAL_INPUT")
<1>1. UsedOK(p) /\ i \in S /\ p.hal_use[i] = 1
  BY PacketUsedOK DEF PacketPool
<1>2. r = p
  <2>1. r = [p EXCEPT !.not_ready = @ \ {i}]
    BY DEF SetFlag
  <2>2. p.not_ready \ {i} = p.not_ready /\ p \in PoolType(S, NoFrames, NoInfos)
    BY DEF PacketPool
  <2>3. r = [p EXCEPT !.not_ready = p.not_ready]
    BY <2>1, <2>2
  <2> HIDE DEF r
  <2> QED BY <2>2, <2>3 DEF PoolType
<1>3. s = SetFlag(p, i, "HAL_INPUT") /\ q = ClrFlag(s, i, "HAL_INPUT")
  BY <1>2
<1> HIDE DEF r, s
<1>4. /\ s \in PoolType(S, NoFrames, NoInfos) /\ UsedOK(s)
      /\ OnlyChanges(p, s, {"hal_use"})
      /\ \A j \in S : s.hal_use[j] = IF j = i THEN p.hal_use[j] + 1 ELSE p.hal_use[j]
  <2>1. p.hal_use[i] + 1 < HalUseRange /\ p \in PoolType(S, NoFrames, NoInfos)
    BY <1>1 DEF HalUseRange, PacketPool
  <2>2. Accounted(p, s) => UsedOK(s)
    BY <1>1 DEF Accounted
  <2> QED BY <1>1, <1>3, <2>1, <2>2, InputSet
<1>5. p.on_used \subseteq S
  BY PoolFields DEF PacketPool
<1>6. s.hal_use[i] = 2 /\ i \in s.on_used /\ s.on_used = p.on_used
  BY <1>1, <1>4 DEF OnlyChanges, Fields
<1>7. /\ q \in PoolType(S, NoFrames, NoInfos) /\ UsedOK(q)
      /\ OnlyChanges(s, q, {"hal_use"} \cup UsageFields)
      /\ \A j \in S : q.hal_use[j] = IF j = i THEN 1 ELSE s.hal_use[j]
  <2>1. /\ s \in PoolType(S, NoFrames, NoInfos) /\ UsedOK(s) /\ i \in S /\ i \in s.on_used
        /\ s.hal_use[i] = 2 /\ q = ClrFlag(s, i, "HAL_INPUT")
    BY <1>1, <1>3, <1>4, <1>6
  <2>2. q \in PoolType(S, NoFrames, NoInfos) /\ UsedOK(q)
    BY <2>1, PacketLowered
  <2>3. OnlyChanges(s, q, {"hal_use"} \cup UsageFields)
    BY <2>1, PacketLowered
  <2>4. \A j \in S : q.hal_use[j] = IF j = i THEN 1 ELSE s.hal_use[j]
    BY <2>1, PacketLowered
  <2> QED BY <2>2, <2>3, <2>4
<1>8. /\ q.not_ready = {} /\ q.codec_use = {} /\ q.hal_output = {}
      /\ q.queue_use = p.queue_use
  BY <1>4, <1>7 DEF OnlyChanges, Fields, UsageFields, PacketPool
<1>9. \A j \in S : q.hal_use[j] = p.hal_use[j]
  BY <1>1, <1>4, <1>6, <1>7
<1>10. PacketPool(q, S)
  <2>1. \A j \in S : q.hal_use[j] \in {0, 1} /\ q.queue_use[j] = 0
    BY <1>8, <1>9 DEF PacketPool
  <2> QED BY <1>7, <1>8, <2>1, PacketFromUsed
<1>11. q.on_used \subseteq S
  BY <1>10, PacketUsedOK
<1>12. \A j \in S : j \in q.on_used <=> j \in p.on_used
  BY <1>9, <1>10 DEF PacketPool
<1> QED BY <1>5, <1>10, <1>11, <1>12

(* A step that is aside leaves the shares as they are. *)
LEMMA PartsPlain ==
    ASSUME NEW U \in Seq(TaskInfos), NEW V, Plain(U, V), NEW T, NEW X
    PROVE  /\ Parts(InputsOf(U), T, X) => Parts(InputsOf(V), T, X)
           /\ Parts(OutputsOf(U), T, X) => Parts(OutputsOf(V), T, X)
           /\ Parts(RefersOf(U), T, X) => Parts(RefersOf(V), T, X)
<1> DEFINE I == SUBSET (0 .. 2 \cup {NoSlot})
           O == SUBSET (FrameSlots \cup {NoSlot})
           R == SUBSET FrameSlots
<1>1. InputsOf(U) \in Seq(I) /\ OutputsOf(U) \in Seq(O) /\ RefersOf(U) \in Seq(R)
  BY SlotsOfType
<1>2. CASE V = U
  BY <1>2
<1>3. CASE \E info \in TaskInfos : ~IsDecode(info) /\ V = Append(U, info)
  <2>1. PICK info \in TaskInfos : ~IsDecode(info) /\ V = Append(U, info)
    BY <1>3
  <2>2. /\ InputsOf(V) = Append(InputsOf(U), {})
        /\ OutputsOf(V) = Append(OutputsOf(U), {})
        /\ RefersOf(V) = Append(RefersOf(U), {})
    BY <2>1, SlotsAppended
  <2>3. Parts(InputsOf(U), T, X) => Parts(InputsOf(V), T, X)
    BY <1>1, <2>2, PartsNone
  <2>4. Parts(OutputsOf(U), T, X) => Parts(OutputsOf(V), T, X)
    BY <1>1, <2>2, PartsNone
  <2>5. Parts(RefersOf(U), T, X) => Parts(RefersOf(V), T, X)
    BY <1>1, <2>2, PartsNone
  <2> QED BY <2>3, <2>4, <2>5
<1>4. CASE U # <<>> /\ ~IsDecode(U[1]) /\ V = Tail(U)
  <2>1. /\ InputsOf(V) = Tail(InputsOf(U)) /\ InputsOf(U) # <<>> /\ InputsOf(U)[1] = {}
        /\ OutputsOf(V) = Tail(OutputsOf(U)) /\ OutputsOf(U) # <<>> /\ OutputsOf(U)[1] = {}
        /\ RefersOf(V) = Tail(RefersOf(U)) /\ RefersOf(U) # <<>> /\ RefersOf(U)[1] = {}
    BY <1>4, SlotsShortened
  <2>2. X \ {} = X
    OBVIOUS
  <2>3. Parts(InputsOf(U), T, X) => Parts(InputsOf(V), T, X)
    BY <1>1, <2>1, <2>2, PartsTail
  <2>4. Parts(OutputsOf(U), T, X) => Parts(OutputsOf(V), T, X)
    BY <1>1, <2>1, <2>2, PartsTail
  <2>5. Parts(RefersOf(U), T, X) => Parts(RefersOf(V), T, X)
    BY <1>1, <2>1, <2>2, PartsTail
  <2> QED BY <2>3, <2>4, <2>5
<1> QED BY <1>2, <1>3, <1>4 DEF Plain

-----------------------------------------------------------------------------
(* The packet slots. *)
PacketCount == IF FastMode THEN 3 ELSE 2
PacketSlots == 0 .. PacketCount - 1

InHand == IF task.copy_rdy THEN {task.info.input} ELSE {}

(* Each packet slot in use is the input of one task that is not read yet.  *)
PacketInv ==
    /\ PacketPool(pslots, PacketSlots)
    /\ Parts(InputsOf(Unread), InHand, pslots.on_used)

(* A stage of the parser that looks for a packet slot finds one. *)
CanCopy == task.pc = "copy" /\ ~task.copy_rdy => FreeSlots(pslots) # {}

(* A task under way is not the one in hand. *)
LEMMA HandApart ==
    ASSUME Base, task.hnd # None
    PROVE  LET P == tasks.list["TASK_PROCESSING"]
           IN  /\ task.hnd \in Hnds
               /\ \A k \in 1 .. Len(P) : P[k] \in Hnds /\ P[k] # task.hnd
               /\ \A j, k \in 1 .. Len(P) : j # k => P[j] # P[k]
<1> DEFINE P == tasks.list["TASK_PROCESSING"]
           L == tasks.list["TASK_IDLE"]
<1>1. /\ P \in Seq(Hnds) /\ L \in Seq(Hnds)
  BY TaskLists DEF Base
<1>2. /\ IsInjective(P) /\ ToSet(P) \cap ToSet(L) = {}
  BY DEF Base, HandlesInv, LinkedOnce, TaskStatuses
<1>3. task.hnd = Head(L) /\ L # <<>>
  BY DEF Base, HandlesInv, HasHnd, GetHnd
<1>4. task.hnd \in Hnds /\ task.hnd \in ToSet(L)
  BY <1>1, <1>3 DEF ToSet
<1>5. \A k \in 1 .. Len(P) : P[k] \in Hnds /\ P[k] \in ToSet(P)
  BY <1>1 DEF ToSet
<1>6. \A j, k \in 1 .. Len(P) : j # k => P[j] # P[k]
  BY <1>1, <1>2 DEF IsInjective
<1> QED BY <1>2, <1>4, <1>5, <1>6

(* At most two tasks are under way while one is in hand. *)
LEMMA TwoUnderWay ==
    ASSUME Base, task.hnd # None
    PROVE  Len(Todo) <= 2
<1> DEFINE P == tasks.list["TASK_PROCESSING"]
<1>1. /\ task.hnd \in Hnds
      /\ \A k \in 1 .. Len(P) : P[k] \in Hnds /\ P[k] # task.hnd
      /\ \A j, k \in 1 .. Len(P) : j # k => P[j] # P[k]
  BY HandApart
<1>2. Hnds \subseteq 1 .. 3
  BY CountAssumption DEF Hnds
<1>3. Len(Todo) = Len(P) /\ Len(P) \in Nat
  BY TaskLists DEF Base
<1> HIDE DEF P
<1>4. ASSUME Len(P) > 2 PROVE FALSE
  <2>1. 1 \in 1 .. Len(P) /\ 2 \in 1 .. Len(P) /\ 3 \in 1 .. Len(P)
    BY <1>3, <1>4
  <2>2. /\ P[1] \in 1 .. 3 /\ P[2] \in 1 .. 3 /\ P[3] \in 1 .. 3 /\ task.hnd \in 1 .. 3
        /\ P[1] # task.hnd /\ P[2] # task.hnd /\ P[3] # task.hnd
    BY <1>1, <1>2, <2>1
  <2>3. P[1] # P[2] /\ P[2] # P[3] /\ P[1] # P[3]
    BY <1>1, <2>1
  <2> QED BY <2>2, <2>3
<1> QED BY <1>3, <1>4

(* Every unread task of the list has its place among the tasks under way. *)
LEMMA UnreadPlaces ==
    ASSUME Base
    PROVE  \E d \in 0 .. 1 :
              /\ Len(Unread) + d = Len(Todo)
              /\ \A k \in 1 .. Len(Unread) : k + d \in 1 .. Len(Todo) /\ Unread[k] = Todo[k + d]
<1>1. /\ Todo \in Seq(TaskInfos) /\ (hal.pc = "done" => Todo # <<>>)
  BY ListsOfType
<1>2. CASE hal.pc = "done"
  <2>1. Len(Tail(Todo)) + 1 = Len(Todo)
    BY <1>1, <1>2
  <2>2. \A k \in 1 .. Len(Tail(Todo)) : k + 1 \in 1 .. Len(Todo) /\ Tail(Todo)[k] = Todo[k + 1]
    BY <1>1, <1>2, SMTT(30)
  <2> QED BY <1>2, <2>1, <2>2 DEF Unread
<1>3. CASE hal.pc # "done"
  <2>1. /\ Len(Todo) + 0 = Len(Todo)
        /\ \A k \in 1 .. Len(Todo) : k + 0 \in 1 .. Len(Todo) /\ Todo[k] = Todo[k + 0]
    BY <1>1
  <2>2. 0 \in 0 .. 1
    OBVIOUS
  <2> QED BY <1>3, <2>1, <2>2 DEF Unread
<1> QED BY <1>2, <1>3

(* There is a packet slot for every task. *)
LEMMA PacketRoom ==
    ASSUME Base, PacketInv
    PROVE  CanCopy
<1> SUFFICES ASSUME task.pc = "copy", ~task.copy_rdy, FreeSlots(pslots) = {} PROVE FALSE
  BY DEF CanCopy
<1> DEFINE M == InputsOf(Unread)
           n == Len(Unread)
<1>1. /\ Unread \in Seq(TaskInfos) /\ n \in Nat
      /\ FastMode \in BOOLEAN
  BY ListsOfType, SessionFacts DEF Base, TypeInv
<1>2. PacketSlots \subseteq pslots.on_used
  BY PacketUsedOK DEF PacketInv, FreeSlots
<1>3. \A x \in PacketSlots : \E k \in 1 .. n : IsDecode(Unread[k]) /\ x = Unread[k].input
  <2>1. \A x \in PacketSlots : \E k \in 1 .. Len(M) : x \in M[k]
    BY <1>2 DEF PacketInv, Parts, InHand
  <2>2. Len(M) = n
    BY <1>1 DEF InputsOf
  <2>3. ASSUME NEW x, NEW k \in 1 .. n, x \in M[k]
        PROVE  IsDecode(Unread[k]) /\ x = Unread[k].input
    BY <2>3 DEF InputsOf
  <2> HIDE DEF M, n
  <2> QED BY <2>1, <2>2, <2>3
<1>4. task.hnd # None
  BY DEF Base, TaskInv, AtWork
<1>5. n <= 2
  <2>1. Len(Todo) <= 2 /\ Len(Todo) \in Nat
    BY <1>4, TwoUnderWay, TaskLists DEF Base
  <2> QED BY <1>1, <2>1, UnreadPlaces
<1>6. 0 \in PacketSlots /\ 1 \in PacketSlots
  BY DEF PacketSlots, PacketCount
<1>7. PICK j \in 1 .. n : IsDecode(Unread[j]) /\ Unread[j].input = 0
  BY <1>3, <1>6
<1>8. PICK k \in 1 .. n : IsDecode(Unread[k]) /\ Unread[k].input = 1
  BY <1>3, <1>6
<1>9. j # k
  BY <1>7, <1>8
<1>10. CASE FastMode
  <2>1. 2 \in PacketSlots
    BY <1>10 DEF PacketSlots, PacketCount
  <2>2. PICK l \in 1 .. n : IsDecode(Unread[l]) /\ Unread[l].input = 2
    BY <1>3, <2>1
  <2>3. l # j /\ l # k
    BY <1>7, <1>8, <2>2
  <2> HIDE DEF n
  <2> QED BY <1>1, <1>5, <1>9, <2>3
<1>11. CASE ~FastMode
  <2>1. PICK d \in 0 .. 1 : \A i \in 1 .. n : i + d \in 1 .. Len(Todo) /\ Unread[i] = Todo[i + d]
    BY UnreadPlaces
  <2>2. IsDecode(Todo[j + d]) /\ IsDecode(Todo[k + d]) /\ j + d # k + d
    BY <1>7, <1>8, <1>9, <2>1
  <2>3. j + d \in 1 .. Len(Todo) /\ k + d \in 1 .. Len(Todo)
    BY <2>1
  <2> QED BY <1>11, <2>2, <2>3 DEF Base, PrevInv
<1> QED BY <1>1, <1>10, <1>11

(* The sets the shares are drawn from. *)
AnyInput == 0 .. 2 \cup {NoSlot}

(* The slot of the task in hand is one of them. *)
LEMMA InHandType ==
    ASSUME Base
    PROVE  InHand \in SUBSET AnyInput /\ InputsOf(Unread) \in Seq(SUBSET AnyInput)
           /\ Unread \in Seq(TaskInfos)
<1>1. task.info.input \in AnyInput
  BY DEF Base, TypeInv, DecTasks, TaskInfos, AnyInput
<1>2. InputsOf(Unread) \in Seq(SUBSET AnyInput) /\ Unread \in Seq(TaskInfos)
  BY ListsOfType, SlotsOfType DEF AnyInput
<1> QED BY <1>1, <1>2 DEF InHand

(* The packet slots are as many after a step. *)
LEMMA PacketSlotsKept ==
    ASSUME session' = session
    PROVE  PacketSlots' = PacketSlots
BY DEF PacketSlots, PacketCount, FastMode

(* A step that marks no packet slot. *)
LEMMA PacketAside ==
    ASSUME Base, PacketInv, Aside
    PROVE  PacketInv'
<1>1. PacketSlots' = PacketSlots /\ pslots' = pslots
  BY PacketSlotsKept DEF Aside
<1>2. InHand' = InHand
  BY DEF Aside, MarksKept, InHand
<1>3. Parts(InputsOf(Unread)', InHand, pslots.on_used)
  BY InHandType, PartsPlain DEF Aside, PacketInv
<1> QED BY <1>1, <1>2, <1>3 DEF PacketInv

(* A packet is taken. *)
LEMMA PacketTakenStep ==
    ASSUME Base, PacketInv, Taken
    PROVE  PacketInv'
<1>1. PacketSlots' = PacketSlots /\ pslots' = pslots /\ Unread' = Unread
  BY PacketSlotsKept DEF Taken, Elsewhere, ListsKept
<1>2. InHand' = InHand
  BY DEF Taken, InHand
<1> QED BY <1>1, <1>2 DEF PacketInv

(* The stream of the packet in hand is copied. *)
LEMMA PacketCopied ==
    ASSUME Base, PacketInv, NEW i, Copied(i)
    PROVE  PacketInv' /\ i \in 0 .. 2
<1>1. PacketSlots' = PacketSlots /\ Unread' = Unread
  BY PacketSlotsKept DEF Copied, Elsewhere, ListsKept
<1>2. InHand = {} /\ InHand' = {i}
  BY DEF Copied, InHand
<1>3. PacketCount \in Nat /\ PacketCount <= 3
  BY DEF PacketCount
<1>4. /\ PacketPool(pslots', PacketSlots) /\ i \notin pslots.on_used /\ i \in PacketSlots
      /\ pslots'.on_used = pslots.on_used \cup {i}
  <2>1. FreeSlots(pslots) # {}
    BY PacketRoom DEF CanCopy, Copied
  <2>2. PacketPool(pslots, 0 .. PacketCount - 1)
    BY DEF PacketInv, PacketSlots
  <2>3. /\ i = FirstUnused(pslots)
        /\ pslots' = SetFlag(SetFlag(GetUnused(pslots), i, "CODEC_READY"), i, "HAL_INPUT")
    BY DEF Copied
  <2> QED BY <1>3, <2>1, <2>2, <2>3, PacketTaken DEF PacketSlots
<1>5. Parts(InputsOf(Unread), {i}, pslots.on_used \cup {i})
  BY <1>2, <1>4, PartsTake DEF PacketInv
<1> QED BY <1>1, <1>2, <1>3, <1>4, <1>5 DEF PacketInv, PacketSlots

(* It is parsed. *)
LEMMA PacketParsed ==
    ASSUME Base, PacketInv, NEW i, ParsedTo(i)
    PROVE  PacketInv'
<1>1. PacketSlots' = PacketSlots /\ pslots' = pslots /\ Unread' = Unread
  BY PacketSlotsKept DEF ParsedTo, Elsewhere, ListsKept
<1>2. InHand' = InHand
  BY DEF ParsedTo, InHand
<1> QED BY <1>1, <1>2 DEF PacketInv

(* The task in hand is handed over. *)
LEMMA PacketStarted ==
    ASSUME Base, PacketInv, Started
    PROVE  PacketInv'
<1>1. PacketSlots' = PacketSlots /\ pslots' = pslots
  BY PacketSlotsKept DEF Started, Elsewhere
<1>2. InHand = {task.info.input} /\ InHand' = {}
  BY DEF Started, NoneInHand, InHand
<1>3. PICK info \in TaskInfos : /\ IsDecode(info) /\ info.input = task.info.input
                                /\ Unread' = Append(Unread, info)
  BY DEF Started
<1>4. InputsOf(Unread)' = Append(InputsOf(Unread), InHand)
  BY <1>2, <1>3, InHandType, SlotsAppended
<1>5. Parts(InputsOf(Unread)', {}, pslots.on_used)
  BY <1>4, InHandType, PartsMove DEF PacketInv
<1> QED BY <1>1, <1>2, <1>5 DEF PacketInv

(* The slot of the task in hand is in use. *)
LEMMA InHandUsed ==
    ASSUME PacketInv, task.copy_rdy
    PROVE  InHand = {task.info.input} /\ task.info.input \in pslots.on_used
BY DEF PacketInv, Parts, InHand

(* The packet in hand is dropped. *)
LEMMA PacketRefused ==
    ASSUME Base, PacketInv, Refused
    PROVE  PacketInv'
<1>1. PacketSlots' = PacketSlots /\ InHand' = {}
  BY PacketSlotsKept DEF Refused, Elsewhere, NoneInHand, InHand
<1>2. InHand = {task.info.input} /\ task.info.input \in pslots.on_used
  BY InHandUsed DEF Refused
<1>3. /\ PacketPool(pslots', PacketSlots)
      /\ pslots'.on_used = pslots.on_used \ {task.info.input}
  BY <1>2, PacketReleased DEF PacketInv, Refused
<1>4. Parts(InputsOf(Unread), {}, pslots'.on_used)
  BY <1>2, <1>3, PartsDrop DEF PacketInv
<1>5. Parts(InputsOf(Unread)', {}, pslots'.on_used)
  BY <1>4, InHandType, PartsPlain DEF Refused
<1> QED BY <1>1, <1>3, <1>5 DEF PacketInv

(* A reset drops the task in hand. *)
LEMMA PacketAbandoned ==
    ASSUME Base, PacketInv, Abandoned
    PROVE  PacketInv'
<1>1. PacketSlots' = PacketSlots /\ InHand' = {} /\ Unread' = Unread
  BY PacketSlotsKept DEF Abandoned, Elsewhere, NoneInHand, InHand
<1>2. CASE task.copy_rdy
  <2>1. InHand = {task.info.input} /\ task.info.input \in pslots.on_used
    BY <1>2, InHandUsed
  <2>2. /\ PacketPool(pslots', PacketSlots)
        /\ pslots'.on_used = pslots.on_used \ {task.info.input}
    BY <1>2, <2>1, PacketReleased DEF PacketInv, Abandoned, DropCopied
  <2>3. Parts(InputsOf(Unread), {}, pslots'.on_used)
    BY <2>1, <2>2, PartsDrop DEF PacketInv
  <2> QED BY <1>1, <2>2, <2>3 DEF PacketInv
<1>3. CASE ~task.copy_rdy
  <2>1. InHand = {} /\ pslots' = pslots
    BY <1>3 DEF InHand, Abandoned, DropCopied
  <2> QED BY <1>1, <2>1 DEF PacketInv
<1> QED BY <1>2, <1>3

(* The hardware has read the first packet. *)
LEMMA PacketWasRead ==
    ASSUME Base, PacketInv, WasRead
    PROVE  PacketInv'
<1>1. PacketSlots' = PacketSlots /\ InHand' = InHand
  BY PacketSlotsKept DEF WasRead, MarksKept, InHand
<1> DEFINE i == Unread[1].input
<1>2. /\ InputsOf(Unread)' = Tail(InputsOf(Unread)) /\ InputsOf(Unread) # <<>>
      /\ InputsOf(Unread)[1] = {i}
  BY InHandType, SlotsShortened DEF WasRead
<1>3. i \in pslots.on_used
  <2>1. 1 \in 1 .. Len(InputsOf(Unread))
    BY <1>2, InHandType
  <2> QED BY <1>2, <2>1 DEF PacketInv, Parts
<1>4. PacketPool(pslots', PacketSlots) /\ pslots'.on_used = pslots.on_used \ {i}
  BY <1>3, PacketReleased DEF PacketInv, WasRead
<1>5. Parts(InputsOf(Unread)', InHand, pslots'.on_used)
  BY <1>2, <1>4, InHandType, PartsTail DEF PacketInv
<1> QED BY <1>1, <1>4, <1>5 DEF PacketInv

(* The marks of the first picture are cleared. *)
LEMMA PacketWasCleared ==
    ASSUME Base, PacketInv, WasCleared
    PROVE  PacketInv'
<1>1. PacketSlots' = PacketSlots /\ pslots' = pslots /\ Unread' = Unread
  BY PacketSlotsKept DEF WasCleared
<1>2. InHand' = InHand
  BY DEF WasCleared, MarksKept, InHand
<1> QED BY <1>1, <1>2 DEF PacketInv

(* The parser thread ends. *)
LEMMA PacketEnded ==
    ASSUME Base, PacketInv, Ended
    PROVE  PacketInv'
<1>1. PacketSlots' = PacketSlots /\ Unread' = Unread /\ InHand' = InHand
  BY PacketSlotsKept DEF Ended, Elsewhere, ListsKept, MarksKept, InHand
<1>2. task.info.input \in pslots.on_used
  BY InHandUsed DEF Ended
<1>3. PacketPool(pslots', PacketSlots) /\ pslots'.on_used = pslots.on_used
  BY <1>2, PacketMarkedTwice DEF PacketInv, Ended
<1> QED BY <1>1, <1>3 DEF PacketInv

(* Every packet slot in use stays the input of one task. *)
LEMMA PacketStep ==
    ASSUME Base, PacketInv, Kinds
    PROVE  PacketInv'
BY PacketAside, PacketTakenStep, PacketCopied, PacketParsed, PacketStarted, PacketRefused,
   PacketAbandoned, PacketWasRead, PacketWasCleared, PacketEnded DEF Kinds

(* The first state. *)
LEMMA PacketFirst ==
    ASSUME Init
    PROVE  PacketInv
<1>1. Unread = <<>>
  <2>1. Base
    BY BaseInit
  <2>2. tasks.list["TASK_PROCESSING"] = <<>> /\ hal.pc = "check"
    BY DEF Init, GroupInit, TaskStatuses
  <2>3. Len(Todo) = 0 /\ Todo \in Seq(TaskInfos)
    BY <2>1, <2>2, TaskLists DEF Base
  <2> QED BY <2>2, <2>3 DEF Unread
<1>2. PacketCount \in Nat /\ None \in NoInfos
  BY DEF PacketCount, NoInfos
<1>3. pslots = SlotsInit(PacketCount) /\ ~task.copy_rdy
  BY DEF Init, PacketCount, NewTask
<1>4. /\ pslots \in PoolType(PacketSlots, NoFrames, NoInfos) /\ pslots.on_used = {}
      /\ pslots.not_ready = {} /\ pslots.codec_use = {} /\ pslots.hal_output = {}
      /\ \A i \in PacketSlots : pslots.hal_use[i] = 0 /\ pslots.queue_use[i] = 0
  <2>1. pslots \in PoolType(PacketSlots, NoFrames, NoInfos)
    BY <1>2, <1>3, SlotsInitFacts DEF PacketSlots
  <2>2. /\ pslots.on_used = {} /\ pslots.not_ready = {} /\ pslots.codec_use = {}
        /\ pslots.hal_output = {}
        /\ \A i \in PacketSlots : pslots.hal_use[i] = 0 /\ pslots.queue_use[i] = 0
    BY <1>3 DEF SlotsInit, PacketSlots
  <2> QED BY <2>1, <2>2
<1>5. Parts(InputsOf(Unread), InHand, {})
  <2>1. InputsOf(<<>>) = <<>> /\ InHand = {}
    BY <1>3 DEF InputsOf, InHand
  <2> QED BY <1>1, <2>1 DEF Parts
<1> QED BY <1>4, <1>5 DEF PacketInv, PacketPool

(* A frame of the stream. *)
Frames == [pts : Nat, info : Geometries]

(* The slots a task under way, or in hand, refers to. *)
Referred(p) == {i \in FrameSlots : p.hal_use[i] = 1}

(* The frame slots between two steps of the threads: no mark but those of  *)
(* h263d_parse, and the slots that wait for a picture are queued for       *)
(* display.                                                                *)
FramePool(p) ==
    /\ p \in PoolType(FrameSlots, Frames, Geometries)
    /\ UsedOK(p) /\ CountCovers(p)
    /\ p.hal_output = p.not_ready
    /\ \A i \in FrameSlots : p.hal_use[i] \in {0, 1}
    /\ \A i \in FrameSlots :
          p.queue_use[i] = IF i \in ToSet(DisplayQueue(p)) THEN 2 ELSE 0
    /\ IsInjective(DisplayQueue(p))
    /\ p.queue["QUEUE_DEINTERLACE"] = <<>>
    /\ p.not_ready \subseteq ToSet(DisplayQueue(p))
    /\ \A i \in p.on_used : p.frame[i] # None

(* The marks of the pool: the codec's, of the slots that wait for their    *)
(* picture, of those referred to, and the display queue.                   *)
Marks(p, c, n, r, d) ==
    p.codec_use = c /\ p.not_ready = n /\ Referred(p) = r /\ DisplayQueue(p) = d

(* Slots may have been released between p and q, and nothing else. *)
Later(p, q) ==
    /\ q.on_used \subseteq p.on_used /\ q.used_count <= p.used_count
    /\ \A i \in q.on_used : q.frame[i] = p.frame[i]
    /\ q.info = p.info /\ q.info_set = p.info_set /\ q.info_changed = p.info_changed

(* What a pool of frame slots has. *)
LEMMA FrameFields ==
    ASSUME NEW p, FramePool(p)
    PROVE  /\ p \in PoolType(FrameSlots, Frames, Geometries) /\ Slots(p) = FrameSlots
           /\ p.on_used \subseteq FrameSlots /\ p.not_ready \subseteq FrameSlots
           /\ p.codec_use \subseteq FrameSlots
           /\ p.hal_use \in [FrameSlots -> 0 .. 255]
           /\ p.queue_use \in [FrameSlots -> 0 .. 31]
           /\ p.queue \in [QueueTypes -> Seq(FrameSlots)]
           /\ DisplayQueue(p) \in Seq(FrameSlots) /\ p.used_count \in Int
           /\ \A i \in FrameSlots :
                 \/ i \in p.codec_use \/ i \in p.not_ready \/ i \in Referred(p)
                 \/ i \in ToSet(DisplayQueue(p))
                 => i \in p.on_used
<1>1. p \in PoolType(FrameSlots, Frames, Geometries)
  BY DEF FramePool
<1>2. /\ Slots(p) = FrameSlots
      /\ p.on_used \subseteq FrameSlots /\ p.not_ready \subseteq FrameSlots
      /\ p.codec_use \subseteq FrameSlots
      /\ p.hal_use \in [FrameSlots -> 0 .. 255]
      /\ p.queue_use \in [FrameSlots -> 0 .. 31]
      /\ p.queue \in [QueueTypes -> Seq(FrameSlots)]
      /\ p.used_count \in Int
  <2>1. /\ p.on_used \subseteq FrameSlots /\ p.not_ready \subseteq FrameSlots
        /\ p.codec_use \subseteq FrameSlots /\ Slots(p) = FrameSlots
        /\ p.used_count \in Int
    BY <1>1, PoolFields
  <2>2. p.hal_use \in [FrameSlots -> 0 .. 255]
    BY <1>1, PoolFields, ZenonT(60)
  <2>4. p.queue_use \in [FrameSlots -> 0 .. 31]
    BY <1>1, PoolFields
  <2>3. p.queue \in [QueueTypes -> Seq(FrameSlots)]
    BY <1>1, PoolFields
  <2> QED BY <2>1, <2>2, <2>3, <2>4
<1>3. DisplayQueue(p) \in Seq(FrameSlots)
  BY <1>2 DEF DisplayQueue, QueueTypes
<1>4. ASSUME NEW i \in FrameSlots,
             \/ i \in p.codec_use \/ i \in p.not_ready \/ i \in Referred(p)
             \/ i \in ToSet(DisplayQueue(p))
      PROVE  i \in p.on_used
  BY <1>2, <1>4 DEF FramePool, UsedOK, Idle, Referred
<1> QED BY <1>1, <1>2, <1>3, <1>4

(* Releases add up. *)
LEMMA LaterTrans ==
    ASSUME NEW p, NEW q, NEW r, Later(p, q), Later(q, r),
           p.used_count \in Int, q.used_count \in Int, r.used_count \in Int
    PROVE  Later(p, r)
<1>1. r.used_count <= p.used_count
  BY DEF Later
<1> QED BY <1>1 DEF Later

(* A mark of slot i was cleared. *)
LEMMA ReleasedLater ==
    ASSUME NEW p, NEW q, NEW i, NEW D, FramePool(p), AtMostLeaves(p, q, i),
           OnlyChanges(p, q, D \cup UsageFields), q.used_count <= p.used_count,
           "info" \notin D, "info_set" \notin D, "info_changed" \notin D
    PROVE  Later(p, q) /\ \A j \in q.on_used : q.frame[j] # None
<1>1. /\ q.info = p.info /\ q.info_set = p.info_set /\ q.info_changed = p.info_changed
  BY DEF OnlyChanges, Fields, UsageFields
<1>2. Slots(p) = FrameSlots /\ p.on_used \subseteq FrameSlots
  BY FrameFields
<1>3. q.on_used \subseteq p.on_used
  BY DEF AtMostLeaves
<1>4. \A j \in q.on_used : q.frame[j] = p.frame[j]
  BY <1>2, <1>3 DEF AtMostLeaves
<1>5. \A j \in q.on_used : q.frame[j] # None
  BY <1>3, <1>4 DEF FramePool
<1> QED BY <1>1, <1>3, <1>4, <1>5 DEF Later

(* The codec lets a picture go. *)
LEMMA FrameClrCodec ==
    ASSUME NEW p, FramePool(p), NEW i \in p.codec_use, NEW q, q = ClrFlag(p, i, "CODEC_USE")
    PROVE  /\ FramePool(q) /\ Later(p, q)
           /\ Marks(q, p.codec_use \ {i}, p.not_ready, Referred(p), DisplayQueue(p))
<1>1. /\ p \in PoolType(FrameSlots, Frames, Geometries) /\ i \in FrameSlots /\ i \in p.on_used
  BY FrameFields
<1>2. /\ q \in PoolType(FrameSlots, Frames, Geometries) /\ Accounted(p, q)
      /\ OnlyChanges(p, q, {"codec_use"} \cup UsageFields)
      /\ AtMostLeaves(p, q, i) /\ q.used_count <= p.used_count
  BY <1>1, ClrCodecUse, Zenon
<1>3. q.codec_use = p.codec_use \ {i}
  BY <1>1, ClrCodecUse
<1>4. UsedOK(q) /\ CountCovers(q)
  BY <1>2 DEF FramePool, Accounted
<1>5. /\ q.not_ready = p.not_ready /\ q.hal_output = p.hal_output /\ q.hal_use = p.hal_use
      /\ q.queue_use = p.queue_use /\ q.queue = p.queue
  BY <1>2 DEF OnlyChanges, Fields, UsageFields
<1>6. Later(p, q) /\ \A j \in q.on_used : q.frame[j] # None
  BY <1>2, ReleasedLater
<1>7. Referred(q) = Referred(p) /\ DisplayQueue(q) = DisplayQueue(p)
  BY <1>5 DEF Referred, DisplayQueue
<1>8. FramePool(q)
  BY <1>2, <1>4, <1>5, <1>6, <1>7 DEF FramePool
<1> QED BY <1>3, <1>5, <1>6, <1>7, <1>8 DEF Marks

(* A picture that was referred to is not any more. *)
LEMMA FrameClrInput ==
    ASSUME NEW p, FramePool(p), NEW i \in Referred(p), NEW q, q = ClrFlag(p, i, "HAL_INPUT")
    PROVE  /\ FramePool(q) /\ Later(p, q)
           /\ Marks(q, p.codec_use, p.not_ready, Referred(p) \ {i}, DisplayQueue(p))
<1>1. /\ p \in PoolType(FrameSlots, Frames, Geometries) /\ i \in FrameSlots /\ i \in p.on_used
      /\ p.hal_use[i] = 1
  BY FrameFields DEF Referred
<1>2. p.hal_use[i] > 0
  BY <1>1
<1>3. /\ q \in PoolType(FrameSlots, Frames, Geometries) /\ Accounted(p, q)
      /\ OnlyChanges(p, q, {"hal_use"} \cup UsageFields)
      /\ AtMostLeaves(p, q, i) /\ q.used_count <= p.used_count
      /\ \A j \in FrameSlots :
            q.hal_use[j] = IF j = i THEN p.hal_use[j] - 1 ELSE p.hal_use[j]
  <2>1. /\ q \in PoolType(FrameSlots, Frames, Geometries) /\ Accounted(p, q)
        /\ OnlyChanges(p, q, {"hal_use"} \cup UsageFields)
        /\ AtMostLeaves(p, q, i) /\ q.used_count <= p.used_count
    BY <1>1, <1>2, ClrHalInput, Zenon
  <2>2. \A j \in FrameSlots :
            q.hal_use[j] = IF j = i THEN p.hal_use[j] - 1 ELSE p.hal_use[j]
    BY <1>1, <1>2, InputCleared
  <2> QED BY <2>1, <2>2
<1>4. UsedOK(q) /\ CountCovers(q)
  BY <1>3 DEF FramePool, Accounted
<1>5. /\ q.not_ready = p.not_ready /\ q.hal_output = p.hal_output
      /\ q.codec_use = p.codec_use
      /\ q.queue_use = p.queue_use /\ q.queue = p.queue
  BY <1>3 DEF OnlyChanges, Fields, UsageFields
<1>6. Later(p, q) /\ \A j \in q.on_used : q.frame[j] # None
  BY <1>3, ReleasedLater
<1>7. \A j \in FrameSlots : q.hal_use[j] = IF j = i THEN 0 ELSE p.hal_use[j]
  BY <1>1, <1>3
<1>8. Referred(q) = Referred(p) \ {i} /\ DisplayQueue(q) = DisplayQueue(p)
  BY <1>5, <1>7 DEF Referred, DisplayQueue
<1>9. FramePool(q)
  BY <1>3, <1>4, <1>5, <1>6, <1>7, <1>8 DEF FramePool
<1> QED BY <1>5, <1>6, <1>8, <1>9 DEF Marks

(* The picture of a task is decoded, or given up. *)
LEMMA FrameClrOutput ==
    ASSUME NEW p, FramePool(p), NEW i \in p.not_ready, NEW q, q = ClrFlag(p, i, "HAL_OUTPUT")
    PROVE  /\ FramePool(q) /\ Later(p, q)
           /\ Marks(q, p.codec_use, p.not_ready \ {i}, Referred(p), DisplayQueue(p))
<1>1. /\ p \in PoolType(FrameSlots, Frames, Geometries) /\ i \in FrameSlots /\ i \in p.on_used
  BY FrameFields
<1>2. /\ q \in PoolType(FrameSlots, Frames, Geometries) /\ Accounted(p, q)
      /\ OnlyChanges(p, q, {"hal_output", "not_ready"} \cup UsageFields)
      /\ AtMostLeaves(p, q, i) /\ q.used_count <= p.used_count
  BY <1>1, ClrHalOutput, ZenonT(60)
<1>3. q.hal_output = p.hal_output \ {i} /\ q.not_ready = p.not_ready \ {i}
  BY <1>1, ClrHalOutput
<1>4. UsedOK(q) /\ CountCovers(q)
  BY <1>2 DEF FramePool, Accounted
<1>5. /\ q.codec_use = p.codec_use /\ q.hal_use = p.hal_use
      /\ q.queue_use = p.queue_use /\ q.queue = p.queue
  BY <1>2 DEF OnlyChanges, Fields, UsageFields
<1>6. Later(p, q) /\ \A j \in q.on_used : q.frame[j] # None
  BY <1>2, ReleasedLater
<1>7. Referred(q) = Referred(p) /\ DisplayQueue(q) = DisplayQueue(p)
  BY <1>5 DEF Referred, DisplayQueue
<1>8. FramePool(q)
  BY <1>2, <1>3, <1>4, <1>5, <1>6, <1>7 DEF FramePool
<1> QED BY <1>3, <1>5, <1>6, <1>7, <1>8 DEF Marks

-----------------------------------------------------------------------------
(* The head of an injective list is not in the rest. *)
LEMMA HeadApart ==
    ASSUME NEW S, NEW D \in Seq(S), D # <<>>, IsInjective(D)
    PROVE  /\ Head(D) \in S /\ Head(D) = D[1] /\ Head(D) \in ToSet(D)
           /\ Tail(D) \in Seq(S) /\ IsInjective(Tail(D))
           /\ ToSet(Tail(D)) = ToSet(D) \ {Head(D)}
<1> DEFINE N == Tail(D)
<1>1. /\ N \in Seq(S) /\ 1 \in 1 .. Len(D) /\ Head(D) = D[1] /\ D[1] \in S
      /\ \A k \in 1 .. Len(N) : N[k] = D[k + 1] /\ k + 1 \in 1 .. Len(D) /\ k + 1 # 1
      /\ \A k \in 1 .. Len(D) : k # 1 => k - 1 \in 1 .. Len(N) /\ N[k - 1] = D[k]
      /\ \A j, k \in 1 .. Len(N) : j # k => j + 1 # k + 1
  BY Shortened
<1> HIDE DEF N
<1>2. DOMAIN D = 1 .. Len(D) /\ DOMAIN N = 1 .. Len(N)
  BY <1>1
<1>3. \A j, k \in 1 .. Len(D) : D[j] = D[k] => j = k
  BY <1>2 DEF IsInjective
<1>4. IsInjective(N)
  BY <1>1, <1>2, <1>3 DEF IsInjective
<1>5. ToSet(D) = {D[k] : k \in 1 .. Len(D)} /\ ToSet(N) = {N[k] : k \in 1 .. Len(N)}
  BY <1>2 DEF ToSet
<1>6. ToSet(N) \subseteq ToSet(D) \ {Head(D)}
  BY <1>1, <1>3, <1>5
<1>7. ToSet(D) \ {Head(D)} \subseteq ToSet(N)
  BY <1>1, <1>5
<1> QED BY <1>1, <1>4, <1>5, <1>6, <1>7 DEF N

(* A picture is shown. *)
LEMMA FrameShow ==
    ASSUME NEW p, FramePool(p), DisplayQueue(p) # <<>>, NEW i, i = Head(DisplayQueue(p)),
           i \notin p.not_ready, NEW q, q = Show(p, i)
    PROVE  /\ FramePool(q) /\ Later(p, q)
           /\ Marks(q, p.codec_use, p.not_ready, Referred(p), Tail(DisplayQueue(p)))
<1> DEFINE D == DisplayQueue(p)
           r == Dequeue(p, "QUEUE_DISPLAY")
<1>1. /\ p \in PoolType(FrameSlots, Frames, Geometries) /\ D \in Seq(FrameSlots)
      /\ p.queue \in [QueueTypes -> Seq(FrameSlots)]
      /\ p.queue_use \in [FrameSlots -> 0 .. 31]
      /\ Slots(p) = FrameSlots
  BY FrameFields
<1>2. /\ i \in FrameSlots /\ i \in ToSet(D)
      /\ IsInjective(Tail(D)) /\ ToSet(Tail(D)) = ToSet(D) \ {i}
  BY <1>1, HeadApart DEF FramePool
<1>3. i \in p.on_used /\ p.queue_use[i] = 2
  BY <1>2, FrameFields DEF FramePool
<1>4. /\ "QUEUE_DISPLAY" \in QueueTypes /\ p.queue["QUEUE_DISPLAY"] # <<>>
      /\ i = Head(p.queue["QUEUE_DISPLAY"]) /\ p.queue_use[i] > 1
  BY <1>3 DEF QueueTypes, DisplayQueue
<1>5. /\ r \in PoolType(FrameSlots, Frames, Geometries)
      /\ OnlyChanges(p, r, {"queue_use", "queue"}) /\ Accounted(p, r)
      /\ Unqueued(p, r, "QUEUE_DISPLAY", i)
  BY <1>1, <1>2, <1>3, <1>4, DequeueFacts, Zenon
<1>6. /\ \A j \in FrameSlots : r.queue_use[j] = IF j = i THEN 1 ELSE p.queue_use[j]
      /\ r.queue = [p.queue EXCEPT !["QUEUE_DISPLAY"] = Tail(p.queue["QUEUE_DISPLAY"])]
  BY <1>1, <1>3, <1>5 DEF Unqueued
<1>7. q = ClrFlag(r, i, "QUEUE_USE")
  BY DEF Show
<1> HIDE DEF r
<1>8. /\ r.not_ready = p.not_ready /\ r.hal_output = p.hal_output /\ r.hal_use = p.hal_use
      /\ r.codec_use = p.codec_use /\ r.on_used = p.on_used /\ r.frame = p.frame
      /\ r.used_count = p.used_count
      /\ r.info = p.info /\ r.info_set = p.info_set /\ r.info_changed = p.info_changed
  BY <1>5 DEF OnlyChanges, Fields
<1>9. i \in r.on_used /\ r.queue_use[i] > 0 /\ r.queue_use[i] = 1
  BY <1>2, <1>3, <1>6, <1>8
<1>10. /\ q \in PoolType(FrameSlots, Frames, Geometries) /\ Accounted(r, q)
       /\ OnlyChanges(r, q, {"queue_use"} \cup UsageFields)
       /\ AtMostLeaves(r, q, i) /\ q.used_count <= r.used_count
  BY <1>2, <1>5, <1>7, <1>9, ClrQueueUse, Zenon
<1>11. q.queue_use = [r.queue_use EXCEPT ![i] = r.queue_use[i] - 1]
  BY <1>2, <1>5, <1>7, <1>9, ClrQueueUse, SMTT(30)
<1>12. UsedOK(q) /\ CountCovers(q)
  BY <1>5, <1>10 DEF FramePool, Accounted
<1>13. /\ q.not_ready = p.not_ready /\ q.hal_output = p.hal_output /\ q.hal_use = p.hal_use
       /\ q.codec_use = p.codec_use /\ q.queue = r.queue
       /\ q.info = p.info /\ q.info_set = p.info_set /\ q.info_changed = p.info_changed
  BY <1>8, <1>10 DEF OnlyChanges, Fields, UsageFields
<1>14. /\ DisplayQueue(q) = Tail(D) /\ q.queue["QUEUE_DEINTERLACE"] = <<>>
       /\ Referred(q) = Referred(p)
  BY <1>1, <1>6, <1>13, ZenonT(60) DEF DisplayQueue, FramePool, Referred, QueueTypes
<1>15. \A j \in FrameSlots : q.queue_use[j] = IF j \in ToSet(Tail(D)) THEN 2 ELSE 0
  <2>1. r.queue_use \in [FrameSlots -> 0 .. 31]
    BY <1>5, PoolFields
  <2>2. \A j \in FrameSlots : q.queue_use[j] = IF j = i THEN 0 ELSE p.queue_use[j]
    BY <1>2, <1>6, <1>9, <1>11, <2>1
  <2> QED BY <1>2, <2>2 DEF FramePool
<1>16. Slots(r) = FrameSlots
  BY <1>5, PoolFields
<1>17. /\ q.on_used \subseteq p.on_used /\ \A j \in q.on_used : q.frame[j] = p.frame[j]
  <2>1. q.on_used \subseteq r.on_used
    BY <1>10 DEF AtMostLeaves
  <2>2. p.on_used \subseteq FrameSlots
    BY FrameFields
  <2> QED BY <1>8, <1>10, <1>16, <2>1, <2>2 DEF AtMostLeaves
<1>18. Later(p, q)
  BY <1>8, <1>10, <1>13, <1>17 DEF Later
<1>19. \A j \in q.on_used : q.frame[j] # None
  BY <1>17 DEF FramePool
<1>20. p.not_ready \subseteq ToSet(Tail(D))
  BY <1>2 DEF FramePool
<1> HIDE DEF D
<1>21. FramePool(q)
  BY <1>2, <1>10, <1>12, <1>13, <1>14, <1>15, <1>19, <1>20 DEF FramePool
<1> QED BY <1>13, <1>14, <1>18, <1>21 DEF Marks, D

(* The rest of a list, from its k-th element on. *)
LEMMA RestFacts ==
    ASSUME NEW S, NEW D \in Seq(S), NEW k \in 1 .. Len(D)
    PROVE  LET E == SubSeq(D, k, Len(D))
           IN  /\ E \in Seq(S) /\ E # <<>> /\ Head(E) = D[k]
               /\ Tail(E) = SubSeq(D, k + 1, Len(D))
<1> DEFINE E == SubSeq(D, k, Len(D))
           N == SubSeq(D, k + 1, Len(D))
           n == Len(D)
<1>1. n \in Nat /\ k \in Nat /\ k <= n
  OBVIOUS
<1>2. /\ E \in Seq(S) /\ Len(E) = n - k + 1 /\ \A j \in 1 .. n - k + 1 : E[j] = D[k + j - 1]
  <2>1. \A j \in 1 .. n - k + 1 : k + j - 1 \in 1 .. n
    BY <1>1
  <2> QED BY <1>1, <2>1
<1>3. /\ N \in Seq(S) /\ Len(N) = n - k /\ \A j \in 1 .. n - k : N[j] = D[k + j]
  <2>1. \A j \in 1 .. n - k : k + 1 + j - 1 = k + j
    BY <1>1
  <2> QED BY <1>1, <2>1
<1> HIDE DEF E, N
<1>4. E # <<>> /\ Head(E) = D[k]
  BY <1>1, <1>2
<1>5. Tail(E) \in Seq(S) /\ Len(Tail(E)) = n - k
  BY <1>1, <1>2, <1>4
<1>6. ASSUME NEW j \in 1 .. n - k PROVE Tail(E)[j] = N[j]
  <2>1. j + 1 \in 1 .. n - k + 1 /\ k + (j + 1) - 1 = k + j
    BY <1>1
  <2>2. Tail(E)[j] = E[j + 1]
    BY <1>1, <1>2, <1>4
  <2>3. E[j + 1] = D[k + (j + 1) - 1]
    BY <1>2, <2>1
  <2>4. N[j] = D[k + j]
    BY <1>3
  <2>5. D[k + (j + 1) - 1] = D[k + j]
    BY <2>1
  <2> QED BY <2>2, <2>3, <2>4, <2>5
<1>7. Tail(E) = N
  <2> DEFINE U == Tail(E)
  <2>1. U \in Seq(S) /\ Len(U) = n - k /\ N \in Seq(S) /\ Len(N) = n - k
    BY <1>3, <1>5
  <2>2. \A j \in 1 .. n - k : U[j] = N[j]
    BY <1>6
  <2> HIDE DEF U, n
  <2>3. U = N
    BY <2>1, <2>2
  <2> QED BY <2>3 DEF U
<1> QED BY <1>2, <1>4, <1>7 DEF E, N

(* All is shown up to the first slot that waits for its picture. *)
LEMMA FrameDrained ==
    ASSUME NEW p, FramePool(p), NEW q, q = Drained(p)
    PROVE  /\ FramePool(q) /\ Later(p, q)
           /\ Marks(q, p.codec_use, p.not_ready, Referred(p),
                    SubSeq(DisplayQueue(p), Len(Displayed(p)) + 1, Len(DisplayQueue(p))))
<1> DEFINE D == DisplayQueue(p)
           d == Displayed(p)
           m == Len(d)
           Rest(k) == SubSeq(D, k + 1, Len(D))
<1>1. D \in Seq(FrameSlots) /\ Len(D) \in Nat
  BY FrameFields
<1>2. /\ d \in Seq(FrameSlots) /\ m \in 0 .. Len(D) /\ m \in Nat
      /\ \A k \in 1 .. m : k \in 1 .. Len(D) /\ d[k] = D[k] /\ D[k] \notin p.not_ready
  BY <1>1, DisplayedFacts
<1>3. PICK c : /\ c[0] = p
               /\ \A k \in 1 .. m : c[k] = Show(c[k - 1], d[k])
               /\ ShowAll(p, d) = c[m]
  BY <1>2, ShowChain
<1>4. q = c[m]
  BY <1>3, DrainedFold
<1> DEFINE Ok(k) == /\ FramePool(c[k]) /\ Later(p, c[k])
                    /\ Marks(c[k], p.codec_use, p.not_ready, Referred(p), Rest(k))
           T == {k \in 0 .. m : Ok(k)}
<1>5. 0 \in T
  <2>1. Rest(0) = D
    BY <1>1
  <2>2. p.used_count <= p.used_count
    BY FrameFields
  <2>3. Later(p, p) /\ Marks(p, p.codec_use, p.not_ready, Referred(p), D)
    BY <2>2 DEF Later, Marks
  <2> HIDE DEF D, Rest
  <2>4. Ok(0)
    BY <1>3, <2>1, <2>3
  <2> QED BY <1>2, <2>4
<1>6. ASSUME NEW k \in 0 .. m - 1, k \in T PROVE k + 1 \in T
  <2>1. Ok(k)
    BY <1>6
  <2>2. /\ k + 1 \in 1 .. m /\ k + 1 \in 0 .. m /\ (k + 1) - 1 = k /\ k \in Nat
        /\ k + 1 \in 1 .. Len(D)
    BY <1>1, <1>2
  <2>3. /\ Rest(k) # <<>> /\ Head(Rest(k)) = D[k + 1] /\ Tail(Rest(k)) = Rest(k + 1)
    BY <1>1, <2>2, RestFacts
  <2>4. c[k + 1] = Show(c[k], d[k + 1]) /\ d[k + 1] = D[k + 1] /\ D[k + 1] \notin p.not_ready
    BY <1>2, <1>3, <2>2
  <2> HIDE DEF D, Rest, d
  <2>5. /\ FramePool(c[k]) /\ DisplayQueue(c[k]) = Rest(k) /\ c[k].not_ready = p.not_ready
        /\ c[k].codec_use = p.codec_use /\ Referred(c[k]) = Referred(p)
        /\ Later(p, c[k])
    BY <2>1 DEF Marks
  <2>6. /\ FramePool(c[k + 1]) /\ Later(c[k], c[k + 1])
        /\ Marks(c[k + 1], p.codec_use, p.not_ready, Referred(p), Rest(k + 1))
    <3>1. /\ FramePool(c[k]) /\ DisplayQueue(c[k]) # <<>>
          /\ d[k + 1] = Head(DisplayQueue(c[k])) /\ d[k + 1] \notin c[k].not_ready
          /\ c[k + 1] = Show(c[k], d[k + 1])
      BY <2>3, <2>4, <2>5
    <3>2. /\ FramePool(c[k + 1]) /\ Later(c[k], c[k + 1])
          /\ Marks(c[k + 1], c[k].codec_use, c[k].not_ready, Referred(c[k]),
                   Tail(DisplayQueue(c[k])))
      BY <3>1, FrameShow
    <3> QED BY <2>3, <2>5, <3>2
  <2>7. /\ p.used_count \in Int /\ c[k].used_count \in Int /\ c[k + 1].used_count \in Int
    BY <2>5, <2>6, FrameFields
  <2>8. Later(p, c[k + 1])
    BY <2>5, <2>6, <2>7, LaterTrans
  <2>9. Ok(k + 1)
    BY <2>6, <2>8
  <2> QED BY <2>2, <2>9
<1> HIDE DEF T
<1>7. 0 .. m \subseteq T
  BY <1>2, <1>5, <1>6, BoundedInduction
<1>8. Ok(m)
  <2>1. m \in 0 .. m
    BY <1>2
  <2> QED BY <1>7, <2>1 DEF T
<1> QED BY <1>4, <1>8

(* When no slot waits for its picture, all is shown. *)
LEMMA FrameDrainedAll ==
    ASSUME NEW p, FramePool(p), p.not_ready = {}
    PROVE  SubSeq(DisplayQueue(p), Len(Displayed(p)) + 1, Len(DisplayQueue(p))) = <<>>
<1> DEFINE D == DisplayQueue(p)
<1>1. D \in Seq(FrameSlots) /\ Len(D) \in Nat
  BY FrameFields
<1>2. ReadySlots(p) = 0
  BY DEF ReadySlots, SelectInSeq
<1>3. Displayed(p) = D
  BY <1>2 DEF Displayed
<1> HIDE DEF D
<1>4. SubSeq(D, Len(D) + 1, Len(D)) = <<>>
  BY <1>1
<1> QED BY <1>3, <1>4 DEF D

(* The user has acknowledged a geometry. *)
LEMMA FrameReady ==
    ASSUME NEW p, FramePool(p), NEW q, q = Ready(p)
    PROVE  /\ FramePool(q) /\ q.on_used = p.on_used /\ q.used_count = p.used_count
           /\ q.frame = p.frame
           /\ Marks(q, p.codec_use, p.not_ready, Referred(p), DisplayQueue(p))
<1>1. p \in PoolType(FrameSlots, Frames, Geometries)
  BY DEF FramePool
<1>2. /\ q \in PoolType(FrameSlots, Frames, Geometries) /\ Accounted(p, q)
      /\ OnlyChanges(p, q, {"info", "info_changed"})
  BY <1>1, ReadyFacts, Zenon
<1>3. UsedOK(q) /\ CountCovers(q)
  BY <1>2 DEF FramePool, Accounted
<1>4. /\ q.not_ready = p.not_ready /\ q.hal_output = p.hal_output /\ q.hal_use = p.hal_use
      /\ q.codec_use = p.codec_use /\ q.queue_use = p.queue_use /\ q.queue = p.queue
      /\ q.on_used = p.on_used /\ q.frame = p.frame /\ q.used_count = p.used_count
  BY <1>2 DEF OnlyChanges, Fields
<1>5. Referred(q) = Referred(p) /\ DisplayQueue(q) = DisplayQueue(p)
  BY <1>4 DEF Referred, DisplayQueue
<1>6. FramePool(q)
  BY <1>2, <1>3, <1>4, <1>5 DEF FramePool
<1> QED BY <1>4, <1>5, <1>6 DEF Marks

(* The picture in hand waits for an acknowledgement that will not come:    *)
(* its slot is reset, and then its mark cleared.  used_count keeps what    *)
(* it counted for the slot.                                                *)
LEMMA FrameReset ==
    ASSUME NEW p, FramePool(p), NEW i \in p.not_ready, i \notin p.codec_use,
           i \notin Referred(p), NEW q, q = ClrFlag(SlotReset(p, i), i, "HAL_OUTPUT")
    PROVE  /\ FramePool(q) /\ Later(p, q)
           /\ Marks(q, p.codec_use, p.not_ready \ {i}, Referred(p),
                    RemoveFirst(DisplayQueue(p), i))
<1> DEFINE P == PoolType(FrameSlots, Frames, Geometries)
           D == DisplayQueue(p)
           L == ListDel(p.queue, i)
           U1 == [p.queue_use EXCEPT ![i] = 1]
           U2 == [U1 EXCEPT ![i] = 0]
           r0 == [p EXCEPT !.queue = L]
           r1 == [r0 EXCEPT !.queue_use = U1]
           r2 == [r1 EXCEPT !.queue_use = U2]
           r3 == [r2 EXCEPT !.on_used = p.on_used \ {i}]
           r4 == [r3 EXCEPT !.hal_output = p.hal_output \ {i}]
           r5 == [r4 EXCEPT !.not_ready = p.not_ready \ {i}]
<1>1. /\ p \in P /\ Slots(p) = FrameSlots /\ i \in FrameSlots
      /\ p.on_used \subseteq FrameSlots /\ p.not_ready \subseteq FrameSlots
      /\ p.queue_use \in [FrameSlots -> 0 .. 31]
      /\ p.queue \in [QueueTypes -> Seq(FrameSlots)]
      /\ D \in Seq(FrameSlots) /\ p.hal_output = p.not_ready
  BY FrameFields DEF FramePool
<1>2. /\ L \in [QueueTypes -> Seq(FrameSlots)] /\ L["QUEUE_DEINTERLACE"] = <<>>
      /\ L["QUEUE_DISPLAY"] = RemoveFirst(D, i)
      /\ IsInjective(RemoveFirst(D, i)) /\ ToSet(RemoveFirst(D, i)) = ToSet(D) \ {i}
  <2>1. /\ RemoveFirst(D, i) \in Seq(FrameSlots) /\ IsInjective(RemoveFirst(D, i))
        /\ ToSet(RemoveFirst(D, i)) = ToSet(D) \ {i}
    BY <1>1, RemoveToSet DEF FramePool
  <2>2. RemoveFirst(<<>>, i) = <<>>
    <3>1. <<>> \in Seq(FrameSlots) /\ i \notin ToSet(<<>>)
      BY DEF ToSet
    <3> QED BY <3>1, RemoveAbsent
  <2>3. /\ L = [t \in QueueTypes |-> RemoveFirst(p.queue[t], i)]
        /\ p.queue["QUEUE_DISPLAY"] = D /\ p.queue["QUEUE_DEINTERLACE"] = <<>>
    BY <1>1 DEF ListDel, DisplayQueue, FramePool
  <2> HIDE DEF L, D
  <2>4. L["QUEUE_DEINTERLACE"] = <<>> /\ L["QUEUE_DISPLAY"] = RemoveFirst(D, i)
    BY <2>2, <2>3 DEF QueueTypes
  <2>5. <<>> \in Seq(FrameSlots)
    OBVIOUS
  <2>6. \A t \in QueueTypes : RemoveFirst(p.queue[t], i) \in Seq(FrameSlots)
    BY <2>1, <2>2, <2>3, <2>5 DEF QueueTypes
  <2>7. L \in [QueueTypes -> Seq(FrameSlots)]
    BY <2>3, <2>6
  <2> QED BY <2>1, <2>4, <2>7
<1> HIDE DEF L, D
<1>3. p.queue_use[i] = 2
  BY <1>1 DEF FramePool, D
<1>4. U1 \in [FrameSlots -> 0 .. 31] /\ U2 \in [FrameSlots -> 0 .. 31]
  <2>1. p.queue_use \in [FrameSlots -> 0 .. 31]
    BY <1>1
  <2>2. 0 \in 0 .. 31 /\ 1 \in 0 .. 31
    OBVIOUS
  <2>3. U1 \in [FrameSlots -> 0 .. 31]
    BY <2>1, <2>2
  <2> HIDE DEF U1
  <2>4. U2 \in [FrameSlots -> 0 .. 31]
    BY <2>2, <2>3
  <2> QED BY <2>3, <2>4
<1>5. SlotReset(p, i) = r3
  <2>1. DecQueueUse(r0, i) = r1
    <3>1. r0.queue_use = p.queue_use /\ "queue_use" \in DOMAIN r0
      BY <1>1 DEF PoolType
    <3> HIDE DEF r0
    <3>2. r0.queue_use[i] = 2 /\ 2 > 0 /\ 2 - 1 = 1
      BY <1>3, <3>1
    <3>3. DecQueueUse(r0, i) =
             [r0 EXCEPT !.queue_use = [r0.queue_use EXCEPT ![i] = r0.queue_use[i] - 1]]
      BY <3>1, <3>2 DEF DecQueueUse
    <3>4. [r0.queue_use EXCEPT ![i] = r0.queue_use[i] - 1] = U1
      BY <3>1, <3>2
    <3> QED BY <3>3, <3>4
  <2>2. DecQueueUse(r1, i) = r2
    <3>1. r1.queue_use = U1 /\ "queue_use" \in DOMAIN r1 /\ U1[i] = 1
      BY <1>1 DEF PoolType
    <3> HIDE DEF r1, U1
    <3> QED BY <3>1 DEF DecQueueUse
  <2>3. r2.on_used = p.on_used
    BY <1>1 DEF PoolType
  <2> HIDE DEF r1, r2
  <2> QED BY <2>1, <2>2, <2>3 DEF SlotReset, L
<1>6. ClrStatus(r3, i, "HAL_OUTPUT") = r5
  <2>1. r3.hal_output = p.hal_output /\ r3.not_ready = p.not_ready
    BY <1>1 DEF PoolType
  <2> HIDE DEF r3
  <2> QED BY <2>1 DEF ClrStatus
<1>7. q = r5
  <2>1. i \notin r5.on_used
    BY <1>1 DEF PoolType
  <2> HIDE DEF r5, r3
  <2> QED BY <1>5, <1>6, <2>1 DEF ClrFlag, CheckEntryUnused
<1>8. q \in P
  <2>1. r0 \in P
    <3>1. \A v \in [QueueTypes -> Seq(FrameSlots)] : [p EXCEPT !.queue = v] \in P
      BY <1>1, PoolEdit
    <3> QED BY <1>2, <3>1
  <2> HIDE DEF r0
  <2>2. r1 \in P
    <3>1. \A v \in [FrameSlots -> 0 .. 31] : [r0 EXCEPT !.queue_use = v] \in P
      BY <2>1, PoolEdit
    <3> QED BY <1>4, <3>1
  <2> HIDE DEF r1
  <2>3. r2 \in P
    <3>1. \A v \in [FrameSlots -> 0 .. 31] : [r1 EXCEPT !.queue_use = v] \in P
      BY <2>2, PoolEdit
    <3> QED BY <1>4, <3>1
  <2> HIDE DEF r2
  <2>4. r3 \in P
    <3>1. \A v \in SUBSET FrameSlots : [r2 EXCEPT !.on_used = v] \in P
      BY <2>3, PoolEdit
    <3> QED BY <1>1, <3>1
  <2> HIDE DEF r3
  <2>5. r4 \in P
    <3>1. \A v \in SUBSET FrameSlots : [r3 EXCEPT !.hal_output = v] \in P
      BY <2>4, PoolEdit
    <3> QED BY <1>1, <3>1
  <2> HIDE DEF r4
  <2>6. r5 \in P
    <3>1. \A v \in SUBSET FrameSlots : [r4 EXCEPT !.not_ready = v] \in P
      BY <2>5, PoolEdit
    <3> QED BY <1>1, <3>1
  <2> QED BY <1>7, <2>6
<1>9. /\ q.queue = L /\ q.on_used = p.on_used \ {i} /\ q.hal_output = p.hal_output \ {i}
      /\ q.not_ready = p.not_ready \ {i} /\ q.queue_use = U2
      /\ OnlyChanges(p, q, {"queue", "on_used", "hal_output", "not_ready", "queue_use"})
  <2>1. q = [p EXCEPT !.queue = L, !.queue_use = U2, !.on_used = p.on_used \ {i},
                      !.hal_output = p.hal_output \ {i}, !.not_ready = p.not_ready \ {i}]
    BY <1>7
  <2> HIDE DEF U2
  <2>2. /\ q.queue = L /\ q.on_used = p.on_used \ {i} /\ q.hal_output = p.hal_output \ {i}
        /\ q.not_ready = p.not_ready \ {i} /\ q.queue_use = U2
    BY <1>1, <2>1 DEF PoolType
  <2>3. OnlyChanges(p, q, {"queue", "on_used", "hal_output", "not_ready", "queue_use"})
    BY <1>1, <2>1 DEF PoolType, OnlyChanges, Fields
  <2> QED BY <2>2, <2>3
<1> HIDE DEF r5
<1>10. /\ q.codec_use = p.codec_use /\ q.hal_use = p.hal_use /\ q.frame = p.frame
       /\ q.used_count = p.used_count /\ q.info = p.info /\ q.info_set = p.info_set
       /\ q.info_changed = p.info_changed
  BY <1>9 DEF OnlyChanges, Fields
<1>11. \A j \in FrameSlots : q.queue_use[j] = IF j = i THEN 0 ELSE p.queue_use[j]
  BY <1>1, <1>9
<1>12. Slots(q) = FrameSlots
  BY <1>8, PoolFields
<1>13. UsedOK(q)
  <2>1. p.hal_use[i] = 0
    BY <1>1 DEF Referred, FramePool
  <2>2. Idle(q, i)
    BY <1>1, <1>9, <1>10, <1>11, <2>1 DEF Idle
  <2>3. \A j \in FrameSlots \ {i} : Idle(q, j) <=> Idle(p, j)
    BY <1>9, <1>10, <1>11 DEF Idle
  <2> QED BY <1>1, <1>9, <1>12, <2>2, <2>3 DEF UsedOK, FramePool
<1>14. CountCovers(q)
  <2>1. IsFiniteSet(p.on_used) /\ Cardinality(p.on_used) <= p.used_count
    BY DEF FramePool, CountCovers
  <2>2. i \in p.on_used
    BY FrameFields
  <2>3. /\ IsFiniteSet(p.on_used \ {i}) /\ Cardinality(p.on_used) \in Nat
        /\ Cardinality(p.on_used \ {i}) = Cardinality(p.on_used) - 1
    BY <2>1, <2>2, FS_RemoveElement, FS_CardinalityType
  <2>4. p.used_count \in Int
    BY FrameFields
  <2>5. Cardinality(p.on_used) - 1 <= p.used_count
    BY <2>1, <2>3, <2>4
  <2> QED BY <1>9, <1>10, <2>3, <2>5 DEF CountCovers
<1>15. DisplayQueue(q) = RemoveFirst(D, i) /\ Referred(q) = Referred(p)
  BY <1>2, <1>9, <1>10 DEF DisplayQueue, Referred
<1>16. FramePool(q)
  <2>1. \A j \in FrameSlots :
           q.queue_use[j] = IF j \in ToSet(DisplayQueue(q)) THEN 2 ELSE 0
    BY <1>2, <1>11, <1>15 DEF FramePool, D
  <2>2. q.not_ready \subseteq ToSet(DisplayQueue(q))
    BY <1>2, <1>9, <1>15 DEF FramePool, D
  <2>3. \A j \in q.on_used : q.frame[j] # None
    BY <1>9, <1>10 DEF FramePool
  <2>4. q.hal_output = q.not_ready /\ q.queue["QUEUE_DEINTERLACE"] = <<>>
    BY <1>1, <1>2, <1>9
  <2>5. \A j \in FrameSlots : q.hal_use[j] \in {0, 1}
    BY <1>10 DEF FramePool
  <2> QED BY <1>2, <1>8, <1>13, <1>14, <1>15, <2>1, <2>2, <2>3, <2>4, <2>5 DEF FramePool
<1>17. Later(p, q)
  <2>1. q.used_count <= p.used_count
    BY <1>10, FrameFields
  <2> QED BY <1>9, <1>10, <2>1 DEF Later
<1> QED BY <1>9, <1>10, <1>15, <1>16, <1>17 DEF Marks, D

(* A pool that accounts for its slots. *)
Sound(p) ==
    /\ p \in PoolType(FrameSlots, Frames, Geometries)
    /\ UsedOK(p) /\ CountCovers(p)

(* The calls of h263d_parse on the frame slots, up to the release of the   *)
(* old reference. *)
ParsedFrom(p, i, f, R) ==
    LET output == SetFrame(SetFlag(GetUnused(p), i, "HAL_OUTPUT"), i, f)
        used   == SetFlag(SetFlag(SetAllInputs(output, R), i, "CODEC_USE"), i, "QUEUE_USE")
    IN  Enqueue(used, i, "QUEUE_DISPLAY")

(* SetFrameFacts and EnqueueFacts on the frame slots. *)
LEMMA FrameSetFacts ==
    ASSUME NEW p \in PoolType(FrameSlots, Frames, Geometries), NEW i \in FrameSlots, NEW q,
           NEW f \in Frames, f.info \in Geometries, i \in p.not_ready, q = SetFrame(p, i, f)
    PROVE  Accounted(p, q) /\ OnlyChanges(p, q, {"frame", "info_set", "info_changed"})
BY SetFrameFacts, Zenon

(* Likewise for mpp_buf_slot_enqueue. *)
LEMMA FrameEnqueueFacts ==
    ASSUME NEW p \in PoolType(FrameSlots, Frames, Geometries), NEW i \in FrameSlots, NEW q,
           NEW t \in QueueTypes, i \in p.on_used, p.queue_use[i] + 1 < QueueUseRange,
           \A u \in QueueTypes : i \notin ToSet(p.queue[u]), q = Enqueue(p, i, t)
    PROVE  Accounted(p, q) /\ OnlyChanges(p, q, {"queue_use", "queue"})
BY EnqueueFacts, ZenonT(60)

(* The two fields mpp_buf_slot_enqueue changes. *)
Enqueued(p, q, t, i) ==
    /\ q.queue_use = [p.queue_use EXCEPT ![i] = p.queue_use[i] + 1]
    /\ q.queue = [p.queue EXCEPT ![t] = Append(p.queue[t], i)]

(* It changes them so. *)
LEMMA EnqueueFields ==
    ASSUME NEW S, NEW F, NEW I, NEW p \in PoolType(S, F, I), NEW i \in S, NEW q,
           NEW t \in QueueTypes,
           i \in p.on_used, p.queue_use[i] + 1 < QueueUseRange,
           \A u \in QueueTypes : i \notin ToSet(p.queue[u]),
           q = Enqueue(p, i, t)
    PROVE  Enqueued(p, q, t, i)
<1> DEFINE r == IncQueueUse(p, i)
<1>1. r \in PoolType(S, F, I)
  BY IncQueueUseFacts
<1>2. r.queue_use = [p.queue_use EXCEPT ![i] = p.queue_use[i] + 1]
  BY IncQueueUseFacts
<1>3. OnlyChanges(p, r, {"queue_use"})
  BY IncQueueUseFacts
<1>4. r.queue = p.queue
  BY <1>3 DEF OnlyChanges, Fields
<1>5. ListDel(p.queue, i) = p.queue
  <2>1. p.queue \in [QueueTypes -> Seq(S)]
    BY PoolFields
  <2>2. \A u \in QueueTypes : RemoveFirst(p.queue[u], i) = p.queue[u]
    BY <2>1, RemoveAbsent
  <2> QED BY <2>1, <2>2 DEF ListDel
<1> DEFINE v == [p.queue EXCEPT ![t] = Append(p.queue[t], i)]
<1>7. q = [r EXCEPT !.queue = v]
  BY <1>5 DEF Enqueue
<1> HIDE DEF r, v
<1>6. q.queue_use = r.queue_use /\ q.queue = v
  BY <1>1, <1>7 DEF PoolType
<1> QED BY <1>2, <1>6 DEF Enqueued, v

(* A slot is taken for a picture that is to be decoded. *)
LEMMA OutputTaken ==
    ASSUME NEW p, FramePool(p), FreeSlots(p) # {}, NEW i, i = FirstUnused(p),
           NEW f \in Frames, NEW q,
           q = SetFrame(SetFlag(GetUnused(p), i, "HAL_OUTPUT"), i, f)
    PROVE  /\ Sound(q) /\ i \in FrameSlots /\ i \notin p.on_used
           /\ q.on_used = p.on_used \cup {i} /\ q.not_ready = p.not_ready \cup {i}
           /\ q.hal_output = p.hal_output \cup {i} /\ q.frame = [p.frame EXCEPT ![i] = f]
           /\ q.codec_use = p.codec_use /\ q.hal_use = p.hal_use
           /\ q.queue_use = p.queue_use /\ q.queue = p.queue
           /\ q.used_count = p.used_count + 1
<1> DEFINE g == GetUnused(p)
           a == SetFlag(g, i, "HAL_OUTPUT")
<1>1. p \in PoolType(0 .. NumSlots - 1, Frames, Geometries) /\ NumSlots \in Nat
  BY CountAssumption DEF FramePool, FrameSlots
<1>2. /\ g \in PoolType(FrameSlots, Frames, Geometries) /\ Accounted(p, g)
      /\ OnlyChanges(p, g, {"on_used", "not_ready", "used_count"})
  BY <1>1, GetUnusedFacts, Zenon DEF FrameSlots
<1>3. /\ i \in FrameSlots /\ i \notin p.on_used
      /\ g.on_used = p.on_used \cup {i} /\ g.not_ready = p.not_ready \cup {i}
      /\ g.used_count = p.used_count + 1
  BY <1>1, GetUnusedFacts DEF FrameSlots
<1> HIDE DEF g
<1>4. i \in g.on_used
  BY <1>3
<1>5. /\ a \in PoolType(FrameSlots, Frames, Geometries) /\ Accounted(g, a)
      /\ OnlyChanges(g, a, {"hal_output", "not_ready"})
  BY <1>2, <1>3, <1>4, SetHalOutput, Zenon
<1>6. a.hal_output = g.hal_output \cup {i} /\ a.not_ready = g.not_ready \cup {i}
  BY <1>2, <1>3, <1>4, SetHalOutput
<1>7. q = SetFrame(a, i, f)
  BY DEF g
<1> HIDE DEF a
<1>8. /\ a \in PoolType(FrameSlots, Frames, Geometries) /\ i \in FrameSlots
      /\ f \in Frames /\ f.info \in Geometries /\ i \in a.not_ready
      /\ q = SetFrame(a, i, f)
  BY <1>3, <1>5, <1>6, <1>7 DEF Frames
<1>9. /\ q \in PoolType(FrameSlots, Frames, Geometries) /\ Accounted(a, q)
      /\ OnlyChanges(a, q, {"frame", "info_set", "info_changed"})
  <2>1. q \in PoolType(FrameSlots, Frames, Geometries)
    BY <1>8, SetFrameFacts
  <2>2. Accounted(a, q)
    BY <1>8, FrameSetFacts, Zenon
  <2>3. OnlyChanges(a, q, {"frame", "info_set", "info_changed"})
    BY <1>8, FrameSetFacts, Zenon
  <2> QED BY <2>1, <2>2, <2>3
<1>10. q.frame = [a.frame EXCEPT ![i] = f]
  BY <1>8, SetFrameFacts
<1>11. /\ g.hal_output = p.hal_output /\ g.frame = p.frame /\ g.codec_use = p.codec_use
       /\ g.hal_use = p.hal_use /\ g.queue_use = p.queue_use /\ g.queue = p.queue
  BY <1>2 DEF OnlyChanges, Fields
<1>12. /\ a.on_used = g.on_used /\ a.used_count = g.used_count /\ a.frame = p.frame
       /\ a.codec_use = p.codec_use
       /\ a.hal_use = p.hal_use /\ a.queue_use = p.queue_use /\ a.queue = p.queue
  BY <1>5, <1>11 DEF OnlyChanges, Fields
<1>13. /\ q.on_used = a.on_used /\ q.used_count = a.used_count
       /\ q.not_ready = a.not_ready /\ q.hal_output = a.hal_output
       /\ q.codec_use = p.codec_use
       /\ q.hal_use = p.hal_use /\ q.queue_use = p.queue_use /\ q.queue = p.queue
  BY <1>9, <1>12 DEF OnlyChanges, Fields
<1>14. Sound(q)
  BY <1>2, <1>5, <1>9 DEF FramePool, Accounted, Sound
<1> QED BY <1>3, <1>6, <1>10, <1>11, <1>12, <1>13, <1>14

(* The references of a picture are marked. *)
LEMMA ReferencesMarked ==
    ASSUME NEW p, Sound(p), NEW R, R = {} \/ (\E r \in p.on_used : R = {r}),
           \A r \in R : r \in FrameSlots /\ p.hal_use[r] = 0, NEW q, q = SetAllInputs(p, R)
    PROVE  /\ Sound(q) /\ OnlyChanges(p, q, {"hal_use"})
           /\ \A j \in FrameSlots : q.hal_use[j] = IF j \in R THEN 1 ELSE p.hal_use[j]
<1>1. CASE R = {}
  BY <1>1, SetInputsFacts DEF OnlyChanges
<1>2. CASE \E r \in p.on_used : R = {r}
  <2>1. PICK r \in p.on_used : R = {r}
    BY <1>2
  <2>2. /\ p \in PoolType(FrameSlots, Frames, Geometries) /\ r \in FrameSlots
        /\ p.hal_use[r] = 0 /\ p.hal_use[r] + 1 < HalUseRange
        /\ q = SetFlag(p, r, "HAL_INPUT")
    BY <2>1, SetInputsFacts DEF Sound, HalUseRange
  <2>3. /\ q \in PoolType(FrameSlots, Frames, Geometries) /\ Accounted(p, q)
        /\ OnlyChanges(p, q, {"hal_use"})
    BY <2>2, SetHalInput, Zenon
  <2>4. \A j \in FrameSlots : q.hal_use[j] = IF j = r THEN p.hal_use[j] + 1 ELSE p.hal_use[j]
    BY <2>2, InputSet
  <2>5. Sound(q)
    BY <2>3 DEF Sound, Accounted
  <2>6. \A j \in FrameSlots : q.hal_use[j] = IF j \in R THEN 1 ELSE p.hal_use[j]
    <3>1. p.hal_use[r] + 1 = 1
      BY <2>2
    <3> QED BY <2>1, <2>4, <3>1
  <2> QED BY <2>3, <2>5, <2>6
<1> QED BY <1>1, <1>2

(* A picture is kept by the codec, and queued for display. *)
LEMMA PictureQueued ==
    ASSUME NEW p, Sound(p), NEW i \in FrameSlots, i \in p.on_used, p.queue_use[i] = 0,
           \A t \in QueueTypes : i \notin ToSet(p.queue[t]), NEW q,
           q = Enqueue(SetFlag(SetFlag(p, i, "CODEC_USE"), i, "QUEUE_USE"),
                       i, "QUEUE_DISPLAY")
    PROVE  /\ Sound(q) /\ q.codec_use = p.codec_use \cup {i}
           /\ OnlyChanges(p, q, {"codec_use", "queue_use", "queue"})
           /\ \A j \in FrameSlots : q.queue_use[j] = IF j = i THEN 2 ELSE p.queue_use[j]
           /\ DisplayQueue(q) = Append(DisplayQueue(p), i)
           /\ q.queue["QUEUE_DEINTERLACE"] = p.queue["QUEUE_DEINTERLACE"]
<1> DEFINE P == PoolType(FrameSlots, Frames, Geometries)
           c == SetFlag(p, i, "CODEC_USE")
           u == SetFlag(c, i, "QUEUE_USE")
<1>1. p \in P
  BY DEF Sound
<1> HIDE DEF P
<1>2. c \in P /\ Accounted(p, c) /\ OnlyChanges(p, c, {"codec_use"})
  BY <1>1, SetCodecUse, Zenon DEF P
<1>3. c.codec_use = p.codec_use \cup {i}
  BY <1>1, SetCodecUse DEF P
<1>4. u = IncQueueUse(c, i) /\ q = Enqueue(u, i, "QUEUE_DISPLAY")
  BY DEF SetFlag
<1> HIDE DEF c, u
<1>5. /\ c.on_used = p.on_used /\ c.queue_use = p.queue_use /\ c.queue = p.queue
  BY <1>2 DEF OnlyChanges, Fields
<1>6. i \in c.on_used /\ c.queue_use[i] = 0 /\ c.queue_use[i] + 1 < QueueUseRange
  BY <1>5 DEF QueueUseRange
<1>7. u \in P /\ Accounted(c, u) /\ OnlyChanges(c, u, {"queue_use"})
  BY <1>2, <1>4, <1>6, IncQueueUseFacts, Zenon DEF P
<1>8. u.queue_use = [c.queue_use EXCEPT ![i] = c.queue_use[i] + 1]
  BY <1>2, <1>4, <1>6, IncQueueUseFacts DEF P
<1>9. p.queue_use \in [FrameSlots -> 0 .. 31]
  BY <1>1, PoolFields DEF P
<1>10. \A j \in FrameSlots : u.queue_use[j] = IF j = i THEN 1 ELSE p.queue_use[j]
  BY <1>5, <1>6, <1>8, <1>9
<1>11. u.on_used = p.on_used /\ u.queue = p.queue /\ u.codec_use = c.codec_use
  BY <1>5, <1>7 DEF OnlyChanges, Fields
<1>12. /\ "QUEUE_DISPLAY" \in QueueTypes /\ i \in u.on_used
       /\ u.queue_use[i] = 1 /\ u.queue_use[i] + 1 < QueueUseRange
       /\ \A t \in QueueTypes : i \notin ToSet(u.queue[t])
       /\ u \in P /\ i \in FrameSlots /\ q = Enqueue(u, i, "QUEUE_DISPLAY")
  BY <1>4, <1>7, <1>10, <1>11 DEF QueueTypes, QueueUseRange
<1>13. q \in P /\ Accounted(u, q) /\ OnlyChanges(u, q, {"queue_use", "queue"})
  <2>1. q \in P
    BY <1>12, EnqueueFacts, ZenonT(60) DEF P
  <2>2. Accounted(u, q)
    BY <1>12, FrameEnqueueFacts, Zenon DEF P
  <2>3. OnlyChanges(u, q, {"queue_use", "queue"})
    BY <1>12, FrameEnqueueFacts, Zenon DEF P
  <2> QED BY <2>1, <2>2, <2>3
<1>14. /\ q.queue_use = [u.queue_use EXCEPT ![i] = u.queue_use[i] + 1]
       /\ q.queue = [u.queue EXCEPT !["QUEUE_DISPLAY"] = Append(u.queue["QUEUE_DISPLAY"], i)]
  <2>1. Enqueued(u, q, "QUEUE_DISPLAY", i)
    BY <1>12, EnqueueFields, Zenon DEF P
  <2> QED BY <2>1 DEF Enqueued
<1>15. u.queue_use \in [FrameSlots -> 0 .. 31]
  BY <1>7, PoolFields DEF P
<1>16. u.queue \in [QueueTypes -> Seq(FrameSlots)]
  BY <1>7, PoolFields DEF P
<1>17. \A j \in FrameSlots : q.queue_use[j] = IF j = i THEN 2 ELSE p.queue_use[j]
  BY <1>10, <1>12, <1>14, <1>15
<1>18. /\ DisplayQueue(q) = Append(DisplayQueue(p), i)
       /\ q.queue["QUEUE_DEINTERLACE"] = p.queue["QUEUE_DEINTERLACE"]
  BY <1>11, <1>14, <1>16 DEF DisplayQueue, QueueTypes
<1>19. q.codec_use = p.codec_use \cup {i}
  BY <1>3, <1>11, <1>13 DEF OnlyChanges, Fields
<1>20. OnlyChanges(p, q, {"codec_use", "queue_use", "queue"})
  BY <1>2, <1>7, <1>13 DEF OnlyChanges
<1>21. Sound(q)
  BY <1>2, <1>7, <1>13 DEF Sound, Accounted, P
<1> QED BY <1>17, <1>18, <1>19, <1>20, <1>21

(* An element that is new to a list. *)
LEMMA NewLast ==
    ASSUME NEW S, NEW D \in Seq(S), IsInjective(D), NEW i \in S, i \notin ToSet(D)
    PROVE  IsInjective(Append(D, i)) /\ ToSet(Append(D, i)) = ToSet(D) \cup {i}
<1> DEFINE N == Append(D, i)
<1>1. /\ N \in Seq(S) /\ Len(D) \in Nat /\ Len(N) = Len(D) + 1 /\ N[Len(D) + 1] = i
      /\ Len(D) + 1 \in 1 .. Len(N)
      /\ \A k \in 1 .. Len(D) : N[k] = D[k] /\ k \in 1 .. Len(N) /\ k # Len(D) + 1
      /\ \A k \in 1 .. Len(N) : k \in 1 .. Len(D) \/ k = Len(D) + 1
  BY Appended
<1> HIDE DEF N
<1>2. DOMAIN D = 1 .. Len(D) /\ DOMAIN N = 1 .. Len(N)
  BY <1>1
<1>3. \A k \in 1 .. Len(D) : D[k] # i
  BY <1>2 DEF ToSet
<1>4. IsInjective(N)
  BY <1>1, <1>2, <1>3 DEF IsInjective
<1>5. ToSet(D) = {D[k] : k \in 1 .. Len(D)} /\ ToSet(N) = {N[k] : k \in 1 .. Len(N)}
  BY <1>2 DEF ToSet
<1>6. ToSet(N) = ToSet(D) \cup {i}
  BY <1>1, <1>5
<1> QED BY <1>4, <1>6 DEF N

(* Slot i is taken, for frame f. *)
Extended(p, q, i, f) ==
    /\ q.on_used = p.on_used \cup {i} /\ q.used_count = p.used_count + 1
    /\ q.frame = [p.frame EXCEPT ![i] = f]

(* A packet is parsed. *)
LEMMA FrameParsed ==
    ASSUME NEW p, FramePool(p), FreeSlots(p) # {}, NEW i, i = FirstUnused(p),
           NEW f \in Frames, NEW R, R = {} \/ (\E r \in p.on_used : R = {r}),
           R \cap Referred(p) = {}, NEW q, q = ParsedFrom(p, i, f, R)
    PROVE  /\ FramePool(q) /\ i \in FrameSlots \ p.on_used
           /\ Marks(q, p.codec_use \cup {i}, p.not_ready \cup {i}, Referred(p) \cup R,
                    Append(DisplayQueue(p), i))
           /\ Extended(p, q, i, f)
<1> DEFINE D == DisplayQueue(p)
           b == SetFrame(SetFlag(GetUnused(p), i, "HAL_OUTPUT"), i, f)
           e == SetAllInputs(b, R)
<1>1. /\ Sound(b) /\ i \in FrameSlots /\ i \notin p.on_used
      /\ b.on_used = p.on_used \cup {i} /\ b.not_ready = p.not_ready \cup {i}
      /\ b.hal_output = p.hal_output \cup {i} /\ b.frame = [p.frame EXCEPT ![i] = f]
      /\ b.codec_use = p.codec_use /\ b.hal_use = p.hal_use
      /\ b.queue_use = p.queue_use /\ b.queue = p.queue
      /\ b.used_count = p.used_count + 1
  BY OutputTaken
<1>2. /\ D \in Seq(FrameSlots) /\ p.on_used \subseteq FrameSlots
      /\ i \notin ToSet(D) /\ i \notin Referred(p) /\ i \notin p.not_ready
      /\ p.frame \in [FrameSlots -> Frames \cup {None}]
  <2>1. D \in Seq(FrameSlots) /\ p.on_used \subseteq FrameSlots
        /\ p \in PoolType(FrameSlots, Frames, Geometries)
    BY FrameFields
  <2>2. i \notin ToSet(D) /\ i \notin Referred(p) /\ i \notin p.not_ready
    BY <1>1, FrameFields
  <2>3. p.frame \in [FrameSlots -> Frames \cup {None}]
    BY <2>1, PoolFields
  <2> QED BY <2>1, <2>2, <2>3
<1>3. q = Enqueue(SetFlag(SetFlag(e, i, "CODEC_USE"), i, "QUEUE_USE"), i, "QUEUE_DISPLAY")
  BY DEF ParsedFrom
<1> HIDE DEF b, D
<1>4. /\ Sound(e) /\ OnlyChanges(b, e, {"hal_use"})
      /\ \A j \in FrameSlots : e.hal_use[j] = IF j \in R THEN 1 ELSE b.hal_use[j]
  <2>1. R = {} \/ (\E r \in b.on_used : R = {r})
    BY <1>1
  <2>2. \A r \in R : r \in FrameSlots
    BY <1>2
  <2>3. \A r \in R : b.hal_use[r] = 0
    BY <1>1, <2>2 DEF FramePool, Referred
  <2> QED BY <1>1, <2>1, <2>2, <2>3, ReferencesMarked
<1> HIDE DEF e
<1>5. /\ e.on_used = b.on_used /\ e.not_ready = b.not_ready /\ e.hal_output = b.hal_output
      /\ e.frame = b.frame /\ e.codec_use = b.codec_use /\ e.queue_use = b.queue_use
      /\ e.queue = b.queue /\ e.used_count = b.used_count
  BY <1>4 DEF OnlyChanges, Fields
<1>6. /\ p.queue["QUEUE_DISPLAY"] = D /\ p.queue["QUEUE_DEINTERLACE"] = <<>>
      /\ IsInjective(D)
      /\ \A j \in FrameSlots : p.queue_use[j] = IF j \in ToSet(D) THEN 2 ELSE 0
  BY DEF FramePool, DisplayQueue, D
<1>7. /\ i \in e.on_used /\ e.queue_use[i] = 0
      /\ \A t \in QueueTypes : i \notin ToSet(e.queue[t])
  <2>1. i \notin ToSet(<<>>)
    BY DEF ToSet
  <2> QED BY <1>1, <1>2, <1>5, <1>6, <2>1 DEF QueueTypes
<1>8. /\ Sound(q) /\ q.codec_use = e.codec_use \cup {i}
      /\ OnlyChanges(e, q, {"codec_use", "queue_use", "queue"})
      /\ \A j \in FrameSlots : q.queue_use[j] = IF j = i THEN 2 ELSE e.queue_use[j]
      /\ DisplayQueue(q) = Append(DisplayQueue(e), i)
      /\ q.queue["QUEUE_DEINTERLACE"] = e.queue["QUEUE_DEINTERLACE"]
  BY <1>1, <1>3, <1>4, <1>7, PictureQueued
<1>9. /\ q.on_used = e.on_used /\ q.not_ready = e.not_ready /\ q.hal_output = e.hal_output
      /\ q.frame = e.frame /\ q.hal_use = e.hal_use /\ q.used_count = e.used_count
  BY <1>8 DEF OnlyChanges, Fields
<1>10. DisplayQueue(q) = Append(D, i)
  BY <1>1, <1>5, <1>8 DEF DisplayQueue, D
<1>11. IsInjective(Append(D, i)) /\ ToSet(Append(D, i)) = ToSet(D) \cup {i}
  BY <1>1, <1>2, <1>6, NewLast
<1>12. Referred(q) = Referred(p) \cup R
  <2>1. R \subseteq FrameSlots
    BY <1>2
  <2>2. \A j \in FrameSlots : q.hal_use[j] = IF j \in R THEN 1 ELSE p.hal_use[j]
    BY <1>1, <1>4, <1>9
  <2> QED BY <2>1, <2>2 DEF Referred
<1>13. FramePool(q)
  <2>1. \A j \in FrameSlots : q.hal_use[j] \in {0, 1}
    BY <1>1, <1>4, <1>9 DEF FramePool
  <2>2. \A j \in FrameSlots :
           q.queue_use[j] = IF j \in ToSet(DisplayQueue(q)) THEN 2 ELSE 0
    BY <1>1, <1>5, <1>6, <1>8, <1>10, <1>11
  <2>3. \A j \in q.on_used : q.frame[j] # None
    <3>1. f # None
      BY NoneAssumption DEF Frames
    <3>2. \A j \in p.on_used : p.frame[j] # None
      BY DEF FramePool
    <3> QED BY <1>1, <1>2, <1>5, <1>9, <3>1, <3>2
  <2>4. q.hal_output = q.not_ready
    BY <1>1, <1>5, <1>9 DEF FramePool
  <2>5. q.not_ready \subseteq ToSet(DisplayQueue(q))
    BY <1>1, <1>5, <1>9, <1>10, <1>11 DEF FramePool, D
  <2>6. q.queue["QUEUE_DEINTERLACE"] = <<>>
    BY <1>1, <1>5, <1>6, <1>8
  <2> QED BY <1>8, <1>10, <1>11, <2>1, <2>2, <2>3, <2>4, <2>5, <2>6 DEF FramePool, Sound
<1> QED BY <1>1, <1>5, <1>8, <1>9, <1>10, <1>12, <1>13 DEF Marks, D, Extended

OwnOutput == IF task.parsed_rdy THEN {task.info.output} ELSE {}
OwnRefer  == IF task.parsed_rdy THEN task.info.refer ELSE {}

(* A picture has one reference, or none. *)
Single(R) == R = {} \/ \E r : R = {r}
AllSingle(U) == \A k \in 1 .. Len(U) : IsDecode(U[k]) => Single(U[k].refer)

(* The marks on the frame slots p are those of the tasks U, of the one in  *)
(* hand, with output O and references R, and of the reference ref.         *)
Shares(p, ref, U, O, R) ==
    /\ FramePool(p)
    /\ p.codec_use = {ref} \ {NoSlot}
    /\ Parts(OutputsOf(U), O, p.not_ready)
    /\ Parts(RefersOf(U), R, Referred(p))
    /\ ref \notin Referred(p)
    /\ AllSingle(U) /\ Single(R)

SlotsInv ==
    /\ Shares(slots, codec.ref0, Undone, OwnOutput, OwnRefer)
    /\ task.parsed_rdy => task.info.output = codec.ref0
    /\ slots.used_count <= NumSlots
    /\ AtParse => slots.used_count < NumSlots

(* What the types of the lists are. *)
LEMMA UndoneTypes ==
    ASSUME Base
    PROVE  /\ Undone \in Seq(TaskInfos)
           /\ OutputsOf(Undone) \in Seq(SUBSET (FrameSlots \cup {NoSlot}))
           /\ RefersOf(Undone) \in Seq(SUBSET FrameSlots)
           /\ OwnOutput \in SUBSET (FrameSlots \cup {NoSlot})
           /\ OwnRefer \in SUBSET FrameSlots
           /\ codec.ref0 \in FrameSlots \cup {NoSlot}
<1>1. Undone \in Seq(TaskInfos)
  BY ListsOfType
<1>2. /\ OutputsOf(Undone) \in Seq(SUBSET (FrameSlots \cup {NoSlot}))
      /\ RefersOf(Undone) \in Seq(SUBSET FrameSlots)
  BY <1>1, SlotsOfType
<1>3. task.info \in TaskInfos /\ codec.ref0 \in FrameSlots \cup {NoSlot}
  BY DEF Base, TypeInv, DecTasks
<1>4. task.info.output \in FrameSlots \cup {NoSlot} /\ task.info.refer \in SUBSET FrameSlots
  BY <1>3 DEF TaskInfos
<1> QED BY <1>1, <1>2, <1>3, <1>4 DEF OwnOutput, OwnRefer

(* Only the marks matter. *)
LEMMA SharesMarks ==
    ASSUME NEW p, NEW q, NEW ref, NEW U, NEW O, NEW R, Shares(p, ref, U, O, R),
           FramePool(q), NEW d, Marks(q, p.codec_use, p.not_ready, Referred(p), d)
    PROVE  Shares(q, ref, U, O, R)
BY DEF Shares, Marks

(* A list of tasks with one reference each. *)
LEMMA SinglePlain ==
    ASSUME NEW U \in Seq(TaskInfos), NEW V, Plain(U, V), AllSingle(U)
    PROVE  AllSingle(V)
<1>1. CASE V = U
  BY <1>1
<1>2. CASE \E info \in TaskInfos : ~IsDecode(info) /\ V = Append(U, info)
  <2>1. PICK info \in TaskInfos : ~IsDecode(info) /\ V = Append(U, info)
    BY <1>2
  <2> QED BY <2>1, Appended DEF AllSingle
<1>3. CASE U # <<>> /\ ~IsDecode(U[1]) /\ V = Tail(U)
  BY <1>3, Shortened DEF AllSingle
<1> QED BY <1>1, <1>2, <1>3 DEF Plain

(* A task that decodes nothing makes no difference. *)
LEMMA SharesPlain ==
    ASSUME NEW p, NEW ref, NEW U \in Seq(TaskInfos), NEW V, NEW O, NEW R,
           Shares(p, ref, U, O, R), Plain(U, V)
    PROVE  Shares(p, ref, V, O, R)
<1>1. AllSingle(V)
  BY SinglePlain DEF Shares
<1>2. Parts(OutputsOf(V), O, p.not_ready)
  BY PartsPlain DEF Shares
<1>3. Parts(RefersOf(V), R, Referred(p))
  BY PartsPlain DEF Shares
<1> QED BY <1>1, <1>2, <1>3 DEF Shares

(* Slots may have been released between p and q. *)
Fewer(p, q) ==
    /\ q.on_used \subseteq p.on_used /\ q.used_count <= p.used_count
    /\ \A i \in q.on_used : q.frame[i] = p.frame[i]

(* The used slots may get fewer. *)
LEMMA FewerCount ==
    ASSUME NEW p, NEW q, FramePool(p), FramePool(q), Fewer(p, q),
           p.used_count <= NumSlots
    PROVE  q.used_count <= NumSlots /\ (p.used_count < NumSlots => q.used_count < NumSlots)
<1>1. p.used_count \in Int /\ q.used_count \in Int /\ NumSlots \in Int
  BY FrameFields, CountAssumption
<1> QED BY <1>1 DEF Fewer

(* A slot is unused according to used_count. *)
LEMMA UnusedLeft ==
    ASSUME NEW p, FramePool(p), p.used_count <= NumSlots, UnusedCount(p) # 0
    PROVE  p.used_count < NumSlots
<1>1. p.used_count \in Int /\ NumSlots \in Nat /\ Slots(p) = 0 .. NumSlots - 1
  BY FrameFields, CountAssumption DEF FrameSlots
<1>2. Cardinality(0 .. NumSlots - 1) = NumSlots
  BY <1>1, FS_Interval
<1> QED BY <1>1, <1>2 DEF UnusedCount

(* When used_count leaves one, there is a slot for the parser. *)
LEMMA SlotLeft ==
    ASSUME NEW p, FramePool(p), p.used_count < NumSlots
    PROVE  FreeSlots(p) # {} /\ FirstUnused(p) \in FrameSlots
<1>1. /\ p.used_count \in Int /\ NumSlots \in Nat /\ Slots(p) = 0 .. NumSlots - 1
      /\ p \in PoolType(0 .. NumSlots - 1, Frames, Geometries)
      /\ p.on_used \subseteq 0 .. NumSlots - 1
  BY FrameFields, CountAssumption DEF FrameSlots
<1>2. Cardinality(0 .. NumSlots - 1) = NumSlots
  BY <1>1, FS_Interval
<1>3. Cardinality(p.on_used) \in Nat /\ Cardinality(p.on_used) <= p.used_count
  BY FS_CardinalityType DEF FramePool, CountCovers
<1>4. FreeSlots(p) # {}
  <2>1. ASSUME FreeSlots(p) = {} PROVE FALSE
    <3>1. p.on_used = 0 .. NumSlots - 1
      BY <1>1, <2>1 DEF FreeSlots
    <3> QED BY <1>1, <1>2, <1>3, <3>1
  <2> QED BY <2>1
<1>5. FirstUnused(p) \in 0 .. NumSlots - 1
  BY <1>1, <1>4, FirstUnusedFacts
<1> QED BY <1>4, <1>5 DEF FrameSlots

(* No slot changes but the display queue's. *)
LEMMA AsideSlots ==
    ASSUME Base, SlotsInv, Aside
    PROVE  /\ FramePool(slots') /\ Fewer(slots, slots')
           /\ \E d : Marks(slots', slots.codec_use, slots.not_ready, Referred(slots), d)
<1>1. FramePool(slots)
  BY DEF SlotsInv, Shares
<1>2. CASE slots' = slots
  BY <1>1, <1>2, FrameFields DEF Fewer, Marks
<1>3. CASE slots' = Drained(slots)
  <2>1. /\ FramePool(slots') /\ Later(slots, slots')
        /\ \E d : Marks(slots', slots.codec_use, slots.not_ready, Referred(slots), d)
    BY <1>1, <1>3, FrameDrained
  <2> QED BY <2>1 DEF Fewer, Later
<1>4. CASE slots' = Ready(slots)
  BY <1>1, <1>4, FrameReady, FrameFields DEF Fewer
<1> QED BY <1>2, <1>3, <1>4 DEF Aside

(* A step that is aside. *)
LEMMA SlotsAside ==
    ASSUME Base, SlotsInv, Aside
    PROVE  SlotsInv'
<1>1. PICK d : Marks(slots', slots.codec_use, slots.not_ready, Referred(slots), d)
  BY AsideSlots
<1>2. FramePool(slots') /\ Fewer(slots, slots') /\ FramePool(slots)
  BY AsideSlots DEF SlotsInv, Shares
<1>3. codec' = codec /\ OwnOutput' = OwnOutput /\ OwnRefer' = OwnRefer
  BY DEF Aside, MarksKept, OwnOutput, OwnRefer
<1>4. Shares(slots', codec.ref0, Undone, OwnOutput, OwnRefer)
  BY <1>1, <1>2, SharesMarks DEF SlotsInv
<1>5. Shares(slots', codec.ref0, Undone', OwnOutput, OwnRefer)
  BY <1>4, UndoneTypes, SharesPlain DEF Aside
<1>6. task'.parsed_rdy => task'.info.output = codec'.ref0
  BY <1>3 DEF Aside, MarksKept, SlotsInv
<1>7. slots'.used_count <= NumSlots
  BY <1>2, FewerCount DEF SlotsInv
<1>8. AtParse' => slots'.used_count < NumSlots
  <2>1. CASE AtParse
    BY <1>2, <2>1, FewerCount DEF SlotsInv
  <2>2. CASE slots' = slots /\ UnusedCount(slots) # 0
    BY <1>2, <2>2, UnusedLeft DEF SlotsInv
  <2> QED BY <2>1, <2>2 DEF Aside
<1> QED BY <1>3, <1>5, <1>6, <1>7, <1>8 DEF SlotsInv

(* A step that leaves the frame slots, the tasks and the codec alone. *)
LEMMA SlotsSame ==
    ASSUME Base, SlotsInv, slots' = slots, codec' = codec, Undone' = Undone,
           (~task.parsed_rdy /\ ~task'.parsed_rdy) \/ MarksKept,
           AtParse' => AtParse
    PROVE  SlotsInv'
<1>1. OwnOutput' = OwnOutput /\ OwnRefer' = OwnRefer
  BY DEF MarksKept, OwnOutput, OwnRefer
<1>2. task'.parsed_rdy => task'.info.output = codec'.ref0
  BY DEF MarksKept, SlotsInv
<1> QED BY <1>1, <1>2 DEF SlotsInv

(* Parts of no task. *)
LEMMA PartsAlone ==
    ASSUME NEW T, NEW X, Parts(<<>>, T, X)
    PROVE  X = T
BY DEF Parts

(* The task in hand is handed over. *)
LEMMA SlotsStarted ==
    ASSUME Base, SlotsInv, Started
    PROVE  SlotsInv'
<1>1. slots' = slots /\ codec' = codec /\ ~task'.parsed_rdy /\ ~AtParse'
  BY DEF Started, Elsewhere, NoneInHand
<1>2. OwnOutput = {task.info.output} /\ OwnRefer = task.info.refer
  BY DEF Started, OwnOutput, OwnRefer
<1>3. OwnOutput' = {} /\ OwnRefer' = {}
  BY <1>1 DEF OwnOutput, OwnRefer
<1>4. PICK info \in TaskInfos :
         /\ IsDecode(info) /\ info.output = task.info.output
         /\ info.refer = task.info.refer
         /\ Undone' = Append(Undone, info)
  BY DEF Started
<1>5. /\ OutputsOf(Undone') = Append(OutputsOf(Undone), OwnOutput)
      /\ RefersOf(Undone') = Append(RefersOf(Undone), OwnRefer)
  BY <1>2, <1>4, UndoneTypes, SlotsAppended
<1>6. Parts(OutputsOf(Undone'), {}, slots.not_ready)
  <2>1. /\ OutputsOf(Undone) \in Seq(SUBSET (FrameSlots \cup {NoSlot}))
        /\ OwnOutput \in SUBSET (FrameSlots \cup {NoSlot})
        /\ Parts(OutputsOf(Undone), OwnOutput, slots.not_ready)
    BY UndoneTypes DEF SlotsInv, Shares
  <2>2. Parts(Append(OutputsOf(Undone), OwnOutput), {}, slots.not_ready)
    BY <2>1, PartsMove, Zenon
  <2> QED BY <1>5, <2>2
<1>7. Parts(RefersOf(Undone'), {}, Referred(slots))
  <2>1. /\ RefersOf(Undone) \in Seq(SUBSET FrameSlots) /\ OwnRefer \in SUBSET FrameSlots
        /\ Parts(RefersOf(Undone), OwnRefer, Referred(slots))
    BY UndoneTypes DEF SlotsInv, Shares
  <2>2. Parts(Append(RefersOf(Undone), OwnRefer), {}, Referred(slots))
    BY <2>1, PartsMove, Zenon
  <2> QED BY <1>5, <2>2
<1>8. AllSingle(Undone')
  <2>1. AllSingle(Undone) /\ Single(info.refer)
    BY <1>2, <1>4 DEF SlotsInv, Shares
  <2> QED BY <1>4, <2>1, UndoneTypes, Appended DEF AllSingle
<1>9. Shares(slots, codec.ref0, Undone', {}, {})
  BY <1>6, <1>7, <1>8 DEF SlotsInv, Shares, Single
<1> QED BY <1>1, <1>3, <1>9 DEF SlotsInv

(* The packet in hand is dropped. *)
LEMMA SlotsRefused ==
    ASSUME Base, SlotsInv, Refused
    PROVE  SlotsInv'
<1>1. slots' = slots /\ codec' = codec /\ ~task'.parsed_rdy /\ ~AtParse' /\ ~task.parsed_rdy
  BY DEF Refused, Elsewhere, NoneInHand, AtParse
<1>2. OwnOutput' = OwnOutput /\ OwnRefer' = OwnRefer
  BY <1>1 DEF OwnOutput, OwnRefer
<1>3. Shares(slots, codec.ref0, Undone', OwnOutput, OwnRefer)
  BY UndoneTypes, SharesPlain DEF Refused, SlotsInv
<1> QED BY <1>1, <1>2, <1>3 DEF SlotsInv

-----------------------------------------------------------------------------
(* The references of a task are given back. *)
LEMMA FrameClrInputs ==
    ASSUME NEW p, FramePool(p), NEW R, Single(R), R \subseteq Referred(p), NEW q,
           q = ClrAllInputs(p, R)
    PROVE  /\ FramePool(q) /\ Fewer(p, q)
           /\ Marks(q, p.codec_use, p.not_ready, Referred(p) \ R, DisplayQueue(p))
<1>1. CASE R = {}
  <2>1. q = p
    BY <1>1, ClrInputsFacts
  <2>2. p.used_count \in Int
    BY FrameFields
  <2> QED BY <1>1, <2>1, <2>2 DEF Fewer, Marks
<1>2. CASE \E r : R = {r}
  <2>1. PICK r : R = {r}
    BY <1>2
  <2>2. q = ClrFlag(p, r, "HAL_INPUT") /\ r \in Referred(p)
    BY <2>1, ClrInputsFacts
  <2>3. FramePool(q) /\ Later(p, q)
    BY <2>2, FrameClrInput
  <2>4. Marks(q, p.codec_use, p.not_ready, Referred(p) \ {r}, DisplayQueue(p))
    BY <2>2, FrameClrInput
  <2> QED BY <2>1, <2>3, <2>4 DEF Fewer, Later
<1> QED BY <1>1, <1>2 DEF Single

(* Releases add up. *)
LEMMA FewerTrans ==
    ASSUME NEW p, NEW q, NEW r, FramePool(p), FramePool(q), FramePool(r),
           Fewer(p, q), Fewer(q, r)
    PROVE  Fewer(p, r)
<1>1. p.used_count \in Int /\ q.used_count \in Int /\ r.used_count \in Int
  BY FrameFields
<1>2. r.used_count <= p.used_count
  BY <1>1 DEF Fewer
<1> QED BY <1>2 DEF Fewer

(* The marks of a task that waits for its picture are cleared. *)
LEMMA FrameClrTask ==
    ASSUME NEW p, FramePool(p), NEW i \in p.not_ready, NEW R, Single(R),
           R \subseteq Referred(p), NEW q,
           q = ClrAllInputs(ClrFlag(p, i, "HAL_OUTPUT"), R)
    PROVE  /\ FramePool(q) /\ Fewer(p, q)
           /\ Marks(q, p.codec_use, p.not_ready \ {i}, Referred(p) \ R, DisplayQueue(p))
<1> DEFINE m == ClrFlag(p, i, "HAL_OUTPUT")
<1>1. FramePool(m) /\ Later(p, m)
  BY FrameClrOutput
<1>2. Marks(m, p.codec_use, p.not_ready \ {i}, Referred(p), DisplayQueue(p))
  BY FrameClrOutput
<1>3. q = ClrAllInputs(m, R)
  OBVIOUS
<1> HIDE DEF m
<1>4. Fewer(p, m) /\ R \subseteq Referred(m)
  BY <1>1, <1>2 DEF Fewer, Later, Marks
<1>5. FramePool(q) /\ Fewer(m, q)
  BY <1>1, <1>3, <1>4, FrameClrInputs
<1>6. Marks(q, m.codec_use, m.not_ready, Referred(m) \ R, DisplayQueue(m))
  BY <1>1, <1>3, <1>4, FrameClrInputs
<1>7. Fewer(p, q)
  BY <1>1, <1>4, <1>5, FewerTrans
<1> QED BY <1>2, <1>5, <1>6, <1>7 DEF Marks

(* What the first task holds. *)
LEMMA FirstTask ==
    ASSUME Base, SlotsInv, Undone # <<>>, IsDecode(Undone[1])
    PROVE  /\ Undone[1].output \in slots.not_ready
           /\ Undone[1].refer \subseteq Referred(slots) /\ Single(Undone[1].refer)
           /\ Parts(OutputsOf(Tail(Undone)), OwnOutput, slots.not_ready \ {Undone[1].output})
           /\ Parts(RefersOf(Tail(Undone)), OwnRefer, Referred(slots) \ Undone[1].refer)
           /\ AllSingle(Tail(Undone))
<1>1. /\ OutputsOf(Tail(Undone)) = Tail(OutputsOf(Undone)) /\ OutputsOf(Undone) # <<>>
      /\ RefersOf(Tail(Undone)) = Tail(RefersOf(Undone)) /\ RefersOf(Undone) # <<>>
      /\ OutputsOf(Undone)[1] = {Undone[1].output}
      /\ RefersOf(Undone)[1] = Undone[1].refer
  BY UndoneTypes, SlotsShortened
<1>2. /\ Parts(OutputsOf(Undone), OwnOutput, slots.not_ready)
      /\ Parts(RefersOf(Undone), OwnRefer, Referred(slots))
      /\ AllSingle(Undone)
  BY DEF SlotsInv, Shares
<1>3. 1 \in 1 .. Len(OutputsOf(Undone)) /\ 1 \in 1 .. Len(RefersOf(Undone))
  BY <1>1, UndoneTypes
<1>4. Undone[1].output \in slots.not_ready /\ Undone[1].refer \subseteq Referred(slots)
  BY <1>1, <1>2, <1>3 DEF Parts
<1>5. 1 \in 1 .. Len(Undone)
  BY UndoneTypes
<1>6. Single(Undone[1].refer)
  BY <1>2, <1>5 DEF AllSingle
<1>7. Parts(OutputsOf(Tail(Undone)), OwnOutput, slots.not_ready \ {Undone[1].output})
  <2>1. OutputsOf(Undone) \in Seq(SUBSET (FrameSlots \cup {NoSlot}))
    BY UndoneTypes
  <2>2. Parts(Tail(OutputsOf(Undone)), OwnOutput, slots.not_ready \ OutputsOf(Undone)[1])
    BY <1>1, <1>2, <2>1, PartsTail, Zenon
  <2> QED BY <1>1, <2>2
<1>8. Parts(RefersOf(Tail(Undone)), OwnRefer, Referred(slots) \ Undone[1].refer)
  <2>1. RefersOf(Undone) \in Seq(SUBSET FrameSlots)
    BY UndoneTypes
  <2>2. Parts(Tail(RefersOf(Undone)), OwnRefer, Referred(slots) \ RefersOf(Undone)[1])
    BY <1>1, <1>2, <2>1, PartsTail, Zenon
  <2> QED BY <1>1, <2>2
<1>9. AllSingle(Tail(Undone))
  BY <1>2, UndoneTypes, Shortened DEF AllSingle
<1> QED BY <1>4, <1>6, <1>7, <1>8, <1>9

(* The marks of the first task are cleared. *)
LEMMA SlotsWasCleared ==
    ASSUME Base, SlotsInv, WasCleared
    PROVE  /\ SlotsInv' /\ Fewer(slots, slots')
           /\ DisplayQueue(slots') = DisplayQueue(slots)
<1>1. /\ codec' = codec /\ Undone # <<>> /\ IsDecode(Undone[1]) /\ Undone' = Tail(Undone)
      /\ slots' = ClrAllInputs(ClrFlag(slots, Undone[1].output, "HAL_OUTPUT"),
                               Undone[1].refer)
      /\ MarksKept /\ (AtParse' => AtParse)
  BY DEF WasCleared
<1>2. /\ Undone[1].output \in slots.not_ready
      /\ Undone[1].refer \subseteq Referred(slots) /\ Single(Undone[1].refer)
      /\ Parts(OutputsOf(Tail(Undone)), OwnOutput, slots.not_ready \ {Undone[1].output})
      /\ Parts(RefersOf(Tail(Undone)), OwnRefer, Referred(slots) \ Undone[1].refer)
      /\ AllSingle(Tail(Undone))
  BY <1>1, FirstTask
<1>3. FramePool(slots)
  BY DEF SlotsInv, Shares
<1>4. FramePool(slots') /\ Fewer(slots, slots')
  BY <1>1, <1>2, <1>3, FrameClrTask
<1>5. Marks(slots', slots.codec_use, slots.not_ready \ {Undone[1].output},
            Referred(slots) \ Undone[1].refer, DisplayQueue(slots))
  BY <1>1, <1>2, <1>3, FrameClrTask
<1>6. OwnOutput' = OwnOutput /\ OwnRefer' = OwnRefer
  BY <1>1 DEF MarksKept, OwnOutput, OwnRefer
<1>7. Shares(slots', codec.ref0, Undone', OwnOutput, OwnRefer)
  BY <1>1, <1>2, <1>4, <1>5 DEF SlotsInv, Shares, Marks
<1>8. task'.parsed_rdy => task'.info.output = codec'.ref0
  BY <1>1 DEF MarksKept, SlotsInv
<1>9. /\ slots'.used_count <= NumSlots
      /\ AtParse' => slots'.used_count < NumSlots
  BY <1>1, <1>3, <1>4, FewerCount DEF SlotsInv
<1>10. DisplayQueue(slots') = DisplayQueue(slots)
  BY <1>5 DEF Marks
<1> QED BY <1>1, <1>4, <1>6, <1>7, <1>8, <1>9, <1>10 DEF SlotsInv

(* The parser gives up the reference it holds. *)
LEMMA ReferDropped ==
    ASSUME Base, NEW p, FramePool(p), codec.ref0 \in p.codec_use \/ codec.ref0 = NoSlot,
           NEW q, q = DropRefer(p)
    PROVE  /\ FramePool(q) /\ Fewer(p, q)
           /\ Marks(q, p.codec_use \ ({codec.ref0} \ {NoSlot}), p.not_ready, Referred(p),
                    DisplayQueue(p))
<1>1. CASE codec.ref0 = NoSlot
  <2>1. q = p /\ p.used_count \in Int
    BY <1>1, FrameFields DEF DropRefer
  <2> QED BY <1>1, <2>1 DEF Fewer, Marks
<1>2. CASE codec.ref0 # NoSlot
  <2>1. q = ClrFlag(p, codec.ref0, "CODEC_USE") /\ codec.ref0 \in p.codec_use
    BY <1>2 DEF DropRefer
  <2>2. FramePool(q) /\ Later(p, q)
    BY <2>1, FrameClrCodec
  <2>3. Marks(q, p.codec_use \ {codec.ref0}, p.not_ready, Referred(p), DisplayQueue(p))
    BY <2>1, FrameClrCodec
  <2> QED BY <1>2, <2>2, <2>3 DEF Fewer, Later, Marks
<1> QED BY <1>1, <1>2

(* What a reset takes from the pool, before the display queue is shown. *)
LEMMA PictureDropped ==
    ASSUME Base, NEW p, FramePool(p), p.codec_use = {},
           p.not_ready = OwnOutput, Referred(p) = OwnRefer, Single(OwnRefer),
           task.parsed_rdy => task.info.output \notin Referred(p),
           NEW q, q = DropParsed(DropChange(p))
    PROVE  /\ FramePool(q) /\ Fewer(p, q)
           /\ q.codec_use = {} /\ q.not_ready = {} /\ Referred(q) = {}
<1>0. "info_change" \in task.wait => task.parsed_rdy
  BY DEF Base, TaskInv
<1>1. CASE ~task.parsed_rdy
  <2>1. q = p /\ p.used_count \in Int
    BY <1>0, <1>1, FrameFields DEF DropParsed, DropChange
  <2> QED BY <1>1, <2>1 DEF Fewer, OwnOutput, OwnRefer
<1>2. CASE task.parsed_rdy
  <2> DEFINE i == task.info.output
             R == task.info.refer
  <2>1. /\ i \in p.not_ready /\ i \notin p.codec_use /\ i \notin Referred(p)
        /\ p.not_ready \ {i} = {} /\ Referred(p) = R /\ Single(R)
        /\ R \subseteq Referred(p) /\ Referred(p) \ R = {}
    BY <1>2 DEF OwnOutput, OwnRefer
  <2>2. CASE "info_change" \in task.wait
    <3> DEFINE m == ClrFlag(SlotReset(p, i), i, "HAL_OUTPUT")
    <3>1. q = ClrAllInputs(m, R)
      BY <1>2, <2>2 DEF DropParsed, DropChange, ClrAllInputs
    <3>2. FramePool(m) /\ Later(p, m)
      BY <2>1, FrameReset
    <3>3. Marks(m, p.codec_use, p.not_ready \ {i}, Referred(p),
                RemoveFirst(DisplayQueue(p), i))
      BY <2>1, FrameReset
    <3> HIDE DEF m, i, R
    <3>4. Fewer(p, m) /\ R \subseteq Referred(m)
      BY <2>1, <3>2, <3>3 DEF Fewer, Later, Marks
    <3>5. FramePool(q) /\ Fewer(m, q)
      BY <2>1, <3>1, <3>2, <3>4, FrameClrInputs
    <3>6. Marks(q, m.codec_use, m.not_ready, Referred(m) \ R, DisplayQueue(m))
      BY <2>1, <3>1, <3>2, <3>4, FrameClrInputs
    <3>7. Fewer(p, q)
      BY <3>2, <3>4, <3>5, FewerTrans
    <3> QED BY <2>1, <3>3, <3>5, <3>6, <3>7 DEF Marks
  <2>3. CASE "info_change" \notin task.wait
    <3>1. q = ClrAllInputs(ClrFlag(p, i, "HAL_OUTPUT"), R)
      BY <1>2, <2>3 DEF DropParsed, DropChange, ClrAllInputs
    <3> HIDE DEF i, R
    <3>2. FramePool(q) /\ Fewer(p, q)
      BY <2>1, <3>1, FrameClrTask
    <3>3. Marks(q, p.codec_use, p.not_ready \ {i}, Referred(p) \ R, DisplayQueue(p))
      BY <2>1, <3>1, FrameClrTask
    <3> QED BY <2>1, <3>2, <3>3 DEF Marks
  <2> QED BY <2>2, <2>3
<1> QED BY <1>1, <1>2

(* A reset empties the pool. *)
LEMMA SlotsAbandoned ==
    ASSUME Base, SlotsInv, Abandoned
    PROVE  SlotsInv' /\ Fewer(slots, slots') /\ DisplayQueue(slots') = <<>>
<1> DEFINE p == DropRefer(slots)
           q == DropParsed(DropChange(p))
           e == <<>>
<1>1. /\ slots' = Drained(q) /\ codec'.ref0 = NoSlot /\ ~task'.parsed_rdy /\ ~AtParse'
      /\ Undone = e /\ Undone' = e
  BY DEF Abandoned, NoneInHand, Elsewhere
<1> HIDE DEF e
<1>2. /\ FramePool(slots) /\ slots.codec_use = {codec.ref0} \ {NoSlot}
      /\ codec.ref0 \notin Referred(slots) /\ Single(OwnRefer)
      /\ task.parsed_rdy => task.info.output = codec.ref0
      /\ Parts(OutputsOf(e), OwnOutput, slots.not_ready)
      /\ Parts(RefersOf(e), OwnRefer, Referred(slots))
  BY <1>1 DEF SlotsInv, Shares
<1>3. OutputsOf(e) = <<>> /\ RefersOf(e) = <<>>
  BY DEF OutputsOf, RefersOf, e
<1>4. slots.not_ready = OwnOutput /\ Referred(slots) = OwnRefer
  BY <1>2, <1>3, PartsAlone
<1>5. codec.ref0 \in slots.codec_use \/ codec.ref0 = NoSlot
  BY <1>2
<1>6. FramePool(p) /\ Fewer(slots, p)
  BY <1>2, <1>5, ReferDropped
<1>7. Marks(p, slots.codec_use \ ({codec.ref0} \ {NoSlot}), slots.not_ready,
            Referred(slots), DisplayQueue(slots))
  BY <1>2, <1>5, ReferDropped
<1> HIDE DEF p
<1>8. /\ p.codec_use = {} /\ p.not_ready = OwnOutput /\ Referred(p) = OwnRefer
      /\ task.parsed_rdy => task.info.output \notin Referred(p)
  BY <1>2, <1>4, <1>7 DEF Marks
<1>9. /\ FramePool(q) /\ Fewer(p, q)
      /\ q.codec_use = {} /\ q.not_ready = {} /\ Referred(q) = {}
  BY <1>2, <1>6, <1>8, PictureDropped
<1> HIDE DEF q
<1>10. FramePool(slots') /\ Later(q, slots')
  BY <1>1, <1>9, FrameDrained
<1>11. Marks(slots', q.codec_use, q.not_ready, Referred(q),
             SubSeq(DisplayQueue(q), Len(Displayed(q)) + 1, Len(DisplayQueue(q))))
  BY <1>1, <1>9, FrameDrained
<1>12. slots'.codec_use = {} /\ slots'.not_ready = {} /\ Referred(slots') = {}
  BY <1>9, <1>11 DEF Marks
<1>13. Fewer(slots, slots')
  <2>1. Fewer(q, slots')
    BY <1>10 DEF Fewer, Later
  <2>2. Fewer(p, slots')
    BY <1>6, <1>9, <1>10, <2>1, FewerTrans
  <2> QED BY <1>2, <1>6, <1>10, <2>2, FewerTrans
<1>14. Parts(<<>>, {}, {})
  BY DEF Parts
<1>15. OwnOutput' = {} /\ OwnRefer' = {}
  BY <1>1 DEF OwnOutput, OwnRefer
<1>16. AllSingle(e) /\ Single({})
  BY DEF AllSingle, Single, e
<1>17. Shares(slots', NoSlot, e, {}, {})
  <2>1. NoSlot \notin {} /\ {NoSlot} \ {NoSlot} = {}
    OBVIOUS
  <2> QED BY <1>3, <1>10, <1>12, <1>14, <1>16, <2>1 DEF Shares
<1>19. DisplayQueue(slots') = <<>>
  BY <1>9, <1>11, FrameDrainedAll DEF Marks
<1>18. slots'.used_count <= NumSlots
  BY <1>2, <1>10, <1>13, FewerCount DEF SlotsInv
<1> QED BY <1>1, <1>13, <1>15, <1>17, <1>18, <1>19 DEF SlotsInv

(* The picture of the packet in hand. *)
PictureOf(n) == [pts |-> n, info |-> stream[n].info]

(* The pool after slot i was taken for frame f. *)
Grown(p, q, i, f) ==
    /\ i \notin p.on_used /\ i \in q.on_used
    /\ q.on_used \subseteq p.on_used \cup {i}
    /\ q.frame[i] = f /\ \A j \in q.on_used : j # i => q.frame[j] = p.frame[j]

(* What the parser starts from. *)
LEMMA ParseStart ==
    ASSUME Base, SlotsInv, NEW i, ParsedTo(i)
    PROVE  LET R == References(task.info.pkt)
               f == PictureOf(task.info.pkt)
           IN  /\ FramePool(slots) /\ FreeSlots(slots) # {} /\ i = FirstUnused(slots)
               /\ i \in FrameSlots /\ f \in Frames
               /\ R \subseteq {codec.ref0} /\ Single(R)
               /\ R = {} \/ \E r \in slots.on_used : R = {r}
               /\ R \cap Referred(slots) = {}
               /\ slots' = DropRefer(ParsedFrom(slots, i, f, R))
<1> DEFINE R == References(task.info.pkt)
           f == PictureOf(task.info.pkt)
<1>1. /\ AtParse /\ task.curr_rdy /\ ~Undecodable(task.info.pkt)
      /\ i = FirstUnused(slots) /\ slots' = Parsed(i, task.info.pkt)
  BY DEF ParsedTo
<1>2. FramePool(slots) /\ slots.used_count < NumSlots
  BY <1>1 DEF SlotsInv, Shares
<1>3. FreeSlots(slots) # {} /\ i \in FrameSlots
  BY <1>1, <1>2, SlotLeft
<1>4. f \in Frames
  <2>1. /\ session \in Sessions /\ task.info.pkt \in 1 .. sent
        /\ sent \in Nat /\ sent <= Len(stream)
    BY <1>1 DEF Base, TypeInv, TaskInv
  <2>2. task.info.pkt \in 1 .. Len(stream) /\ task.info.pkt \in Nat
    BY <2>1, SessionFacts
  <2>3. stream[task.info.pkt].info \in Geometries
    BY <2>1, <2>2, SessionFacts
  <2> QED BY <2>2, <2>3 DEF PictureOf, Frames
<1>5. R \in SUBSET FrameSlots /\ R \subseteq {codec.ref0}
  BY <1>1, ReferenceFacts DEF AtParse
<1>6. R = {} \/ R = {codec.ref0}
  BY <1>5
<1>7. R = {} \/ \E r \in slots.on_used : R = {r}
  <2>1. CASE R = {codec.ref0}
    <3>1. codec.ref0 \in FrameSlots
      BY <1>5, <2>1
    <3>2. codec.ref0 # NoSlot
      BY <3>1 DEF NoSlot, FrameSlots
    <3>3. codec.ref0 \in slots.codec_use
      BY <3>2 DEF SlotsInv, Shares
    <3>4. codec.ref0 \in slots.on_used
      BY <1>2, <3>1, <3>3, FrameFields
    <3> QED BY <2>1, <3>4
  <2> QED BY <1>6, <2>1
<1>8. R \cap Referred(slots) = {}
  BY <1>5 DEF SlotsInv, Shares
<1>9. slots' = DropRefer(ParsedFrom(slots, i, f, R))
  BY <1>1 DEF Parsed, ParsedFrom, PictureOf, SetAllInputs
<1>10. Single(R)
  BY <1>6 DEF Single
<1> QED BY <1>1, <1>2, <1>3, <1>4, <1>5, <1>7, <1>8, <1>9, <1>10

(* What the pool is after a packet was parsed. *)
LEMMA ParsedSlots ==
    ASSUME Base, SlotsInv, NEW i, ParsedTo(i)
    PROVE  /\ FramePool(slots') /\ i \in FrameSlots
           /\ Grown(slots, slots', i, PictureOf(task.info.pkt))
           /\ slots'.used_count <= NumSlots
           /\ Marks(slots', {i}, slots.not_ready \cup {i},
                    Referred(slots) \cup References(task.info.pkt),
                    Append(DisplayQueue(slots), i))
<1> DEFINE R == References(task.info.pkt)
           f == PictureOf(task.info.pkt)
           q == ParsedFrom(slots, i, f, R)
<1>1. /\ FramePool(slots) /\ FreeSlots(slots) # {} /\ i = FirstUnused(slots)
      /\ i \in FrameSlots /\ f \in Frames
      /\ R \subseteq {codec.ref0} /\ Single(R)
      /\ R = {} \/ \E r \in slots.on_used : R = {r}
      /\ R \cap Referred(slots) = {}
      /\ slots' = DropRefer(q)
  BY ParseStart
<1>0. q = ParsedFrom(slots, i, f, R)
  OBVIOUS
<1> HIDE DEF R, f, q
<1>2. /\ FramePool(q) /\ i \in FrameSlots \ slots.on_used
      /\ q.on_used = slots.on_used \cup {i} /\ q.frame = [slots.frame EXCEPT ![i] = f]
      /\ q.used_count = slots.used_count + 1
  <2>1. FramePool(q) /\ i \in FrameSlots \ slots.on_used
    BY <1>0, <1>1, FrameParsed
  <2>2. Extended(slots, q, i, f)
    BY <1>0, <1>1, FrameParsed
  <2> QED BY <2>1, <2>2 DEF Extended
<1>3. Marks(q, slots.codec_use \cup {i}, slots.not_ready \cup {i}, Referred(slots) \cup R,
            Append(DisplayQueue(slots), i))
  BY <1>0, <1>1, FrameParsed
<1>4. slots.codec_use = {codec.ref0} \ {NoSlot} /\ codec.ref0 \in FrameSlots \cup {NoSlot}
  BY UndoneTypes DEF SlotsInv, Shares
<1>5. codec.ref0 \in q.codec_use \/ codec.ref0 = NoSlot
  BY <1>3, <1>4 DEF Marks
<1>6. FramePool(slots') /\ Fewer(q, slots')
  BY <1>1, <1>2, <1>5, ReferDropped
<1>7. Marks(slots', q.codec_use \ ({codec.ref0} \ {NoSlot}), q.not_ready, Referred(q),
            DisplayQueue(q))
  BY <1>1, <1>2, <1>5, ReferDropped
<1>8. codec.ref0 # i
  <2>1. CASE codec.ref0 = NoSlot
    BY <1>2, <2>1 DEF NoSlot, FrameSlots
  <2>2. CASE codec.ref0 # NoSlot
    <3>1. codec.ref0 \in slots.codec_use
      BY <1>4, <2>2
    <3>2. codec.ref0 \in slots.on_used
      BY <1>1, <1>4, <2>2, <3>1, FrameFields
    <3> QED BY <1>2, <3>2
  <2> QED BY <2>1, <2>2
<1>9. q.codec_use \ ({codec.ref0} \ {NoSlot}) = {i}
  BY <1>3, <1>4, <1>8 DEF Marks
<1>10. Marks(slots', {i}, slots.not_ready \cup {i}, Referred(slots) \cup R,
             Append(DisplayQueue(slots), i))
  BY <1>3, <1>7, <1>9 DEF Marks
<1>11. i \in slots'.codec_use /\ slots'.codec_use \subseteq FrameSlots
  BY <1>6, <1>10, FrameFields DEF Marks
<1>12. i \in slots'.on_used
  BY <1>6, <1>11, FrameFields
<1>13. slots.frame \in [FrameSlots -> Frames \cup {None}]
  <2>1. slots \in PoolType(FrameSlots, Frames, Geometries)
    BY <1>1 DEF FramePool
  <2> QED BY <2>1, PoolFields
<1>14. /\ slots'.on_used \subseteq slots.on_used \cup {i}
       /\ \A j \in slots'.on_used : slots'.frame[j] = q.frame[j]
  BY <1>2, <1>6 DEF Fewer
<1>15. slots.on_used \subseteq FrameSlots
  BY <1>1, FrameFields
<1>16. Grown(slots, slots', i, f)
  BY <1>2, <1>12, <1>13, <1>14, <1>15 DEF Grown
<1>17. slots'.used_count <= NumSlots
  <2>1. slots.used_count < NumSlots /\ slots.used_count \in Int /\ NumSlots \in Nat
    BY <1>1, FrameFields, CountAssumption DEF SlotsInv, ParsedTo
  <2>2. slots'.used_count <= q.used_count /\ slots'.used_count \in Int
    BY <1>6, FrameFields DEF Fewer
  <2> QED BY <1>2, <2>1, <2>2
<1> QED BY <1>2, <1>6, <1>10, <1>16, <1>17 DEF R, f

(* A packet is parsed. *)
LEMMA SlotsParsed ==
    ASSUME Base, SlotsInv, NEW i, ParsedTo(i)
    PROVE  SlotsInv'
<1> DEFINE R == References(task.info.pkt)
<1>1. /\ FramePool(slots') /\ i \in FrameSlots /\ slots'.used_count <= NumSlots
      /\ Grown(slots, slots', i, PictureOf(task.info.pkt))
      /\ Marks(slots', {i}, slots.not_ready \cup {i}, Referred(slots) \cup R,
               Append(DisplayQueue(slots), i))
  BY ParsedSlots
<1>2. /\ FramePool(slots) /\ R \subseteq {codec.ref0} /\ Single(R)
      /\ R \cap Referred(slots) = {}
      /\ R = {} \/ \E r \in slots.on_used : R = {r}
  BY ParseStart
<1> HIDE DEF R
<1>3. i \notin slots.on_used /\ i \in FrameSlots
  BY <1>1 DEF Grown
<1>4. i \notin slots.not_ready /\ i \notin Referred(slots)
  BY <1>2, <1>3, FrameFields
<1>5. i \notin R
  BY <1>2, <1>3
<1>6. /\ codec'.ref0 = i /\ Undone' = Undone /\ ~AtParse'
      /\ ~task.parsed_rdy /\ task'.parsed_rdy /\ task'.info.output = i
      /\ task'.info.refer = R
  BY DEF ParsedTo, ListsKept, Elsewhere, AtParse, R
<1>7. /\ OwnOutput = {} /\ OwnRefer = {} /\ OwnOutput' = {i} /\ OwnRefer' = R
  BY <1>6 DEF OwnOutput, OwnRefer
<1>8. /\ Parts(OutputsOf(Undone), {}, slots.not_ready)
      /\ Parts(RefersOf(Undone), {}, Referred(slots))
      /\ AllSingle(Undone)
  BY <1>7 DEF SlotsInv, Shares
<1>9. Parts(OutputsOf(Undone), {i}, slots.not_ready \cup {i})
  BY <1>4, <1>8, PartsTake
<1>10. Parts(RefersOf(Undone), R, Referred(slots) \cup R)
  BY <1>2, <1>8, PartsTake
<1>11. {i} = {i} \ {NoSlot}
  BY <1>1 DEF FrameSlots, NoSlot
<1>12. Shares(slots', i, Undone, {i}, R)
  BY <1>1, <1>2, <1>4, <1>5, <1>8, <1>9, <1>10, <1>11 DEF Shares, Marks
<1> QED BY <1>1, <1>6, <1>7, <1>12 DEF SlotsInv

(* Every step keeps the accounts of the frame slots. *)
LEMMA SlotsStep ==
    ASSUME Base, SlotsInv, Kinds
    PROVE  SlotsInv'
<1>1. CASE Taken
  BY <1>1, SlotsSame DEF Taken, Elsewhere, ListsKept
<1>2. ASSUME NEW i, Copied(i) PROVE SlotsInv'
  BY <1>2, SlotsSame DEF Copied, Elsewhere, ListsKept
<1>3. CASE WasRead
  BY <1>3, SlotsSame DEF WasRead
<1>4. CASE Ended
  BY <1>4, SlotsSame DEF Ended, Elsewhere, ListsKept
<1> QED BY <1>1, <1>2, <1>3, <1>4, SlotsAside, SlotsParsed, SlotsStarted, SlotsRefused,
           SlotsAbandoned, SlotsWasCleared DEF Kinds

(* There is a slot when the parser takes one. *)
LEMMA RoomThere ==
    ASSUME Base, PacketInv, SlotsInv
    PROVE  Room
<1>1. ASSUME task.pc = "copy", ~task.copy_rdy PROVE FirstUnused(pslots) \in 0 .. 2
  <2>1. FreeSlots(pslots) # {}
    BY <1>1, PacketRoom DEF CanCopy
  <2>2. PacketCount \in Nat /\ PacketCount <= 3
    BY DEF PacketCount
  <2>3. pslots \in PoolType(0 .. PacketCount - 1, NoFrames, NoInfos)
    BY DEF PacketInv, PacketPool, PacketSlots
  <2>4. FirstUnused(pslots) \in 0 .. PacketCount - 1
    BY <2>1, <2>2, <2>3, FirstUnusedFacts
  <2> QED BY <2>2, <2>4
<1>2. ASSUME task.pc = "parse", ~task.parsed_rdy PROVE FirstUnused(slots) \in FrameSlots
  BY <1>2, SlotLeft DEF SlotsInv, Shares, AtParse
<1> QED BY <1>1, <1>2 DEF Room

(* The first state. *)
LEMMA SlotsFirst ==
    ASSUME Init
    PROVE  SlotsInv
<1>1. Base
  BY BaseInit
<1>2. /\ session \in Sessions /\ task = NewTask("check") /\ hal.pc = "check"
      /\ codec.ref0 = NoSlot /\ tasks = GroupInit(TaskCount, NoInfo)
      /\ slots = [SlotsInit(NumSlots) EXCEPT !.info = InitInfo, !.info_set = InitInfo]
  BY DEF Init
<1>3. NumSlots \in Nat /\ NumSlots > 0
  BY CountAssumption
<1>4. InitInfo \in Geometries
  BY <1>2 DEF InitInfo, Geometries
<1>5. /\ slots \in PoolType(FrameSlots, Frames, Geometries)
      /\ slots.on_used = {} /\ slots.not_ready = {} /\ slots.codec_use = {}
      /\ slots.hal_output = {} /\ slots.used_count = 0
      /\ \A i \in FrameSlots : slots.hal_use[i] = 0 /\ slots.queue_use[i] = 0
      /\ slots.queue["QUEUE_DISPLAY"] = <<>> /\ slots.queue["QUEUE_DEINTERLACE"] = <<>>
      /\ Slots(slots) = FrameSlots
  <2> DEFINE H == [i \in FrameSlots |-> 0]
             F == [i \in FrameSlots |-> None]
             L == [t \in QueueTypes |-> <<>>]
  <2>1. slots = [ on_used |-> {}, not_ready |-> {}, codec_use |-> {}, hal_output |-> {},
                  hal_use |-> H, queue_use |-> H, frame |-> F, queue |-> L,
                  used_count |-> 0, info |-> InitInfo, info_set |-> InitInfo,
                  info_changed |-> FALSE, dumped |-> FALSE ]
    BY <1>2 DEF SlotsInit, FrameSlots
  <2>2. /\ H \in [FrameSlots -> 0 .. HalUseRange - 1]
        /\ H \in [FrameSlots -> 0 .. QueueUseRange - 1]
    BY DEF HalUseRange, QueueUseRange
  <2>3. F \in [FrameSlots -> Frames \cup {None}] /\ L \in [QueueTypes -> Seq(FrameSlots)]
    OBVIOUS
  <2>4. /\ \A i \in FrameSlots : H[i] = 0
        /\ L["QUEUE_DISPLAY"] = <<>> /\ L["QUEUE_DEINTERLACE"] = <<>>
        /\ DOMAIN H = FrameSlots
    BY DEF QueueTypes
  <2> HIDE DEF H, F, L
  <2>5. slots \in PoolType(FrameSlots, Frames, Geometries)
    BY <1>4, <2>1, <2>2, <2>3 DEF PoolType
  <2> QED BY <2>1, <2>4, <2>5 DEF Slots
<1>6. DisplayQueue(slots) = <<>> /\ ToSet(<<>>) = {} /\ IsInjective(<<>>)
  BY <1>5 DEF DisplayQueue, ToSet, IsInjective
<1>7. UsedOK(slots)
  BY <1>5 DEF UsedOK, Idle
<1>8. CountCovers(slots)
  BY <1>5, FS_EmptySet DEF CountCovers
<1>9. FramePool(slots)
  BY <1>5, <1>6, <1>7, <1>8 DEF FramePool
<1>10. Referred(slots) = {}
  BY <1>5 DEF Referred
<1>11. Undone = <<>>
  <2>1. tasks.list["TASK_PROCESSING"] = <<>>
    BY <1>2 DEF GroupInit, TaskStatuses
  <2>2. Len(Todo) = 0 /\ Todo \in Seq(TaskInfos)
    BY <1>1, <2>1, TaskLists DEF Base
  <2> QED BY <1>2, <2>2 DEF Undone
<1>12. OwnOutput = {} /\ OwnRefer = {} /\ ~task.parsed_rdy /\ ~AtParse
  BY <1>2 DEF NewTask, OwnOutput, OwnRefer, AtParse
<1>13. Shares(slots, NoSlot, <<>>, {}, {})
  <2>1. OutputsOf(<<>>) = <<>> /\ RefersOf(<<>>) = <<>>
    BY DEF OutputsOf, RefersOf
  <2>2. Parts(<<>>, {}, {})
    BY DEF Parts
  <2>3. AllSingle(<<>>) /\ Single({})
    BY DEF AllSingle, Single
  <2>4. {NoSlot} \ {NoSlot} = {} /\ NoSlot \notin {}
    OBVIOUS
  <2> QED BY <1>5, <1>9, <1>10, <2>1, <2>2, <2>3, <2>4 DEF Shares
<1> QED BY <1>2, <1>3, <1>5, <1>11, <1>12, <1>13 DEF SlotsInv

-----------------------------------------------------------------------------
(* What the decoder keeps: the threads' accounts and both pools'. *)
IInv == Base /\ PacketInv /\ SlotsInv

(* Every step keeps the accounts. *)
LEMMA IInvStep ==
    ASSUME IInv, [Next]_vars
    PROVE  IInv'
<1>1. Room
  BY RoomThere DEF IInv
<1>2. Kinds
  BY StepKinds DEF IInv
<1>3. Base'
  BY <1>1, BaseStep DEF IInv
<1> QED BY <1>2, <1>3, PacketStep, SlotsStep DEF IInv

(* The accounts hold in every state. *)
THEOREM Accounts == Spec => []IInv
<1>1. Init => IInv
  BY BaseInit, PacketFirst, SlotsFirst DEF IInv
<1>2. IInv /\ [Next]_vars => IInv'
  BY IInvStep
<1> QED BY <1>1, <1>2, PTL DEF Spec

(* A reset leaves no task. *)
THEOREM ResetLeavesNoTask == Spec => []ResetQuiesced
<1>1. IInv => ResetQuiesced
  BY BaseQuiesced DEF IInv
<1> QED BY <1>1, Accounts, PTL

(* A picture with number x was taken from the packets before those of m,   *)
(* and before the one in hand, as long as that is not parsed.              *)
Past(x, m, n, t) ==
    /\ x <= n
    /\ \A k \in 1 .. Len(m) : x < m[k]
    /\ t.curr_rdy /\ ~t.parsed_rdy => x < t.info.pkt

(* The packets that wait are in the order they were put. *)
Waiting(m, t) ==
    /\ \A j, k \in 1 .. Len(m) : j < k => m[j] < m[k]
    /\ t.curr_rdy => \A k \in 1 .. Len(m) : t.info.pkt < m[k]

(* How the packets and the one in hand change. *)
PacketsStep ==
    \/ PacketsMove /\ task'.curr_rdy = task.curr_rdy /\ task'.info.pkt = task.info.pkt
       /\ (task.parsed_rdy => task'.parsed_rdy)
    \/ /\ sent' = sent /\ mPackets # <<>> /\ mPackets' = Tail(mPackets)
       /\ task'.info.pkt = Head(mPackets)
    \/ mPackets' = mPackets /\ sent' = sent /\ ~task'.curr_rdy

(* Every step is one of these. *)
LEMMA KindsPackets ==
    ASSUME Base, Kinds
    PROVE  PacketsStep
<1>1. CASE Aside
  BY <1>1 DEF Aside, MarksKept, PacketsStep
<1>2. CASE Taken
  BY <1>2 DEF Taken, Elsewhere, PacketsStep
<1>3. ASSUME NEW i, Copied(i) PROVE PacketsStep
  <2>1. /\ mPackets' = mPackets /\ sent' = sent
        /\ task'.curr_rdy = task.curr_rdy /\ task'.info.pkt = task.info.pkt
        /\ ~task.parsed_rdy /\ ~task'.parsed_rdy
    BY <1>3 DEF Copied, Elsewhere
  <2> QED BY <2>1 DEF PacketsStep, PacketsMove
<1>4. ASSUME NEW i, ParsedTo(i) PROVE PacketsStep
  BY <1>4 DEF ParsedTo, Elsewhere, PacketsStep, PacketsMove
<1>5. CASE Started \/ Refused \/ Abandoned
  BY <1>5 DEF Started, Refused, Abandoned, Elsewhere, NoneInHand, PacketsStep
<1>6. CASE WasRead \/ WasCleared \/ Ended
  BY <1>6 DEF WasRead, WasCleared, Ended, MarksKept, Elsewhere, PacketsStep, PacketsMove
<1> QED BY <1>1, <1>2, <1>3, <1>4, <1>5, <1>6 DEF Kinds

(* What the packets' types are. *)
LEMMA PacketTypes ==
    ASSUME Base
    PROVE  /\ mPackets \in Seq(Nat) /\ sent \in Nat /\ Len(mPackets) \in Nat
           /\ \A k \in 1 .. Len(mPackets) : mPackets[k] \in Nat /\ mPackets[k] <= sent
           /\ task.info.pkt \in Nat
           /\ task.curr_rdy => task.info.pkt <= sent
<1>1. mPackets \in Seq(Nat) /\ sent \in Nat
  BY DEF Base, TypeInv
<1>2. \A k \in 1 .. Len(mPackets) : mPackets[k] \in 1 .. sent
  BY DEF Base, TaskInv
<1>3. \A k \in 1 .. Len(mPackets) : mPackets[k] \in Nat /\ mPackets[k] <= sent
  BY <1>1, <1>2
<1>4. task.info \in TaskInfos
  BY DEF Base, TypeInv, DecTasks
<1>5. task.info.pkt \in Nat
  BY <1>4 DEF TaskInfos
<1>6. task.curr_rdy => task.info.pkt \in 1 .. sent
  BY DEF Base, TaskInv
<1>7. task.curr_rdy => task.info.pkt <= sent
  BY <1>1, <1>6
<1> QED BY <1>1, <1>3, <1>5, <1>7

(* A number that is past stays so. *)
LEMMA PastKept ==
    ASSUME Base, PacketsStep, NEW x \in Nat, Past(x, mPackets, sent, task)
    PROVE  Past(x, mPackets', sent', task')
<1>0. /\ mPackets \in Seq(Nat) /\ sent \in Nat /\ Len(mPackets) \in Nat
      /\ x <= sent /\ \A k \in 1 .. Len(mPackets) : x < mPackets[k]
      /\ task.curr_rdy /\ ~task.parsed_rdy => x < task.info.pkt
  BY PacketTypes DEF Past
<1>1. ASSUME mPackets' = Append(mPackets, sent + 1), sent' = sent + 1
      PROVE  x <= sent' /\ \A k \in 1 .. Len(mPackets') : x < mPackets'[k]
  <2>1. \A k \in 1 .. Len(mPackets') :
           \/ k \in 1 .. Len(mPackets) /\ mPackets'[k] = mPackets[k]
           \/ mPackets'[k] = sent + 1
    <3>1. sent + 1 \in Nat
      BY <1>0
    <3> QED BY <1>0, <1>1, <3>1, Appended
  <2>2. x < sent + 1 /\ x <= sent + 1
    BY <1>0
  <2> QED BY <1>0, <1>1, <2>1, <2>2
<1>2. ASSUME mPackets # <<>>, mPackets' = Tail(mPackets), sent' = sent
      PROVE  x <= sent' /\ (\A k \in 1 .. Len(mPackets') : x < mPackets'[k])
             /\ x < Head(mPackets)
  <2>1. /\ \A k \in 1 .. Len(mPackets') :
              mPackets'[k] = mPackets[k + 1] /\ k + 1 \in 1 .. Len(mPackets)
        /\ 1 \in 1 .. Len(mPackets) /\ Head(mPackets) = mPackets[1]
    BY <1>0, <1>2, Shortened
  <2> QED BY <1>0, <1>2, <2>1
<1>3. ASSUME mPackets' = <<>>, sent' = sent
      PROVE  x <= sent' /\ \A k \in 1 .. Len(mPackets') : x < mPackets'[k]
  BY <1>0, <1>3
<1>4. CASE /\ PacketsMove /\ task'.curr_rdy = task.curr_rdy
           /\ task'.info.pkt = task.info.pkt
           /\ (task.parsed_rdy => task'.parsed_rdy)
  <2>1. x <= sent' /\ \A k \in 1 .. Len(mPackets') : x < mPackets'[k]
    BY <1>0, <1>1, <1>2, <1>3, <1>4 DEF PacketsMove
  <2> QED BY <1>0, <1>4, <2>1 DEF Past
<1>5. CASE /\ sent' = sent /\ mPackets # <<>> /\ mPackets' = Tail(mPackets)
           /\ task'.info.pkt = Head(mPackets)
  BY <1>2, <1>5 DEF Past
<1>6. CASE mPackets' = mPackets /\ sent' = sent /\ ~task'.curr_rdy
  BY <1>0, <1>6 DEF Past
<1> QED BY <1>4, <1>5, <1>6 DEF PacketsStep

(* The packets stay in order. *)
LEMMA WaitingKept ==
    ASSUME Base, PacketsStep, Waiting(mPackets, task)
    PROVE  Waiting(mPackets', task')
<1>0. /\ mPackets \in Seq(Nat) /\ sent \in Nat /\ Len(mPackets) \in Nat
      /\ \A k \in 1 .. Len(mPackets) : mPackets[k] \in Nat /\ mPackets[k] <= sent
      /\ \A j, k \in 1 .. Len(mPackets) : j < k => mPackets[j] < mPackets[k]
      /\ task.curr_rdy => \A k \in 1 .. Len(mPackets) : task.info.pkt < mPackets[k]
      /\ task.curr_rdy => task.info.pkt <= sent
      /\ task.info.pkt \in Nat
  BY PacketTypes DEF Waiting
<1>1. ASSUME mPackets' = Append(mPackets, sent + 1)
      PROVE  /\ \A j, k \in 1 .. Len(mPackets') : j < k => mPackets'[j] < mPackets'[k]
             /\ task.curr_rdy => \A k \in 1 .. Len(mPackets') : task.info.pkt < mPackets'[k]
  <2>1. sent + 1 \in Nat
    BY <1>0
  <2>2. /\ Len(mPackets') = Len(mPackets) + 1 /\ mPackets'[Len(mPackets) + 1] = sent + 1
        /\ \A k \in 1 .. Len(mPackets) : mPackets'[k] = mPackets[k]
        /\ \A k \in 1 .. Len(mPackets') : k \in 1 .. Len(mPackets) \/ k = Len(mPackets) + 1
    BY <1>0, <1>1, <2>1, Appended
  <2>3. ASSUME NEW j \in 1 .. Len(mPackets'), NEW k \in 1 .. Len(mPackets'), j < k
        PROVE  mPackets'[j] < mPackets'[k]
    <3>1. j \in 1 .. Len(mPackets)
      BY <1>0, <2>2, <2>3
    <3>2. CASE k \in 1 .. Len(mPackets)
      BY <1>0, <2>2, <2>3, <3>1, <3>2
    <3>3. CASE k = Len(mPackets) + 1
      BY <1>0, <2>2, <3>1, <3>3
    <3> QED BY <2>2, <3>2, <3>3
  <2>4. ASSUME task.curr_rdy, NEW k \in 1 .. Len(mPackets')
        PROVE  task.info.pkt < mPackets'[k]
    BY <1>0, <2>2, <2>4, SMTT(30)
  <2> QED BY <2>3, <2>4
<1>2. ASSUME mPackets # <<>>, mPackets' = Tail(mPackets)
      PROVE  /\ \A j, k \in 1 .. Len(mPackets') : j < k => mPackets'[j] < mPackets'[k]
             /\ task.curr_rdy => \A k \in 1 .. Len(mPackets') : task.info.pkt < mPackets'[k]
             /\ \A k \in 1 .. Len(mPackets') : Head(mPackets) < mPackets'[k]
  <2>1. /\ \A k \in 1 .. Len(mPackets') :
              mPackets'[k] = mPackets[k + 1] /\ k + 1 \in 1 .. Len(mPackets)
        /\ 1 \in 1 .. Len(mPackets) /\ Head(mPackets) = mPackets[1]
    BY <1>0, <1>2, Shortened
  <2>2. ASSUME NEW j \in 1 .. Len(mPackets'), NEW k \in 1 .. Len(mPackets'), j < k
        PROVE  mPackets'[j] < mPackets'[k]
    BY <1>0, <2>1, <2>2
  <2>3. ASSUME NEW k \in 1 .. Len(mPackets')
        PROVE  Head(mPackets) < mPackets'[k]
    <3>1. 1 < k + 1 /\ k + 1 \in 1 .. Len(mPackets) /\ mPackets'[k] = mPackets[k + 1]
      BY <2>1, <2>3
    <3>2. mPackets[1] < mPackets[k + 1]
      BY <1>0, <2>1, <3>1
    <3> QED BY <2>1, <3>1, <3>2
  <2> QED BY <1>0, <2>1, <2>2, <2>3
<1>3. ASSUME mPackets' = <<>>
      PROVE  /\ \A j, k \in 1 .. Len(mPackets') : j < k => mPackets'[j] < mPackets'[k]
             /\ task.curr_rdy => \A k \in 1 .. Len(mPackets') : task.info.pkt < mPackets'[k]
  BY <1>3
<1>4. CASE /\ PacketsMove /\ task'.curr_rdy = task.curr_rdy
           /\ task'.info.pkt = task.info.pkt
           /\ (task.parsed_rdy => task'.parsed_rdy)
  <2>1. /\ \A j, k \in 1 .. Len(mPackets') : j < k => mPackets'[j] < mPackets'[k]
        /\ task.curr_rdy => \A k \in 1 .. Len(mPackets') : task.info.pkt < mPackets'[k]
    BY <1>0, <1>1, <1>2, <1>3, <1>4 DEF PacketsMove
  <2> QED BY <1>4, <2>1 DEF Waiting
<1>5. CASE /\ sent' = sent /\ mPackets # <<>> /\ mPackets' = Tail(mPackets)
           /\ task'.info.pkt = Head(mPackets)
  BY <1>2, <1>5 DEF Waiting
<1>6. CASE mPackets' = mPackets /\ sent' = sent /\ ~task'.curr_rdy
  BY <1>0, <1>6 DEF Waiting
<1> QED BY <1>4, <1>5, <1>6 DEF PacketsStep

(* The slots of the tasks hold what the tasks are for. *)
Numbered(p, info) ==
    /\ p.frame[info.output].pts = info.pkt
    /\ \A r \in info.refer : p.frame[r].pts < info.pkt

AllNumbered(p, U) == \A k \in 1 .. Len(U) : IsDecode(U[k]) => Numbered(p, U[k])

(* The tasks are under way in the order of their packets. *)
InTurn(U) ==
    \A j, k \in 1 .. Len(U) :
        j < k /\ IsDecode(U[j]) /\ IsDecode(U[k]) => U[j].pkt < U[k].pkt

Behind(U, n) == \A k \in 1 .. Len(U) : IsDecode(U[k]) => U[k].pkt < n

FrameInv ==
    /\ Waiting(mPackets, task)
    /\ \A i \in slots.on_used : Past(slots.frame[i].pts, mPackets, sent, task)
    /\ AllNumbered(slots, Undone) /\ InTurn(Undone)
    /\ task.parsed_rdy => Numbered(slots, task.info) /\ Behind(Undone, task.info.pkt)

(* The slots of a task under way are in use. *)
LEMMA TasksHold ==
    ASSUME NEW p, NEW ref, NEW U \in Seq(TaskInfos), NEW O, NEW R, Shares(p, ref, U, O, R)
    PROVE  /\ \A k \in 1 .. Len(U) : IsDecode(U[k]) =>
                 /\ U[k].output \in p.on_used /\ U[k].output \in p.not_ready
                 /\ U[k].refer \subseteq p.on_used /\ U[k].refer \subseteq Referred(p)
           /\ O \subseteq p.on_used /\ R \subseteq p.on_used
<1>1. /\ FramePool(p) /\ Parts(OutputsOf(U), O, p.not_ready)
      /\ Parts(RefersOf(U), R, Referred(p))
  BY DEF Shares
<1>2. /\ p.not_ready \subseteq FrameSlots /\ Referred(p) \subseteq FrameSlots
      /\ \A i \in FrameSlots : i \in p.not_ready \/ i \in Referred(p) => i \in p.on_used
  BY <1>1, FrameFields DEF Referred
<1>3. p.not_ready \subseteq p.on_used /\ Referred(p) \subseteq p.on_used
  BY <1>2
<1>4. ASSUME NEW k \in 1 .. Len(U), IsDecode(U[k])
      PROVE  U[k].output \in p.not_ready /\ U[k].refer \subseteq Referred(p)
  <2>1. /\ Len(OutputsOf(U)) = Len(U) /\ OutputsOf(U)[k] = {U[k].output}
        /\ Len(RefersOf(U)) = Len(U) /\ RefersOf(U)[k] = U[k].refer
    BY <1>4 DEF OutputsOf, RefersOf
  <2> QED BY <1>1, <2>1 DEF Parts
<1>5. O \subseteq p.not_ready /\ R \subseteq Referred(p)
  BY <1>1 DEF Parts
<1> QED BY <1>3, <1>4, <1>5

(* The frames of the slots still in use are as they were. *)
LEMMA NumberedKept ==
    ASSUME NEW p, NEW q, NEW info, Numbered(p, info),
           q.frame[info.output] = p.frame[info.output],
           \A r \in info.refer : q.frame[r] = p.frame[r]
    PROVE  Numbered(q, info)
BY DEF Numbered

(* The first task is through. *)
LEMMA TurnTail ==
    ASSUME NEW U \in Seq(TaskInfos), U # <<>>, NEW V, V = Tail(U), NEW p
    PROVE  /\ AllNumbered(p, U) => AllNumbered(p, V)
           /\ InTurn(U) => InTurn(V)
           /\ \A n : Behind(U, n) => Behind(V, n)
<1>1. /\ Len(U) \in Nat /\ Len(V) = Len(U) - 1
      /\ \A k \in 1 .. Len(V) : V[k] = U[k + 1] /\ k + 1 \in 1 .. Len(U)
  BY Shortened
<1>2. AllNumbered(p, U) => AllNumbered(p, V)
  BY <1>1 DEF AllNumbered
<1>3. InTurn(U) => InTurn(V)
  <2>1. ASSUME InTurn(U), NEW j \in 1 .. Len(V), NEW k \in 1 .. Len(V), j < k,
               IsDecode(V[j]), IsDecode(V[k])
        PROVE  V[j].pkt < V[k].pkt
    <3>1. j + 1 < k + 1
      BY <2>1
    <3> QED BY <1>1, <2>1, <3>1 DEF InTurn
  <2> QED BY <2>1 DEF InTurn
<1>4. \A n : Behind(U, n) => Behind(V, n)
  BY <1>1 DEF Behind
<1> QED BY <1>2, <1>3, <1>4

(* A task that decodes nothing comes or goes. *)
LEMMA TurnPlain ==
    ASSUME NEW U \in Seq(TaskInfos), NEW V, Plain(U, V), NEW p
    PROVE  /\ AllNumbered(p, U) => AllNumbered(p, V)
           /\ InTurn(U) => InTurn(V)
           /\ \A n : Behind(U, n) => Behind(V, n)
<1>1. CASE V = U
  BY <1>1
<1>2. CASE \E info \in TaskInfos : ~IsDecode(info) /\ V = Append(U, info)
  <2>1. PICK info \in TaskInfos : ~IsDecode(info) /\ V = Append(U, info)
    BY <1>2
  <2>2. \A k \in 1 .. Len(V) : IsDecode(V[k]) => k \in 1 .. Len(U) /\ V[k] = U[k]
    BY <2>1, Appended
  <2> QED BY <2>2 DEF AllNumbered, InTurn, Behind
<1>3. CASE U # <<>> /\ ~IsDecode(U[1]) /\ V = Tail(U)
  BY <1>3, TurnTail
<1> QED BY <1>1, <1>2, <1>3 DEF Plain

(* Every task after a step of the hal thread was under way before. *)
LEMMA FewerNumbered ==
    ASSUME NEW p, NEW q, Fewer(p, q), NEW U, AllNumbered(p, U),
           \A k \in 1 .. Len(U) : IsDecode(U[k]) =>
               U[k].output \in q.on_used /\ U[k].refer \subseteq q.on_used
    PROVE  AllNumbered(q, U)
BY NumberedKept DEF AllNumbered, Fewer

(* The slots of the tasks are in use, and so have numbered frames. *)
TasksUse ==
    /\ Undone \in Seq(TaskInfos)
    /\ \A k \in 1 .. Len(Undone) : IsDecode(Undone[k]) =>
          Undone[k].output \in slots.on_used /\ Undone[k].refer \subseteq slots.on_used
    /\ task.parsed_rdy =>
          task.info.output \in slots.on_used /\ task.info.refer \subseteq slots.on_used
    /\ \A i \in slots.on_used : slots.frame[i].pts \in Nat
    /\ slots.on_used \subseteq FrameSlots

(* A slot in use has a frame. *)
LEMMA FramePts ==
    ASSUME NEW p, FramePool(p)
    PROVE  p.on_used \subseteq FrameSlots /\ \A i \in p.on_used : p.frame[i].pts \in Nat
<1>1. p \in PoolType(FrameSlots, Frames, Geometries) /\ p.on_used \subseteq FrameSlots
  BY FrameFields
<1>2. p.frame \in [FrameSlots -> Frames \cup {None}]
  BY <1>1, PoolFields
<1>3. \A i \in p.on_used : p.frame[i] \in Frames
  BY <1>1, <1>2 DEF FramePool
<1> QED BY <1>1, <1>3 DEF Frames

(* They are. *)
LEMMA HeldNow == Base /\ SlotsInv => TasksUse
<1> SUFFICES ASSUME Base, SlotsInv PROVE TasksUse
  OBVIOUS
<1>1. Undone \in Seq(TaskInfos)
  BY UndoneTypes
<1>2. Shares(slots, codec.ref0, Undone, OwnOutput, OwnRefer)
  BY DEF SlotsInv
<1>3. \A k \in 1 .. Len(Undone) : IsDecode(Undone[k]) =>
          Undone[k].output \in slots.on_used /\ Undone[k].refer \subseteq slots.on_used
  BY <1>1, <1>2, TasksHold
<1>4. OwnOutput \subseteq slots.on_used /\ OwnRefer \subseteq slots.on_used
  BY <1>1, <1>2, TasksHold
<1>5. FramePool(slots)
  BY <1>2 DEF Shares
<1>6. slots.on_used \subseteq FrameSlots /\ \A i \in slots.on_used : slots.frame[i].pts \in Nat
  BY <1>5, FramePts
<1> QED BY <1>1, <1>3, <1>4, <1>6 DEF OwnOutput, OwnRefer, TasksUse

(* Also after a step. *)
LEMMA HeldNext == Base' /\ SlotsInv' => TasksUse'
BY HeldNow, PTL

(* A step after which no frame slot holds a new frame. *)
LEMMA FramesFewer ==
    ASSUME Base, SlotsInv, FrameInv, Kinds, Base', SlotsInv', Fewer(slots, slots'),
           Plain(Undone, Undone') \/ (Undone # <<>> /\ Undone' = Tail(Undone)),
           MarksKept \/ ~task'.parsed_rdy
    PROVE  FrameInv'
<1>1. PacketsStep /\ TasksUse /\ TasksUse'
  BY KindsPackets, HeldNow, HeldNext
<1>2. Waiting(mPackets', task')
  BY <1>1, WaitingKept DEF FrameInv
<1>3. \A i \in slots'.on_used : Past(slots'.frame[i].pts, mPackets', sent', task')
  <2>1. ASSUME NEW i \in slots'.on_used
        PROVE  Past(slots'.frame[i].pts, mPackets', sent', task')
    <3>1. i \in slots.on_used /\ slots'.frame[i] = slots.frame[i]
      BY DEF Fewer
    <3>2. slots.frame[i].pts \in Nat /\ Past(slots.frame[i].pts, mPackets, sent, task)
      BY <1>1, <3>1 DEF TasksUse, FrameInv
    <3> QED BY <1>1, <3>1, <3>2, PastKept
  <2> QED BY <2>1
<1>4. Undone \in Seq(TaskInfos)
  BY <1>1 DEF TasksUse
<1>5. /\ AllNumbered(slots, Undone') /\ InTurn(Undone')
      /\ \A n : Behind(Undone, n) => Behind(Undone', n)
  BY <1>4, TurnPlain, TurnTail DEF FrameInv
<1>6. AllNumbered(slots', Undone')
  BY <1>1, <1>5, FewerNumbered DEF TasksUse
<1>7. ASSUME task'.parsed_rdy
      PROVE  Numbered(slots', task'.info) /\ Behind(Undone', task'.info.pkt)
  <2>1. /\ task.parsed_rdy /\ task'.info.output = task.info.output
        /\ task'.info.refer = task.info.refer /\ task'.info.pkt = task.info.pkt
    BY <1>7 DEF MarksKept
  <2>2. Numbered(slots, task.info) /\ Behind(Undone, task.info.pkt)
    BY <2>1 DEF FrameInv
  <2>3. task'.info.output \in slots'.on_used /\ task'.info.refer \subseteq slots'.on_used
    BY <1>1, <1>7 DEF TasksUse
  <2>4. /\ slots'.frame[task.info.output] = slots.frame[task.info.output]
        /\ \A r \in task.info.refer : slots'.frame[r] = slots.frame[r]
    BY <2>1, <2>3 DEF Fewer
  <2>5. Numbered(slots', task.info)
    BY <2>2, <2>4, NumberedKept
  <2>6. Numbered(slots', task'.info)
    BY <2>1, <2>5 DEF Numbered
  <2> QED BY <1>5, <2>1, <2>2, <2>6
<1> QED BY <1>2, <1>3, <1>5, <1>6, <1>7 DEF FrameInv

(* The task in hand is handed over. *)
LEMMA FramesStarted ==
    ASSUME Base, SlotsInv, FrameInv, Kinds, Started
    PROVE  FrameInv'
<1>1. PacketsStep /\ TasksUse
  BY KindsPackets, HeldNow
<1>2. Waiting(mPackets', task')
  BY <1>1, WaitingKept DEF FrameInv
<1>3. slots' = slots /\ ~task'.parsed_rdy /\ task.parsed_rdy
  BY DEF Started, Elsewhere, NoneInHand
<1>4. \A i \in slots'.on_used : Past(slots'.frame[i].pts, mPackets', sent', task')
  BY <1>1, <1>3, PastKept DEF FrameInv, TasksUse
<1>5. PICK info \in TaskInfos : /\ IsDecode(info) /\ info.output = task.info.output
                                /\ info.refer = task.info.refer
                                /\ info.pkt = task.info.pkt
                                /\ Undone' = Append(Undone, info)
  BY DEF Started
<1>6. Undone \in Seq(TaskInfos) /\ Len(Undone) \in Nat
  BY <1>1 DEF TasksUse
<1>7. /\ Undone'[Len(Undone) + 1] = info
      /\ \A k \in 1 .. Len(Undone) : Undone'[k] = Undone[k]
      /\ \A k \in 1 .. Len(Undone') : k \in 1 .. Len(Undone) \/ k = Len(Undone) + 1
  BY <1>5, <1>6, Appended
<1>8. Numbered(slots, info)
  BY <1>3, <1>5 DEF FrameInv, Numbered
<1>9. AllNumbered(slots, Undone')
  BY <1>7, <1>8 DEF FrameInv, AllNumbered
<1>10. InTurn(Undone')
  <2>1. ASSUME NEW j \in 1 .. Len(Undone'), NEW k \in 1 .. Len(Undone'), j < k,
               IsDecode(Undone'[j]), IsDecode(Undone'[k])
        PROVE  Undone'[j].pkt < Undone'[k].pkt
    <3>1. j \in 1 .. Len(Undone)
      BY <1>6, <1>7, <2>1
    <3>2. CASE k \in 1 .. Len(Undone)
      BY <1>7, <2>1, <3>1, <3>2 DEF FrameInv, InTurn
    <3>3. CASE k = Len(Undone) + 1
      BY <1>3, <1>5, <1>7, <2>1, <3>1, <3>3 DEF FrameInv, Behind
    <3> QED BY <1>7, <3>2, <3>3
  <2> QED BY <2>1 DEF InTurn
<1> QED BY <1>2, <1>3, <1>4, <1>9, <1>10 DEF FrameInv

(* A slot with a mark is in use. *)
LEMMA MarkedUsed ==
    ASSUME NEW p, FramePool(p)
    PROVE  p.not_ready \subseteq p.on_used /\ Referred(p) \subseteq p.on_used
<1>1. /\ p.not_ready \subseteq FrameSlots /\ Referred(p) \subseteq FrameSlots
      /\ \A i \in FrameSlots : i \in p.not_ready \/ i \in Referred(p) => i \in p.on_used
  BY FrameFields DEF Referred
<1> QED BY <1>1

(* A packet is parsed. *)
LEMMA FramesParsed ==
    ASSUME Base, SlotsInv, FrameInv, Kinds, NEW i, ParsedTo(i)
    PROVE  FrameInv'
<1> DEFINE n == task.info.pkt
           R == References(n)
<1>1. PacketsStep /\ TasksUse
  BY KindsPackets, HeldNow
<1>2. Waiting(mPackets', task')
  BY <1>1, WaitingKept DEF FrameInv
<1>3. /\ Grown(slots, slots', i, PictureOf(n))
      /\ Marks(slots', {i}, slots.not_ready \cup {i}, Referred(slots) \cup R,
               Append(DisplayQueue(slots), i))
      /\ FramePool(slots')
  BY ParsedSlots
<1>4. R = {} \/ \E r \in slots.on_used : R = {r}
  BY ParseStart
<1>5. /\ mPackets' = mPackets /\ sent' = sent /\ Undone' = Undone
      /\ task.curr_rdy /\ ~task.parsed_rdy /\ task'.parsed_rdy
      /\ task'.info.output = i /\ task'.info.refer = R /\ task'.info.pkt = n
  BY DEF ParsedTo, Elsewhere, ListsKept, AtParse
<1>6. /\ n \in Nat /\ n <= sent /\ \A k \in 1 .. Len(mPackets) : n < mPackets[k]
      /\ PictureOf(n).pts = n
  BY <1>5, PacketTypes DEF FrameInv, Waiting, PictureOf
<1> HIDE DEF n, R
<1>7. /\ i \notin slots.on_used /\ i \in slots'.on_used /\ slots'.frame[i].pts = n
      /\ \A j \in slots'.on_used :
            j # i => j \in slots.on_used /\ slots'.frame[j] = slots.frame[j]
  BY <1>3, <1>6 DEF Grown
<1>8. Past(n, mPackets', sent', task')
  BY <1>5, <1>6 DEF Past
<1>9. ASSUME NEW j \in slots'.on_used
      PROVE  Past(slots'.frame[j].pts, mPackets', sent', task')
  <2>1. CASE j = i
    BY <1>7, <1>8, <2>1
  <2>2. CASE j # i
    <3>1. /\ slots'.frame[j] = slots.frame[j] /\ slots.frame[j].pts \in Nat
          /\ Past(slots.frame[j].pts, mPackets, sent, task)
      BY <1>1, <1>7, <1>9, <2>2 DEF TasksUse, FrameInv
    <3> QED BY <1>1, <3>1, PastKept
  <2> QED BY <2>1, <2>2
<1>10. \A j \in slots.on_used : slots.frame[j].pts < n
  BY <1>5 DEF FrameInv, Past, n
<1>11. \A k \in 1 .. Len(Undone) : IsDecode(Undone[k]) =>
          /\ Undone[k].output \in slots'.on_used /\ Undone[k].refer \subseteq slots'.on_used
          /\ Undone[k].output \in slots.on_used /\ Undone[k].refer \subseteq slots.on_used
  <2>1. Shares(slots, codec.ref0, Undone, OwnOutput, OwnRefer)
    BY DEF SlotsInv
  <2>2. \A k \in 1 .. Len(Undone) : IsDecode(Undone[k]) =>
           /\ Undone[k].output \in slots.on_used /\ Undone[k].output \in slots.not_ready
           /\ Undone[k].refer \subseteq slots.on_used /\ Undone[k].refer \subseteq Referred(slots)
    BY <1>1, <2>1, TasksHold DEF TasksUse
  <2>3. /\ slots.not_ready \subseteq slots'.not_ready
        /\ Referred(slots) \subseteq Referred(slots')
    BY <1>3 DEF Marks
  <2>4. slots'.not_ready \subseteq slots'.on_used /\ Referred(slots') \subseteq slots'.on_used
    BY <1>3, MarkedUsed
  <2> QED BY <2>2, <2>3, <2>4
<1>12. R \subseteq slots'.on_used
  <2>1. R \subseteq Referred(slots')
    BY <1>3 DEF Marks
  <2>2. Referred(slots') \subseteq slots'.on_used
    BY <1>3, MarkedUsed
  <2> QED BY <2>1, <2>2
<1>13. AllNumbered(slots', Undone)
  <2>1. ASSUME NEW k \in 1 .. Len(Undone), IsDecode(Undone[k])
        PROVE  Numbered(slots', Undone[k])
    <3>1. Numbered(slots, Undone[k])
      BY <2>1 DEF FrameInv, AllNumbered
    <3>2. /\ slots'.frame[Undone[k].output] = slots.frame[Undone[k].output]
          /\ \A r \in Undone[k].refer : slots'.frame[r] = slots.frame[r]
      BY <1>7, <1>11, <2>1
    <3> QED BY <3>1, <3>2, NumberedKept
  <2> QED BY <2>1 DEF AllNumbered
<1>14. Behind(Undone, n)
  <2>1. ASSUME NEW k \in 1 .. Len(Undone), IsDecode(Undone[k])
        PROVE  Undone[k].pkt < n
    BY <1>10, <1>11, <2>1 DEF FrameInv, AllNumbered, Numbered
  <2> QED BY <2>1 DEF Behind
<1>15. \A r \in R : slots'.frame[r].pts < n
  BY <1>4, <1>7, <1>10, <1>12
<1>16. Numbered(slots', task'.info)
  BY <1>5, <1>7, <1>15 DEF Numbered
<1> QED BY <1>2, <1>5, <1>9, <1>13, <1>14, <1>16 DEF FrameInv

(* Nothing is released. *)
LEMMA FewerSelf ==
    ASSUME Base, SlotsInv, slots' = slots
    PROVE  Fewer(slots, slots')
<1>1. slots.used_count \in Int
  BY FrameFields DEF SlotsInv, Shares
<1> QED BY <1>1 DEF Fewer

(* Every step keeps what the slots hold. *)
LEMMA FrameStep ==
    ASSUME Base, SlotsInv, FrameInv, Kinds, Base', SlotsInv'
    PROVE  FrameInv'
<1>1. CASE Aside
  <2>1. Fewer(slots, slots') /\ MarksKept /\ Plain(Undone, Undone')
    BY <1>1, AsideSlots DEF Aside
  <2> QED BY <2>1, FramesFewer
<1>2. CASE Taken \/ (\E i : Copied(i)) \/ WasRead \/ Ended
  <2>1. slots' = slots /\ Undone' = Undone /\ (MarksKept \/ ~task'.parsed_rdy)
    BY <1>2 DEF Taken, Copied, WasRead, Ended, ListsKept
  <2>2. Fewer(slots, slots') /\ Plain(Undone, Undone')
    BY <2>1, FewerSelf DEF Plain
  <2> QED BY <2>1, <2>2, FramesFewer
<1>3. CASE Refused
  <2>1. slots' = slots /\ Plain(Undone, Undone') /\ ~task'.parsed_rdy
    BY <1>3 DEF Refused, NoneInHand
  <2> QED BY <2>1, FewerSelf, FramesFewer
<1>4. CASE Abandoned
  <2>1. Plain(Undone, Undone') /\ ~task'.parsed_rdy
    BY <1>4 DEF Abandoned, NoneInHand, Plain
  <2> QED BY <1>4, <2>1, SlotsAbandoned, FramesFewer
<1>5. CASE WasCleared
  <2>1. Undone # <<>> /\ Undone' = Tail(Undone) /\ MarksKept
    BY <1>5 DEF WasCleared
  <2> QED BY <1>5, <2>1, SlotsWasCleared, FramesFewer
<1> QED BY <1>1, <1>2, <1>3, <1>4, <1>5, FramesParsed, FramesStarted DEF Kinds

(* The first state. *)
LEMMA FrameFirst ==
    ASSUME Init
    PROVE  FrameInv
<1>1. Base /\ SlotsInv
  BY BaseInit, SlotsFirst
<1>2. slots.on_used = {} /\ mPackets = <<>> /\ ~task.parsed_rdy /\ ~task.curr_rdy
  BY DEF Init, SlotsInit, NewTask
<1>3. Len(Undone) = 0
  <2>1. tasks.list["TASK_PROCESSING"] = <<>> /\ hal.pc = "check"
    BY DEF Init, GroupInit, TaskStatuses
  <2>2. Len(Todo) = 0 /\ Todo \in Seq(TaskInfos)
    BY <1>1, <2>1, TaskLists DEF Base
  <2> QED BY <2>1, <2>2 DEF Undone
<1> QED BY <1>2, <1>3 DEF FrameInv, Waiting, AllNumbered, InTurn

-----------------------------------------------------------------------------
(* The hardware works on the first task that is not done with. *)
LEMMA HalFirst ==
    ASSUME Base, hal.pc = "hw"
    PROVE  Undone = Todo /\ Todo # <<>> /\ Todo[1] = hal.info /\ IsDecode(hal.info)
<1>1. Todo # <<>> /\ Todo[1] = hal.info /\ IsDecode(hal.info)
  BY HoldingFacts DEF Base, Holding, TodoInv
<1> QED BY <1>1 DEF Undone

(* The slots of the task the hardware works on. *)
LEMMA HalSlotsHeld ==
    ASSUME Base, SlotsInv, FrameInv
    PROVE  HalSlotsIntact
<1> SUFFICES ASSUME hal.pc = "hw"
             PROVE  /\ slots.frame[hal.info.output] # None
                    /\ slots.frame[hal.info.output].pts = hal.info.pkt
                    /\ \A i \in hal.info.refer :
                          /\ i \in slots.on_used \ (slots.not_ready \cup slots.hal_output)
                          /\ slots.frame[i].pts < hal.info.pkt
  BY DEF HalSlotsIntact
<1>1. /\ Undone = Todo /\ Undone # <<>> /\ Undone[1] = hal.info /\ IsDecode(hal.info)
  BY HalFirst DEF Undone
<1>2. Undone \in Seq(TaskInfos) /\ 1 \in 1 .. Len(Undone)
  BY <1>1, UndoneTypes
<1>3. Shares(slots, codec.ref0, Undone, OwnOutput, OwnRefer)
  BY DEF SlotsInv
<1>4. /\ hal.info.output \in slots.on_used /\ hal.info.refer \subseteq slots.on_used
  BY <1>1, <1>2, <1>3, TasksHold
<1>5. Numbered(slots, hal.info)
  BY <1>1, <1>2 DEF FrameInv, AllNumbered
<1>6. slots.frame[hal.info.output] # None
  BY <1>3, <1>4 DEF Shares, FramePool
<1>7. ASSUME NEW i \in hal.info.refer, i \in slots.not_ready PROVE FALSE
  <2>1. slots.frame[i].pts \in Nat /\ slots.frame[i].pts < hal.info.pkt /\ hal.info.pkt \in Nat
    <3>1. slots.frame[i].pts \in Nat
      BY <1>4, <1>7, HeldNow DEF TasksUse
    <3>2. hal.info \in TaskInfos
      BY <1>1, <1>2
    <3> QED BY <1>5, <3>1, <3>2 DEF Numbered, TaskInfos
  <2>2. \/ i \in OwnOutput
        \/ \E k \in 1 .. Len(OutputsOf(Undone)) : i \in OutputsOf(Undone)[k]
    BY <1>3, <1>7 DEF Shares, Parts
  <2>3. CASE i \in OwnOutput
    <3>1. task.parsed_rdy /\ task.info.output = i
      BY <2>3 DEF OwnOutput
    <3>2. slots.frame[i].pts = task.info.pkt /\ hal.info.pkt < task.info.pkt
      BY <1>1, <1>2, <3>1 DEF FrameInv, Numbered, Behind
    <3> QED BY <2>1, <3>2
  <2>4. CASE \E k \in 1 .. Len(OutputsOf(Undone)) : i \in OutputsOf(Undone)[k]
    <3>1. PICK k \in 1 .. Len(Undone) : IsDecode(Undone[k]) /\ Undone[k].output = i
      BY <2>4 DEF OutputsOf
    <3>2. slots.frame[i].pts = Undone[k].pkt
      BY <3>1 DEF FrameInv, AllNumbered, Numbered
    <3>3. k = 1 \/ 1 < k
      BY <1>2
    <3>4. k = 1 \/ hal.info.pkt < Undone[k].pkt
      BY <1>1, <1>2, <3>1, <3>3 DEF FrameInv, InTurn
    <3> QED BY <1>1, <2>1, <3>2, <3>4
  <2> QED BY <2>2, <2>3, <2>4
<1>8. slots.hal_output = slots.not_ready
  BY <1>3 DEF Shares, FramePool
<1>9. \A i \in hal.info.refer : slots.frame[i].pts < hal.info.pkt
  BY <1>5 DEF Numbered
<1> QED BY <1>4, <1>5, <1>6, <1>7, <1>8, <1>9 DEF Numbered

(* The accounts, and what the frame slots hold with them. *)
HeldInv == IInv /\ FrameInv

(* Every step keeps what the slots hold. *)
LEMMA HeldStep ==
    ASSUME HeldInv, [Next]_vars
    PROVE  HeldInv'
<1>1. IInv'
  BY IInvStep DEF HeldInv
<1>2. Kinds
  BY StepKinds DEF HeldInv, IInv
<1> QED BY <1>1, <1>2, FrameStep DEF HeldInv, IInv

(* The frame slots hold what their tasks name, in every state. *)
THEOREM FramesHeld == Spec => []HeldInv
<1>1. Init => HeldInv
  BY BaseInit, PacketFirst, SlotsFirst, FrameFirst DEF IInv, HeldInv
<1>2. HeldInv /\ [Next]_vars => HeldInv'
  BY HeldStep
<1> QED BY <1>1, <1>2, PTL DEF Spec

(* The hardware writes and reads what its task names. *)
THEOREM HalKeepsSlots == Spec => []HalSlotsIntact
<1>1. HeldInv => HalSlotsIntact
  BY HalSlotsHeld DEF HeldInv, IInv
<1> QED BY <1>1, FramesHeld, PTL

(* The frames fetched and those not fetched yet are sequences. *)
OutputTyped == \E S : got \in Seq(S) /\ mFrames \in Seq(S)

(* N has what O has, then the frames of the slots d, then no more pictures. *)
Shows(O, N, d, p) ==
    /\ Len(O) \in Nat /\ Len(d) \in Nat /\ Len(N) \in Nat
    /\ Len(O) + Len(d) <= Len(N)
    /\ \A k \in 1 .. Len(O) : N[k] = O[k]
    /\ \A k \in 1 .. Len(d) : N[Len(O) + k].pts = p.frame[d[k]].pts
    /\ \A k \in 1 .. Len(N) : Len(O) + Len(d) < k => ~IsPicture(N[k])

(* N is the first part of O. *)
Shorter(O, N) ==
    /\ Len(O) \in Nat /\ Len(N) \in Nat /\ Len(N) <= Len(O)
    /\ \A k \in 1 .. Len(N) : N[k] = O[k]

(* What is put to the output is what the display queue gave, or nothing is *)
(* put, and what was not fetched may be dropped.                           *)
OutputMoves ==
    \/ Shorter(Output, Output')
    \/ slots' = Drained(slots) /\ Shows(Output, Output', Displayed(slots), slots)

(* The frames of the slots that are shown. *)
LEMMA FramesShown ==
    ASSUME NEW p, DisplayQueue(p) \in Seq(FrameSlots), NEW e
    PROVE  LET X == DisplayFrames(p, e)
               d == Displayed(p)
           IN  /\ d \in Seq(FrameSlots) /\ \E T : X \in Seq(T)
               /\ Len(X) = Len(d)
               /\ \A k \in 1 .. Len(d) : X[k].pts = p.frame[d[k]].pts
<1> DEFINE X == DisplayFrames(p, e)
           d == Displayed(p)
<1>1. d \in Seq(FrameSlots)
  BY DisplayedFacts
<1>2. X = [k \in DOMAIN d |-> FrameOf(p, d[k], FALSE, e /\ k = Len(DisplayQueue(p)))]
  BY DEF DisplayFrames
<1> HIDE DEF X, d
<1>3. DOMAIN d = 1 .. Len(d) /\ Len(d) \in Nat
  BY <1>1
<1>4. \A k \in 1 .. Len(d) : X[k].pts = p.frame[d[k]].pts
  BY <1>2, <1>3 DEF FrameOf
<1>5. X \in Seq({X[k] : k \in 1 .. Len(d)}) /\ Len(X) = Len(d)
  BY <1>2, <1>3
<1> QED BY <1>1, <1>4, <1>5 DEF X, d

(* Frames are put, and no picture after them. *)
LEMMA FramesPut ==
    ASSUME OutputTyped, FramePool(slots), NEW e, NEW T, NEW Z \in Seq(T),
           \A k \in 1 .. Len(Z) : ~IsPicture(Z[k]),
           got' = got, mFrames' = mFrames \o (DisplayFrames(slots, e) \o Z)
    PROVE  OutputTyped' /\ Shows(Output, Output', Displayed(slots), slots)
<1> DEFINE X == DisplayFrames(slots, e)
           d == Displayed(slots)
<1>1. PICK S : got \in Seq(S) /\ mFrames \in Seq(S)
  BY DEF OutputTyped
<1>2. DisplayQueue(slots) \in Seq(FrameSlots)
  BY FrameFields
<1>3. /\ d \in Seq(FrameSlots) /\ \E V : X \in Seq(V)
      /\ Len(X) = Len(d) /\ \A k \in 1 .. Len(d) : X[k].pts = slots.frame[d[k]].pts
  BY <1>2, FramesShown
<1> HIDE DEF X, d
<1>4. PICK V : X \in Seq(V)
  BY <1>3
<1> DEFINE Y == X \o Z
<1> DEFINE W == V \cup T
<1>5. /\ Y \in Seq(W) /\ Len(Y) = Len(X) + Len(Z)
      /\ Len(X) \in Nat /\ Len(Z) \in Nat
      /\ \A k \in 1 .. Len(X) : Y[k] = X[k]
      /\ \A k \in 1 .. Len(Z) : Y[Len(X) + k] = Z[k]
  BY <1>4
<1>6. mFrames' = mFrames \o Y
  BY DEF X
<1> HIDE DEF Y, W
<1> DEFINE C == mFrames \o Y
           O == got \o mFrames
           N == got \o C
<1>0. C = mFrames \o Y /\ O = got \o mFrames /\ N = got \o C
  OBVIOUS
<1> HIDE DEF C, O, N
<1>7. /\ got \in Seq(S \cup W) /\ C \in Seq(S \cup W)
      /\ Len(O) \in Nat /\ Len(Y) \in Nat /\ Len(N) = Len(O) + Len(Y)
      /\ \A k \in 1 .. Len(O) : N[k] = O[k]
      /\ \A k \in 1 .. Len(Y) : N[Len(O) + k] = Y[k]
  <2> DEFINE U == S \cup W
  <2>1. got \in Seq(U) /\ mFrames \in Seq(U) /\ Y \in Seq(U)
    BY <1>1, <1>5
  <2> HIDE DEF U
  <2>2. C \in Seq(U)
    BY <1>0, <2>1
  <2>3. /\ Len(got) \in Nat /\ Len(mFrames) \in Nat /\ Len(Y) \in Nat
        /\ Len(C) = Len(mFrames) + Len(Y) /\ Len(O) = Len(got) + Len(mFrames)
        /\ Len(N) = Len(got) + Len(mFrames) + Len(Y)
    BY <1>0, <2>1, <2>2
  <2>4. ASSUME NEW k \in 1 .. Len(O) PROVE N[k] = O[k]
    <3>1. CASE k <= Len(got)
      <4>1. k \in 1 .. Len(got) /\ N[k] = got[k] /\ O[k] = got[k]
        BY <1>0, <2>1, <2>2, <2>3, <3>1
      <4> QED BY <4>1
    <3>2. CASE ~(k <= Len(got))
      <4> DEFINE j == k - Len(got)
      <4>1. k = Len(got) + j /\ j \in 1 .. Len(mFrames) /\ j \in 1 .. Len(C)
        BY <2>3, <3>2
      <4> HIDE DEF j
      <4>2. N[k] = C[j]
        BY <1>0, <2>1, <2>2, <2>3, <4>1
      <4>3. O[k] = mFrames[j]
        BY <1>0, <2>1, <2>3, <4>1
      <4>4. C[j] = mFrames[j]
        BY <1>0, <2>1, <2>3, <4>1
      <4> QED BY <4>2, <4>3, <4>4
    <3> QED BY <3>1, <3>2
  <2>5. ASSUME NEW k \in 1 .. Len(Y) PROVE N[Len(O) + k] = Y[k]
    <3> DEFINE j == Len(mFrames) + k
    <3>1. Len(O) + k = Len(got) + j /\ j \in 1 .. Len(C)
      BY <2>3
    <3>2. C[j] = Y[k]
      BY <1>0, <2>1, <2>3
    <3> HIDE DEF j
    <3>3. N[Len(got) + j] = C[j]
      BY <1>0, <2>1, <2>2, <2>3, <3>1
    <3> QED BY <3>1, <3>2, <3>3
  <2> QED BY <2>1, <2>2, <2>3, <2>4, <2>5 DEF U
<1>8. Output = O /\ Output' = N
  BY <1>0, <1>6 DEF Output
<1>9. OutputTyped'
  BY <1>0, <1>6, <1>7 DEF OutputTyped
<1>10. \A k \in 1 .. Len(d) : N[Len(O) + k].pts = slots.frame[d[k]].pts
  <2>1. \A k \in 1 .. Len(d) : k \in 1 .. Len(X) /\ k \in 1 .. Len(Y)
    BY <1>3, <1>5
  <2>2. \A k \in 1 .. Len(d) : N[Len(O) + k] = X[k]
    BY <1>5, <1>7, <2>1
  <2> QED BY <1>3, <2>2
<1>11. ASSUME NEW k \in 1 .. Len(N), Len(O) + Len(d) < k
       PROVE  ~IsPicture(N[k])
  <2> DEFINE j == k - Len(O) - Len(d)
  <2>1. j \in 1 .. Len(Z) /\ k = Len(O) + (Len(X) + j) /\ Len(X) + j \in 1 .. Len(Y)
    BY <1>3, <1>5, <1>7, <1>11
  <2> HIDE DEF j
  <2>2. N[k] = Z[j]
    BY <1>5, <1>7, <2>1
  <2> QED BY <2>1, <2>2
<1> QED BY <1>3, <1>5, <1>7, <1>8, <1>9, <1>10, <1>11 DEF Shows, d

(* Nothing is put, and nothing dropped. *)
LEMMA OutputSame ==
    ASSUME OutputTyped, got' = got, mFrames' = mFrames
    PROVE  OutputTyped' /\ OutputMoves
<1>1. Output' = Output
  BY DEF Output
<1>2. PICK S : got \in Seq(S) /\ mFrames \in Seq(S)
  BY DEF OutputTyped
<1>3. Output \in Seq(S)
  BY <1>2 DEF Output
<1>4. Shorter(Output, Output')
  BY <1>1, <1>3 DEF Shorter
<1> QED BY <1>4 DEF OutputTyped, OutputMoves

(* A frame is fetched: the first that was not. *)
LEMMA OutputFetched ==
    ASSUME OutputTyped, GetFrame
    PROVE  OutputTyped' /\ OutputMoves
<1>1. mFrames # <<>> /\ got' = Append(got, Head(mFrames)) /\ mFrames' = Tail(mFrames)
  BY DEF GetFrame
<1>2. PICK S : got \in Seq(S) /\ mFrames \in Seq(S)
  BY DEF OutputTyped
<1>3. got' \in Seq(S) /\ mFrames' \in Seq(S)
  BY <1>1, <1>2
<1>4. got' \o mFrames' = got \o mFrames
  BY <1>1, <1>2
<1>5. Output' = Output /\ Output \in Seq(S)
  BY <1>2, <1>4 DEF Output
<1>6. Shorter(Output, Output')
  BY <1>5 DEF Shorter
<1> QED BY <1>3, <1>6 DEF OutputTyped, OutputMoves

(* The frames that were not fetched are dropped. *)
LEMMA OutputFlushed ==
    ASSUME OutputTyped, ResetFlush
    PROVE  OutputTyped' /\ OutputMoves
<1>1. got' = got /\ mFrames' = <<>>
  BY DEF ResetFlush, calls
<1>2. PICK S : got \in Seq(S) /\ mFrames \in Seq(S)
  BY DEF OutputTyped
<1>3. got' \in Seq(S) /\ mFrames' \in Seq(S)
  BY <1>1, <1>2
<1>4. Output' = got
  BY <1>1, <1>2 DEF Output
<1>5. Shorter(Output, Output')
  BY <1>2, <1>4 DEF Shorter, Output
<1> QED BY <1>3, <1>5 DEF OutputTyped, OutputMoves

(* The hal thread puts what is ready. *)
LEMMA OutputReady ==
    ASSUME OutputTyped, FramePool(slots), HalReset \/ HalPush
    PROVE  OutputTyped' /\ OutputMoves
<1>1. PICK e : /\ mFrames' = mFrames \o DisplayFrames(slots, e)
               /\ got' = got /\ slots' = Drained(slots)
  BY DEF HalReset, HalPush, calls
<1>2. DisplayQueue(slots) \in Seq(FrameSlots)
  BY FrameFields
<1>3. DisplayFrames(slots, e) \o <<>> = DisplayFrames(slots, e)
  <2>1. PICK T : DisplayFrames(slots, e) \in Seq(T)
    BY <1>2, FramesShown
  <2> QED BY <2>1
<1>4. <<>> \in Seq({}) /\ \A k \in 1 .. Len(<<>>) : ~IsPicture(<<>>[k])
  OBVIOUS
<1>5. mFrames' = mFrames \o (DisplayFrames(slots, e) \o <<>>)
  BY <1>1, <1>3
<1> QED BY <1>1, <1>4, <1>5, FramesPut DEF OutputMoves

(* The hal thread puts what is ready, and then a frame without a picture. *)
LEMMA OutputSignal ==
    ASSUME OutputTyped, FramePool(slots), HalInfoChange \/ HalEos
    PROVE  OutputTyped' /\ OutputMoves
<1>1. PICK e, x : /\ mFrames' = Append(mFrames \o DisplayFrames(slots, e), x)
                  /\ ~IsPicture(x)
                  /\ got' = got /\ slots' = Drained(slots)
  <2>1. ~IsPicture(FrameOf(slots, hal.info.output, TRUE, FALSE))
    BY DEF IsPicture, FrameOf
  <2>2. ~IsPicture(EosFrame)
    BY DEF IsPicture, EosFrame
  <2> QED BY <2>1, <2>2 DEF HalInfoChange, HalEos, calls
<1>2. DisplayQueue(slots) \in Seq(FrameSlots)
  BY FrameFields
<1> DEFINE X == DisplayFrames(slots, e)
           Z == <<x>>
<1>3. PICK T : X \in Seq(T)
  BY <1>2, FramesShown
<1>4. PICK S : mFrames \in Seq(S)
  BY DEF OutputTyped
<1>5. mFrames' = Append(mFrames \o X, x)
  BY <1>1
<1> HIDE DEF X
<1>6. Append(mFrames \o X, x) = mFrames \o (X \o Z)
  <2> DEFINE U == S \cup T \cup {x}
  <2>1. mFrames \in Seq(U) /\ X \in Seq(U) /\ x \in U /\ Z \in Seq(U)
    BY <1>3, <1>4
  <2> HIDE DEF U
  <2>2. mFrames \o X \in Seq(U)
    BY <2>1
  <2>3. Append(mFrames \o X, x) = (mFrames \o X) \o Z
    BY <2>1, <2>2, AppendIsConcat
  <2> HIDE DEF Z
  <2> QED BY <2>1, <2>3, ConcatAssociative
<1>7. Z \in Seq({x}) /\ \A k \in 1 .. Len(Z) : ~IsPicture(Z[k])
  BY <1>1
<1>8. mFrames' = mFrames \o (DisplayFrames(slots, e) \o Z)
  BY <1>5, <1>6 DEF X
<1> HIDE DEF Z
<1> QED BY <1>1, <1>7, <1>8, FramesPut DEF OutputMoves

(* The steps that put and drop no frame. *)
LEMMA OutputElse ==
    ASSUME [Next]_vars,
           ~(GetFrame \/ ResetFlush \/ HalReset \/ HalPush \/ HalInfoChange \/ HalEos)
    PROVE  got' = got /\ mFrames' = mFrames
<1> USE DEF lists, calls
<1>1. CASE UNCHANGED vars
  BY <1>1 DEF vars
<1>2. CASE Parser
  <2>1. CASE \/ ParserCheck \/ ParserReset \/ ParserDrop \/ ParserResetDone
             \/ ParserGetHnd \/ ParserGetPacket
    BY <2>1 DEF ParserCheck, ParserReset, ParserDrop, ParserResetDone,
                ParserGetHnd, ParserGetPacket
  <2>2. CASE \/ ParserCopy \/ ParserWaitPrev \/ ParserWaitDisplay \/ ParserWaitSlot
             \/ ParserParse
    BY <2>2 DEF ParserCopy, ParserWaitPrev, ParserWaitDisplay, ParserWaitSlot, ParserParse
  <2>3. CASE \/ ParserDropPacket \/ ParserInfoChange \/ ParserWaitReady
             \/ ParserStart \/ ParserExit
    BY <2>3 DEF ParserDropPacket, ParserInfoChange, ParserWaitReady, ParserStart, ParserExit
  <2> QED BY <1>2, <2>1, <2>2, <2>3 DEF Parser
<1>3. CASE HalTake \/ HalSleep \/ HalSetIdle \/ HalHwDone \/ HalTaskDone
  BY <1>3 DEF HalTake, HalSleep, HalSetIdle, HalHwDone, HalTaskDone
<1>4. CASE HalClear \/ HalNotify \/ HalExit
  BY <1>4 DEF HalClear, HalNotify, HalExit
<1>5. CASE PutPacket \/ GetNothing \/ SetReady \/ NotifyReady \/ ResetStart
  BY <1>5 DEF PutPacket, GetNothing, SetReady, NotifyReady, ResetStart
<1>6. CASE ResetFlag \/ ResetNotify \/ ResetUnlock \/ ResetWait
  BY <1>6 DEF ResetFlag, ResetNotify, ResetUnlock, ResetWait
<1>7. CASE ClearStart \/ ClearStopHal \/ ClearDone \/ Finished
  BY <1>7 DEF ClearStart, ClearStopHal, ClearDone, Finished, vars
<1> QED BY <1>1, <1>2, <1>3, <1>4, <1>5, <1>6, <1>7 DEF Next, HalThread, ResetSteps

(* What a step does to the output. *)
LEMMA OutputStep ==
    ASSUME OutputTyped, FramePool(slots), [Next]_vars
    PROVE  OutputTyped' /\ OutputMoves
<1>1. CASE GetFrame \/ ResetFlush \/ HalReset \/ HalPush \/ HalInfoChange \/ HalEos
  BY <1>1, OutputFetched, OutputFlushed, OutputReady, OutputSignal
<1>2. CASE ~(GetFrame \/ ResetFlush \/ HalReset \/ HalPush \/ HalInfoChange \/ HalEos)
  BY <1>2, OutputElse, OutputSame
<1> QED BY <1>1, <1>2

(* The pictures in O are in order, and before those of the slots D of p,   *)
(* which are in order too.                                                 *)
Ordered(O, D, p) ==
    /\ \A j, k \in 1 .. Len(O) :
          j < k /\ IsPicture(O[j]) /\ IsPicture(O[k]) => O[j].pts < O[k].pts
    /\ \A j \in 1 .. Len(O), k \in 1 .. Len(D) :
          IsPicture(O[j]) => O[j].pts < p.frame[D[k]].pts
    /\ \A j, k \in 1 .. Len(D) : j < k => p.frame[D[j]].pts < p.frame[D[k]].pts

(* The pictures in O are of packets that were put, and that neither wait   *)
(* nor are about to be parsed.                                             *)
AllPast(O, m, n, t) ==
    \A k \in 1 .. Len(O) : IsPicture(O[k]) => O[k].pts \in Nat /\ Past(O[k].pts, m, n, t)

(* The pictures come out in the order of the packets. *)
OrderInv ==
    /\ OutputTyped
    /\ Ordered(Output, DisplayQueue(slots), slots)
    /\ AllPast(Output, mPackets, sent, task)

(* The first slots leave the queue, nothing is put. *)
LEMMA OrderedDrop ==
    ASSUME NEW O, NEW N, Shorter(O, N), NEW D \in Seq(FrameSlots), NEW m \in 0 .. Len(D),
           NEW E, E = SubSeq(D, m + 1, Len(D)), NEW p, NEW q,
           \A k \in 1 .. Len(E) : q.frame[E[k]] = p.frame[E[k]], Ordered(O, D, p)
    PROVE  Ordered(N, E, q)
<1>1. /\ Len(O) \in Nat /\ Len(N) \in Nat /\ Len(N) <= Len(O)
      /\ \A k \in 1 .. Len(N) : N[k] = O[k]
  BY DEF Shorter
<1>2. \A k \in 1 .. Len(N) : k \in 1 .. Len(O)
  BY <1>1
<1>3. Len(D) \in Nat /\ Len(E) = Len(D) - m /\ Len(E) \in Nat
  OBVIOUS
<1>4. \A k \in 1 .. Len(E) : m + k \in 1 .. Len(D) /\ E[k] = D[m + k]
  BY <1>3
<1>5. \A k \in 1 .. Len(E) : q.frame[E[k]].pts = p.frame[D[m + k]].pts
  BY <1>4
<1>6. \A j, k \in 1 .. Len(N) :
         j < k /\ IsPicture(N[j]) /\ IsPicture(N[k]) => N[j].pts < N[k].pts
  BY <1>1, <1>2 DEF Ordered
<1>7. \A j \in 1 .. Len(N), k \in 1 .. Len(E) :
         IsPicture(N[j]) => N[j].pts < q.frame[E[k]].pts
  BY <1>1, <1>2, <1>4, <1>5 DEF Ordered
<1>8. ASSUME NEW j \in 1 .. Len(E), NEW k \in 1 .. Len(E), j < k
      PROVE  q.frame[E[j]].pts < q.frame[E[k]].pts
  <2>1. m + j < m + k
    BY <1>3, <1>8
  <2> QED BY <1>4, <1>5, <2>1 DEF Ordered
<1> QED BY <1>6, <1>7, <1>8 DEF Ordered

(* The first slots leave the queue, and their frames are put. *)
LEMMA OrderedShow ==
    ASSUME NEW O, NEW N, NEW D \in Seq(FrameSlots), NEW d, NEW p, NEW q,
           Shows(O, N, d, p), Len(d) \in 0 .. Len(D),
           \A k \in 1 .. Len(d) : d[k] = D[k],
           NEW E, E = SubSeq(D, Len(d) + 1, Len(D)),
           \A k \in 1 .. Len(E) : q.frame[E[k]] = p.frame[E[k]], Ordered(O, D, p)
    PROVE  Ordered(N, E, q)
<1> DEFINE m == Len(d)
           n == Len(O)
<1>1. /\ n \in Nat /\ m \in Nat /\ Len(N) \in Nat /\ n + m <= Len(N)
      /\ m \in 0 .. Len(D)
      /\ \A k \in 1 .. n : N[k] = O[k]
      /\ \A k \in 1 .. m : N[n + k].pts = p.frame[D[k]].pts
      /\ \A k \in 1 .. Len(N) : n + m < k => ~IsPicture(N[k])
  BY DEF Shows
<1>2. Len(D) \in Nat /\ Len(E) = Len(D) - m /\ Len(E) \in Nat
  BY <1>1
<1>3. \A k \in 1 .. Len(E) : m + k \in 1 .. Len(D) /\ E[k] = D[m + k]
  BY <1>1, <1>2
<1>4. \A k \in 1 .. Len(E) : q.frame[E[k]].pts = p.frame[D[m + k]].pts
  BY <1>3
<1>5. \A k \in 1 .. m : k \in 1 .. Len(D)
  BY <1>1, <1>2
<1> HIDE DEF m, n
(* A picture in N is in O or of a slot in d. *)
<1>6. ASSUME NEW k \in 1 .. Len(N), IsPicture(N[k])
      PROVE  \/ k \in 1 .. n /\ N[k] = O[k]
             \/ \E i \in 1 .. m : k = n + i /\ N[k].pts = p.frame[D[i]].pts
  <2>1. k \in 1 .. n \/ k - n \in 1 .. m
    BY <1>1, <1>6
  <2>2. CASE k - n \in 1 .. m
    <3>1. k = n + (k - n)
      BY <1>1
    <3> QED BY <1>1, <2>2, <3>1
  <2> QED BY <1>1, <2>1, <2>2
<1>7. ASSUME NEW j \in 1 .. Len(N), NEW k \in 1 .. Len(N), j < k,
             IsPicture(N[j]), IsPicture(N[k])
      PROVE  N[j].pts < N[k].pts
  <2>1. CASE k \in 1 .. n /\ N[k] = O[k]
    <3>1. j \in 1 .. n /\ N[j] = O[j]
      BY <1>1, <1>7, <2>1
    <3> QED BY <1>7, <2>1, <3>1 DEF Ordered, n
  <2>2. ASSUME NEW i \in 1 .. m, k = n + i, N[k].pts = p.frame[D[i]].pts
        PROVE  N[j].pts < N[k].pts
    <3>1. CASE j \in 1 .. n /\ N[j] = O[j]
      BY <1>5, <1>7, <2>2, <3>1 DEF Ordered, n
    <3>2. ASSUME NEW h \in 1 .. m, j = n + h, N[j].pts = p.frame[D[h]].pts
          PROVE  N[j].pts < N[k].pts
      <4>1. h < i
        BY <1>1, <1>7, <2>2, <3>2
      <4> QED BY <1>5, <2>2, <3>2, <4>1 DEF Ordered
    <3> QED BY <1>6, <1>7, <3>1, <3>2
  <2> QED BY <1>6, <1>7, <2>1, <2>2
<1>8. ASSUME NEW j \in 1 .. Len(N), NEW k \in 1 .. Len(E), IsPicture(N[j])
      PROVE  N[j].pts < q.frame[E[k]].pts
  <2>1. CASE j \in 1 .. n /\ N[j] = O[j]
    BY <1>3, <1>4, <1>8, <2>1 DEF Ordered, n
  <2>2. ASSUME NEW i \in 1 .. m, N[j].pts = p.frame[D[i]].pts
        PROVE  N[j].pts < q.frame[E[k]].pts
    <3>1. i < m + k
      BY <1>1, <1>2
    <3> QED BY <1>3, <1>4, <1>5, <2>2, <3>1 DEF Ordered
  <2> QED BY <1>6, <1>8, <2>1, <2>2
<1>9. ASSUME NEW j \in 1 .. Len(E), NEW k \in 1 .. Len(E), j < k
      PROVE  q.frame[E[j]].pts < q.frame[E[k]].pts
  <2>1. m + j < m + k
    BY <1>1, <1>2, <1>9
  <2> QED BY <1>3, <1>4, <2>1 DEF Ordered
<1> QED BY <1>7, <1>8, <1>9 DEF Ordered

(* E is D with a slot i for the picture n, which comes after all others. *)
Grows(O, N, D, E, i, p, q, n) ==
    /\ Shorter(O, N) /\ Ordered(O, D, p)
    /\ D \in Seq(FrameSlots) /\ i \in FrameSlots /\ E = Append(D, i)
    /\ \A k \in 1 .. Len(D) :
          q.frame[D[k]] = p.frame[D[k]] /\ p.frame[D[k]].pts < n
    /\ q.frame[i].pts = n
    /\ \A k \in 1 .. Len(O) : IsPicture(O[k]) => O[k].pts < n

(* A picture that comes after all others is put to the queue. *)
LEMMA OrderedGrow ==
    ASSUME NEW O, NEW N, NEW D, NEW E, NEW i, NEW p, NEW q, NEW n,
           Grows(O, N, D, E, i, p, q, n)
    PROVE  Ordered(N, E, q)
<1>0. /\ Shorter(O, N) /\ Ordered(O, D, p)
      /\ D \in Seq(FrameSlots) /\ i \in FrameSlots /\ E = Append(D, i)
      /\ \A k \in 1 .. Len(D) :
            q.frame[D[k]] = p.frame[D[k]] /\ p.frame[D[k]].pts < n
      /\ q.frame[i].pts = n
      /\ \A k \in 1 .. Len(O) : IsPicture(O[k]) => O[k].pts < n
  BY DEF Grows
<1>1. /\ Len(O) \in Nat /\ Len(N) \in Nat /\ Len(N) <= Len(O)
      /\ \A k \in 1 .. Len(N) : N[k] = O[k]
  BY <1>0 DEF Shorter
<1>2. \A k \in 1 .. Len(N) : k \in 1 .. Len(O)
  BY <1>1
<1>3. Len(D) \in Nat /\ Len(E) = Len(D) + 1
  BY <1>0
<1>4. \A k \in 1 .. Len(E) :
         \/ k \in 1 .. Len(D) /\ E[k] = D[k] /\ q.frame[E[k]].pts = p.frame[D[k]].pts
            /\ p.frame[D[k]].pts < n
         \/ k = Len(E) /\ q.frame[E[k]].pts = n
  <2>1. ASSUME NEW k \in 1 .. Len(E)
        PROVE  (k \in 1 .. Len(D) /\ E[k] = D[k]) \/ (k = Len(E) /\ E[k] = i)
    BY <1>0, <1>3
  <2> QED BY <1>0, <2>1
<1>5. \A j, k \in 1 .. Len(N) :
         j < k /\ IsPicture(N[j]) /\ IsPicture(N[k]) => N[j].pts < N[k].pts
  BY <1>0, <1>1, <1>2 DEF Ordered
<1>6. \A j \in 1 .. Len(N), k \in 1 .. Len(E) :
         IsPicture(N[j]) => N[j].pts < q.frame[E[k]].pts
  BY <1>0, <1>1, <1>2, <1>4 DEF Ordered
<1>7. ASSUME NEW j \in 1 .. Len(E), NEW k \in 1 .. Len(E), j < k
      PROVE  q.frame[E[j]].pts < q.frame[E[k]].pts
  <2>1. j # Len(E)
    BY <1>3, <1>7
  <2> QED BY <1>0, <1>4, <1>7, <2>1 DEF Ordered
<1> QED BY <1>5, <1>6, <1>7 DEF Ordered

(* The slots of the queue are in use. *)
LEMMA QueueUsed ==
    ASSUME NEW p, FramePool(p)
    PROVE  /\ DisplayQueue(p) \in Seq(FrameSlots)
           /\ \A k \in 1 .. Len(DisplayQueue(p)) : DisplayQueue(p)[k] \in p.on_used
<1> DEFINE D == DisplayQueue(p)
<1>1. D \in Seq(FrameSlots) /\ \A i \in FrameSlots : i \in ToSet(D) => i \in p.on_used
  BY FrameFields
<1> HIDE DEF D
<1>2. \A k \in 1 .. Len(D) : D[k] \in FrameSlots /\ D[k] \in ToSet(D)
  BY <1>1 DEF ToSet
<1> QED BY <1>1, <1>2 DEF D

(* The first slots leave the queue, and no slot gets a new frame. *)
QueueDrops ==
    /\ FramePool(slots') /\ Fewer(slots, slots')
    /\ \E m \in 0 .. Len(DisplayQueue(slots)) :
          DisplayQueue(slots') =
              SubSeq(DisplayQueue(slots), m + 1, Len(DisplayQueue(slots)))

(* The queue stays. *)
LEMMA QueueStays ==
    ASSUME FramePool(slots), FramePool(slots'), Fewer(slots, slots'),
           DisplayQueue(slots') = DisplayQueue(slots)
    PROVE  QueueDrops
<1> DEFINE D == DisplayQueue(slots)
<1>1. D \in Seq(FrameSlots)
  BY FrameFields
<1>2. DisplayQueue(slots') = D
  OBVIOUS
<1> HIDE DEF D
<1>3. D = SubSeq(D, 0 + 1, Len(D)) /\ 0 \in 0 .. Len(D)
  BY <1>1
<1> QED BY <1>2, <1>3 DEF QueueDrops, D

(* All slots leave the queue. *)
LEMMA QueueEmptied ==
    ASSUME FramePool(slots), FramePool(slots'), Fewer(slots, slots'),
           DisplayQueue(slots') = <<>>
    PROVE  QueueDrops
<1> DEFINE D == DisplayQueue(slots)
<1>1. D \in Seq(FrameSlots)
  BY FrameFields
<1> HIDE DEF D
<1>2. SubSeq(D, Len(D) + 1, Len(D)) = <<>> /\ Len(D) \in 0 .. Len(D)
  BY <1>1
<1> QED BY <1>2 DEF QueueDrops, D

(* What is ready leaves the queue. *)
LEMMA QueueShown ==
    ASSUME FramePool(slots), slots' = Drained(slots)
    PROVE  /\ QueueDrops
           /\ Len(Displayed(slots)) \in 0 .. Len(DisplayQueue(slots))
           /\ \A k \in 1 .. Len(Displayed(slots)) :
                 Displayed(slots)[k] = DisplayQueue(slots)[k]
           /\ DisplayQueue(slots') =
                 SubSeq(DisplayQueue(slots), Len(Displayed(slots)) + 1,
                        Len(DisplayQueue(slots)))
<1>1. /\ FramePool(slots') /\ Later(slots, slots')
      /\ Marks(slots', slots.codec_use, slots.not_ready, Referred(slots),
               SubSeq(DisplayQueue(slots), Len(Displayed(slots)) + 1,
                      Len(DisplayQueue(slots))))
  BY FrameDrained
<1>2. DisplayQueue(slots) \in Seq(FrameSlots)
  BY FrameFields
<1>3. /\ Len(Displayed(slots)) \in 0 .. Len(DisplayQueue(slots))
      /\ \A k \in 1 .. Len(Displayed(slots)) :
            Displayed(slots)[k] = DisplayQueue(slots)[k]
  BY <1>2, DisplayedFacts
<1>4. Fewer(slots, slots')
  BY <1>1 DEF Later, Fewer
<1>5. DisplayQueue(slots') =
          SubSeq(DisplayQueue(slots), Len(Displayed(slots)) + 1, Len(DisplayQueue(slots)))
  BY <1>1 DEF Marks
<1> QED BY <1>1, <1>3, <1>4, <1>5 DEF QueueDrops

(* What a step does to the queue. *)
LEMMA QueueStep ==
    ASSUME Base, SlotsInv, Kinds, SlotsInv'
    PROVE  QueueDrops \/ \E i : ParsedTo(i)
<1>1. FramePool(slots) /\ FramePool(slots')
  BY DEF SlotsInv, Shares
<1>2. CASE slots' = slots
  <2>1. Fewer(slots, slots')
    BY <1>2, FewerSelf
  <2> QED BY <1>1, <1>2, <2>1, QueueStays
<1>3. CASE Aside
  <2>1. CASE slots' = Drained(slots)
    BY <1>1, <2>1, QueueShown
  <2>2. CASE slots' = Ready(slots)
    <3>1. Fewer(slots, slots')
      BY <1>3, AsideSlots
    <3>2. DisplayQueue(slots') = DisplayQueue(slots)
      BY <1>1, <2>2, FrameReady DEF Marks
    <3> QED BY <1>1, <3>1, <3>2, QueueStays
  <2> QED BY <1>2, <1>3, <2>1, <2>2 DEF Aside
<1>4. CASE Abandoned
  BY <1>1, <1>4, SlotsAbandoned, QueueEmptied
<1>5. CASE WasCleared
  BY <1>1, <1>5, SlotsWasCleared, QueueStays
<1>6. CASE Taken \/ (\E i : Copied(i)) \/ Started \/ Refused \/ WasRead \/ Ended
  BY <1>2, <1>6 DEF Taken, Copied, Started, Refused, WasRead, Ended
<1> QED BY <1>3, <1>4, <1>5, <1>6 DEF Kinds

(* Frames of the slots that stay in the queue stay. *)
LEMMA QueueFrames ==
    ASSUME FramePool(slots), QueueDrops
    PROVE  \A k \in 1 .. Len(DisplayQueue(slots')) :
              slots'.frame[DisplayQueue(slots')[k]] = slots.frame[DisplayQueue(slots')[k]]
BY QueueUsed DEF QueueDrops, Fewer

(* The order is kept. *)
LEMMA OrderedStep ==
    ASSUME Base, SlotsInv, FrameInv, OrderInv, Kinds, SlotsInv', OutputMoves
    PROVE  Ordered(Output', DisplayQueue(slots'), slots')
<1>1. FramePool(slots) /\ TasksUse
  BY HeldNow DEF SlotsInv, Shares
<1>2. /\ DisplayQueue(slots) \in Seq(FrameSlots)
      /\ \A k \in 1 .. Len(DisplayQueue(slots)) : DisplayQueue(slots)[k] \in slots.on_used
  BY <1>1, QueueUsed
<1>3. Ordered(Output, DisplayQueue(slots), slots)
  BY DEF OrderInv
<1>4. CASE slots' = Drained(slots) /\ Shows(Output, Output', Displayed(slots), slots)
  BY <1>1, <1>2, <1>3, <1>4, QueueShown, QueueFrames, OrderedShow
<1>5. CASE Shorter(Output, Output') /\ QueueDrops
  <2>1. PICK m \in 0 .. Len(DisplayQueue(slots)) :
           DisplayQueue(slots') =
               SubSeq(DisplayQueue(slots), m + 1, Len(DisplayQueue(slots)))
    BY <1>5 DEF QueueDrops
  <2> QED BY <1>1, <1>2, <1>3, <1>5, <2>1, QueueFrames, OrderedDrop
<1>6. ASSUME Shorter(Output, Output'), NEW i, ParsedTo(i)
      PROVE  Ordered(Output', DisplayQueue(slots'), slots')
  <2> DEFINE n == task.info.pkt
  <2>1. /\ i \in FrameSlots
        /\ Grown(slots, slots', i, PictureOf(n))
        /\ Marks(slots', {i}, slots.not_ready \cup {i},
                 Referred(slots) \cup References(n), Append(DisplayQueue(slots), i))
        /\ FramePool(slots')
    BY <1>6, ParsedSlots
  <2>2. DisplayQueue(slots') = Append(DisplayQueue(slots), i)
    BY <2>1 DEF Marks
  <2>3. task.curr_rdy /\ ~task.parsed_rdy
    BY <1>6 DEF ParsedTo, AtParse
  <2> HIDE DEF n
  <2>4. slots'.frame[i].pts = n
    BY <2>1 DEF Grown, PictureOf
  <2>5. /\ \A j \in slots.on_used : slots.frame[j].pts < n
        /\ \A k \in 1 .. Len(Output) : IsPicture(Output[k]) => Output[k].pts < n
    BY <2>3 DEF FrameInv, OrderInv, AllPast, Past, n
  <2>6. ASSUME NEW k \in 1 .. Len(DisplayQueue(slots))
        PROVE  /\ slots'.frame[DisplayQueue(slots)[k]] = slots.frame[DisplayQueue(slots)[k]]
               /\ slots.frame[DisplayQueue(slots)[k]].pts < n
    <3>1. DisplayQueue(slots)[k] \in slots'.on_used
      <4> DEFINE D == DisplayQueue(slots)
      <4>1. D \in Seq(FrameSlots) /\ DisplayQueue(slots') = Append(D, i) /\ k \in 1 .. Len(D)
        BY <1>2, <2>2
      <4> HIDE DEF D
      <4>2. k \in 1 .. Len(Append(D, i)) /\ Append(D, i)[k] = D[k]
        BY <2>1, <4>1
      <4>3. \A j \in 1 .. Len(DisplayQueue(slots')) :
               DisplayQueue(slots')[j] \in slots'.on_used
        BY <2>1, QueueUsed
      <4>4. D[k] \in slots'.on_used
        BY <4>1, <4>2, <4>3
      <4> QED BY <4>4 DEF D
    <3>2. DisplayQueue(slots)[k] # i
      BY <1>2, <2>1 DEF Grown
    <3> QED BY <1>2, <2>1, <2>5, <3>1, <3>2 DEF Grown
  <2> DEFINE O == Output
             N == Output'
             D == DisplayQueue(slots)
             E == DisplayQueue(slots')
  <2>7. Grows(O, N, D, E, i, slots, slots', n)
    BY <1>2, <1>3, <1>6, <2>1, <2>2, <2>4, <2>5, <2>6 DEF Grows
  <2> HIDE DEF O, N, D, E
  <2>8. Ordered(N, E, slots')
    BY <2>7, OrderedGrow
  <2> QED BY <2>8 DEF N, E
<1> QED BY <1>4, <1>5, <1>6, QueueStep DEF OutputMoves

(* What came out is of packets of the past. *)
LEMMA PastStep ==
    ASSUME Base, SlotsInv, FrameInv, OrderInv, Kinds, OutputMoves
    PROVE  AllPast(Output', mPackets', sent', task')
<1>1. /\ FramePool(slots) /\ PacketsStep
      /\ \A i \in slots.on_used : slots.frame[i].pts \in Nat
  BY HeldNow, KindsPackets DEF SlotsInv, Shares, TasksUse
<1>2. \A i \in slots.on_used : Past(slots.frame[i].pts, mPackets, sent, task)
  BY DEF FrameInv
<1>3. \A k \in 1 .. Len(Output) : IsPicture(Output[k]) =>
         Output[k].pts \in Nat /\ Past(Output[k].pts, mPackets, sent, task)
  BY DEF OrderInv, AllPast
<1> SUFFICES ASSUME NEW k \in 1 .. Len(Output'), IsPicture(Output'[k])
             PROVE  /\ Output'[k].pts \in Nat
                    /\ Past(Output'[k].pts, mPackets, sent, task)
  BY <1>1, PastKept DEF AllPast
<1>4. CASE Shorter(Output, Output')
  <2>1. k \in 1 .. Len(Output) /\ Output'[k] = Output[k]
    BY <1>4 DEF Shorter
  <2> QED BY <1>3, <2>1
<1>5. CASE slots' = Drained(slots) /\ Shows(Output, Output', Displayed(slots), slots)
  <2> DEFINE n == Len(Output)
             d == Displayed(slots)
  <2>1. /\ n \in Nat /\ Len(d) \in Nat /\ Len(Output') \in Nat
        /\ \A j \in 1 .. n : Output'[j] = Output[j]
        /\ \A j \in 1 .. Len(d) : Output'[n + j].pts = slots.frame[d[j]].pts
        /\ ~(n + Len(d) < k)
    BY <1>5 DEF Shows
  <2>2. \A j \in 1 .. Len(d) : d[j] \in slots.on_used
    BY <1>1, <1>5, QueueShown, QueueUsed
  <2> HIDE DEF n, d
  <2>3. k \in 1 .. n \/ (k - n \in 1 .. Len(d) /\ k = n + (k - n))
    BY <2>1
  <2>4. CASE k \in 1 .. n
    BY <1>3, <2>1, <2>4 DEF n
  <2>5. ASSUME NEW j \in 1 .. Len(d), k = n + j
        PROVE  Output'[k].pts \in Nat /\ Past(Output'[k].pts, mPackets, sent, task)
    BY <1>1, <1>2, <2>1, <2>2, <2>5
  <2> QED BY <2>3, <2>4, <2>5
<1> QED BY <1>4, <1>5 DEF OutputMoves

(* The accounts, what the frame slots hold, and the order of the pictures. *)
OrderedInv == HeldInv /\ OrderInv

(* The first state. *)
LEMMA OrderFirst ==
    ASSUME Init
    PROVE  OrderInv
<1>1. /\ got = <<>> /\ mFrames = <<>>
      /\ slots = [SlotsInit(NumSlots) EXCEPT !.info = InitInfo, !.info_set = InitInfo]
  BY DEF Init
<1>2. DisplayQueue(slots) = <<>>
  BY <1>1 DEF SlotsInit, DisplayQueue, QueueTypes
<1>3. Len(DisplayQueue(slots)) = 0
  BY <1>2
<1>4. Len(Output) = 0
  BY <1>1 DEF Output
<1>5. OutputTyped
  BY <1>1 DEF OutputTyped
<1> QED BY <1>3, <1>4, <1>5 DEF OrderInv, Ordered, AllPast

(* Every step keeps the order. *)
LEMMA OrderStep ==
    ASSUME OrderedInv, [Next]_vars
    PROVE  OrderedInv'
<1>1. /\ Base /\ SlotsInv /\ FrameInv /\ OrderInv /\ HeldInv /\ OutputTyped
      /\ FramePool(slots)
  BY DEF OrderedInv, HeldInv, IInv, SlotsInv, Shares, OrderInv
<1>2. HeldInv'
  BY <1>1, HeldStep
<1>3. Kinds
  BY <1>1, StepKinds
<1>4. OutputTyped' /\ OutputMoves
  BY <1>1, OutputStep
<1>5. Ordered(Output', DisplayQueue(slots'), slots')
  BY <1>1, <1>2, <1>3, <1>4, OrderedStep DEF HeldInv, IInv
<1>6. AllPast(Output', mPackets', sent', task')
  BY <1>1, <1>3, <1>4, PastStep
<1> QED BY <1>2, <1>4, <1>5, <1>6 DEF OrderedInv, OrderInv

(* The pictures are in order in every state, fetched or not. *)
THEOREM PicturesOrdered == Spec => []OrderedInv
<1>1. Init => OrderedInv
  BY BaseInit, PacketFirst, SlotsFirst, FrameFirst, OrderFirst
     DEF IInv, HeldInv, OrderedInv
<1>2. OrderedInv /\ [Next]_vars => OrderedInv'
  BY OrderStep
<1> QED BY <1>1, <1>2, PTL DEF Spec

(* The pictures that come out are in the order of their packets. *)
THEOREM PicturesInOrder == Spec => []FramesInOrder
<1>1. OrderedInv => FramesInOrder
  <2> SUFFICES ASSUME OrderedInv PROVE FramesInOrder
    OBVIOUS
  <2>1. PICK S : got \in Seq(S) /\ mFrames \in Seq(S)
    BY DEF OrderedInv, OrderInv, OutputTyped
  <2>2. Output \in Seq(S)
    BY <2>1 DEF Output
  <2>3. DOMAIN Output = 1 .. Len(Output)
    BY <2>2
  <2> QED BY <2>3 DEF OrderedInv, OrderInv, Ordered, FramesInOrder
<1> QED BY <1>1, PicturesOrdered, PTL

(* When the parser has dropped what it had, the codec holds no picture and *)
(* the display queue is empty, until it goes on.                           *)
PostInv == task.pc = "post" => codec.ref0 = NoSlot /\ DisplayQueue(slots) = <<>>

(* A parser that is at most woken comes to no other stage. *)
LEMMA WokenNotPost ==
    ASSUME TypeInv, TaskKept, task.pc # "post"
    PROVE  task'.pc # "post"
BY DEF TypeInv, DecTasks, TaskKept

(* Only the drop of the task in hand leads there. *)
LEMMA PostEntered ==
    ASSUME Base, [Next]_vars, task.pc # "post", task'.pc = "post"
    PROVE  Abandoned
<1> USE DEF lists, calls
<1>0. TypeInv /\ task \in DecTasks
  BY DEF Base, TypeInv
<1>1. CASE UNCHANGED vars
  BY <1>1 DEF vars
<1>2. CASE Parser
  <2>1. CASE ParserDrop
    BY <2>1, StepDrop
  <2>2. CASE \/ ParserCheck \/ ParserReset \/ ParserResetDone \/ ParserGetHnd
    BY <1>0, <2>2 DEF ParserCheck, ParserReset, ParserResetDone, ParserGetHnd,
                      Go, Pass, Block, DecTasks
  <2>3. CASE ParserGetPacket \/ ParserCopy
    BY <1>0, <2>3 DEF ParserGetPacket, ParserCopy, Go, Pass, Block, DecTasks
  <2>4. CASE ParserWaitPrev \/ ParserWaitDisplay \/ ParserWaitSlot
    BY <1>0, <2>4 DEF ParserWaitPrev, ParserWaitDisplay, ParserWaitSlot, Go, Pass, Block,
                      DecTasks
  <2>5. CASE ParserParse \/ ParserDropPacket \/ ParserExit
    BY <1>0, <2>5 DEF ParserParse, ParserDropPacket, ParserExit, Go, DecTasks
  <2>6. CASE ParserInfoChange \/ ParserWaitReady \/ ParserStart
    BY <1>0, <2>6 DEF ParserInfoChange, ParserWaitReady, ParserStart, Pass, Block, DecTasks
  <2> QED BY <1>2, <2>1, <2>2, <2>3, <2>4, <2>5, <2>6 DEF Parser
<1>3. CASE HalTake \/ HalReset \/ HalInfoChange \/ HalEos \/ HalSetIdle
  BY <1>3 DEF HalTake, HalReset, HalInfoChange, HalEos, HalSetIdle
<1>4. CASE HalHwDone \/ HalTaskDone \/ HalClear \/ HalPush \/ HalExit
  BY <1>4 DEF HalHwDone, HalTaskDone, HalClear, HalPush, HalExit
<1>5. CASE \E flag \in SUBSET Reset : Notify(flag)
  BY <1>0, <1>5, NotifyFacts, WokenNotPost
<1>6. CASE HalSleep \/ HalNotify
  <2>1. /\ {"dec_all_done"} \subseteq Reset
        /\ {"task_hnd", "prev_task"} \subseteq Reset /\ {"task_hnd"} \subseteq Reset
    BY DEF Reset, WaitBits
  <2> QED BY <1>5, <1>6, <2>1 DEF HalSleep, HalNotify
<1>7. CASE PutPacket \/ GetFrame \/ GetNothing \/ NotifyReady \/ ResetNotify
  <2>1. /\ {"dec_pkt_in"} \subseteq Reset /\ {"dis_que_full"} \subseteq Reset
        /\ {"info_change", "dec_pic_match"} \subseteq Reset /\ Reset \subseteq Reset
    BY DEF Reset, WaitBits
  <2> QED BY <1>5, <1>7, <2>1 DEF PutPacket, GetFrame, GetNothing, NotifyReady, ResetNotify
<1>8. CASE SetReady \/ ResetStart \/ ResetFlag \/ ResetUnlock \/ ResetWait \/ ResetFlush
  BY <1>8 DEF SetReady, ResetStart, ResetFlag, ResetUnlock, ResetWait, ResetFlush
<1>9. CASE ClearStart \/ ClearStopHal \/ ClearDone \/ Finished
  BY <1>0, <1>9 DEF ClearStart, ClearStopHal, ClearDone, Finished, vars, DecTasks
<1> QED BY <1>1, <1>2, <1>3, <1>4, <1>6, <1>7, <1>8, <1>9 DEF Next, HalThread, ResetSteps

(* An empty queue stays empty while the parser takes no slot. *)
LEMMA EmptyStays ==
    ASSUME FramePool(slots), QueueDrops, DisplayQueue(slots) = <<>>
    PROVE  DisplayQueue(slots') = <<>>
<1>1. PICK m \in 0 .. Len(DisplayQueue(slots)) :
         DisplayQueue(slots') = SubSeq(DisplayQueue(slots), m + 1, Len(DisplayQueue(slots)))
  BY DEF QueueDrops
<1>2. m = 0 /\ DisplayQueue(slots') = SubSeq(DisplayQueue(slots), 1, 0)
  BY <1>1
<1>3. FramePool(slots')
  BY DEF QueueDrops
<1>4. DisplayQueue(slots') \in Seq(FrameSlots)
  BY <1>3, FrameFields
<1>5. DisplayQueue(slots) \in Seq(FrameSlots)
  BY FrameFields
<1>6. Len(SubSeq(DisplayQueue(slots), 1, 0)) = 0
  BY <1>5
<1> QED BY <1>2, <1>4, <1>6

(* Every step keeps it. *)
LEMMA PostStep ==
    ASSUME Base, SlotsInv, PostInv, [Next]_vars, Kinds, SlotsInv'
    PROVE  PostInv'
<1> SUFFICES ASSUME task'.pc = "post"
             PROVE  codec'.ref0 = NoSlot /\ DisplayQueue(slots') = <<>>
  BY DEF PostInv
<1>1. CASE Abandoned
  BY <1>1, SlotsAbandoned DEF Abandoned
<1>2. CASE task.pc = "post" /\ ~Abandoned
  <2>1. \A i : ~ParsedTo(i)
    BY <1>2 DEF ParsedTo, AtParse
  <2>2. FramePool(slots) /\ QueueDrops
    BY <2>1, QueueStep DEF SlotsInv, Shares
  <2>3. codec' = codec
    BY <1>2, <2>1 DEF Kinds, Aside, Taken, Copied, Started, Refused, WasRead, WasCleared,
                      Ended
  <2> QED BY <1>2, <2>2, <2>3, EmptyStays DEF PostInv
<1> QED BY <1>1, <1>2, PostEntered

-----------------------------------------------------------------------------
(* What is left then. *)
LEMMA PostReleases ==
    ASSUME Base, PacketInv, SlotsInv, PostInv
    PROVE  ResetReleases
<1> SUFFICES ASSUME task.pc = "post"
             PROVE  /\ slots.on_used = {} /\ pslots.on_used = {}
                    /\ DisplayQueue(slots) = <<>>
                    /\ ToSet(tasks.list["TASK_IDLE"]) = Hnds
  BY DEF ResetReleases
<1>1. /\ ~HasHnd(tasks, "TASK_PROCESSING") /\ hal.pc \in {"check", "wait"}
      /\ task = NewTask("post")
  BY DEF Base, ResetInv, Quiet
<1>2. /\ task.prev_rdy /\ ~task.copy_rdy /\ ~task.parsed_rdy
      /\ OwnOutput = {} /\ OwnRefer = {} /\ InHand = {}
  BY <1>1 DEF NewTask, OwnOutput, OwnRefer, InHand
<1>3. tasks.list["TASK_PROCESSING"] = <<>> /\ ProcDone = <<>>
  BY <1>1, <1>2 DEF HasHnd, Base, PrevInv
<1>4. ToSet(tasks.list["TASK_IDLE"]) = Hnds
  <2>1. \A h \in Hnds : \E s \in TaskStatuses : h \in ToSet(tasks.list[s])
    BY DEF Base, HandlesInv, AllLinked
  <2>2. tasks.list["TASK_IDLE"] \in Seq(Hnds)
    BY TaskLists DEF Base
  <2>3. ToSet(<<>>) = {}
    BY DEF ToSet
  <2>4. \A h \in Hnds : h \in ToSet(tasks.list["TASK_IDLE"])
    BY <1>3, <2>1, <2>3 DEF TaskStatuses, ProcDone
  <2>5. ToSet(tasks.list["TASK_IDLE"]) \subseteq Hnds
    BY <2>2 DEF ToSet
  <2> QED BY <2>4, <2>5
<1>5. Undone = <<>> /\ Unread = <<>>
  <2>1. Len(Todo) = 0 /\ Todo \in Seq(TaskInfos)
    BY <1>3, TaskLists DEF Base
  <2> QED BY <1>1, <2>1 DEF Undone, Unread
<1>6. pslots.on_used = {}
  <2>1. InputsOf(Unread) = <<>>
    BY <1>5 DEF InputsOf
  <2> QED BY <1>2, <2>1, PartsAlone DEF PacketInv
<1>7. /\ FramePool(slots) /\ slots.codec_use = {} /\ slots.not_ready = {}
      /\ Referred(slots) = {} /\ DisplayQueue(slots) = <<>>
  <2>1. OutputsOf(Undone) = <<>> /\ RefersOf(Undone) = <<>>
    BY <1>5 DEF OutputsOf, RefersOf
  <2>2. codec.ref0 = NoSlot /\ DisplayQueue(slots) = <<>>
    BY DEF PostInv
  <2>3. Shares(slots, NoSlot, Undone, OwnOutput, OwnRefer)
    BY <2>2 DEF SlotsInv
  <2> QED BY <1>2, <2>1, <2>2, <2>3, PartsAlone DEF Shares
<1>8. slots.on_used = {}
  <2>1. /\ slots.on_used \subseteq FrameSlots /\ Slots(slots) = FrameSlots
        /\ slots.hal_use \in [FrameSlots -> 0 .. 255]
    BY <1>7, FrameFields, ZenonT(60)
  <2>2. ToSet(<<>>) = {}
    BY DEF ToSet
  <2>3. ASSUME NEW i \in FrameSlots PROVE Idle(slots, i)
    <3>1. slots.hal_output = {} /\ slots.queue_use[i] = 0
      BY <1>7, <2>2 DEF FramePool
    <3>2. slots.hal_use[i] = 0
      <4>1. slots.hal_use[i] \in {0, 1}
        BY <1>7 DEF FramePool
      <4> QED BY <1>7, <4>1 DEF Referred
    <3> QED BY <1>7, <3>1, <3>2 DEF Idle
  <2> QED BY <1>7, <2>1, <2>3 DEF FramePool, UsedOK
<1> QED BY <1>4, <1>6, <1>7, <1>8

(* A reset releases every slot and every handle. *)
THEOREM ResetLeavesNothing == Spec => []ResetReleases
<1> DEFINE Inv == IInv /\ PostInv
<1>1. Init => Inv
  <2>1. Init => PostInv
    BY DEF Init, NewTask, PostInv
  <2> QED BY <2>1, BaseInit, PacketFirst, SlotsFirst DEF IInv
<1>2. Inv /\ [Next]_vars => Inv'
  <2> SUFFICES ASSUME Inv, [Next]_vars PROVE Inv'
    OBVIOUS
  <2>1. IInv'
    BY IInvStep
  <2>2. Kinds
    BY StepKinds DEF IInv
  <2> QED BY <2>1, <2>2, PostStep DEF IInv
<1>3. Inv => ResetReleases
  BY PostReleases DEF IInv
<1> QED BY <1>1, <1>2, <1>3, PTL DEF Spec

(* What is waited for in a stage that was passed is waited for no more, so *)
(* that the parser waits for one of these at a time.                       *)
WaitsInv ==
    /\ "task_hnd" \in task.wait => task.hnd = None
    /\ "dec_pkt_in" \in task.wait => task.hnd # None /\ ~task.curr_rdy
    /\ "prev_task" \in task.wait =>
           task.hnd # None /\ task.curr_rdy /\ ~task.prev_rdy /\ ~FastMode
    /\ "dis_que_full" \in task.wait =>
           /\ task.hnd # None /\ task.curr_rdy /\ (task.prev_rdy \/ FastMode)
           /\ task.pc \notin {"slot", "parse", "change"}

(* A parser that looks at its wait bits, or sleeps with them. *)
Looking == task.pc \in {"check", "wait"}

(* A handle, or a task that is done, of which the hal thread will not tell. *)
HandleThere ==
    HasHnd(tasks, "TASK_IDLE") /\ hal.pc \notin {"clear", "push", "notify"}
DoneThere ==
    HasHnd(tasks, "TASK_PROC_DONE") /\
    ~(hal.pc \in {"clear", "push", "notify"} /\ IsDecode(hal.info))

(* What has happened was told, unless it will be. *)
ToldInv ==
    Looking =>
        /\ "task_hnd" \in task.wait /\ HandleThere => "task_hnd" \in dec.notify_flag
        /\ "prev_task" \in task.wait /\ DoneThere => "prev_task" \in dec.notify_flag
        /\ "dec_pkt_in" \in task.wait /\ mPackets # <<>> =>
               "dec_pkt_in" \in dec.notify_flag
        /\ ~PutInReset /\ "dis_que_full" \in task.wait /\ Len(mFrames) <= FrameLimit =>
               "dis_que_full" \in dec.notify_flag

(* A parser that sleeps was told of nothing it waits for. *)
SleepInv ==
    task.pc = "wait" =>
        dec.status_flag = task.wait /\ task.wait \cap dec.notify_flag = {}

(* There are no packets in a reset. *)
FlushInv ==
    ~PutInReset /\ Resetting =>
        /\ mPackets = <<>>
        /\ user \in {"sem", "flush"} /\ ~dec.reset_flag => ~task.curr_rdy

WakeInv == WaitsInv /\ ToldInv /\ SleepInv /\ FlushInv

(* The bits that WaitsInv is about. *)
Waited == {"task_hnd", "dec_pkt_in", "prev_task", "dis_que_full"}

(* The parser waits for nothing of this, and does not sleep. *)
LEMMA WaitsForNone ==
    ASSUME task'.wait \cap Waited = {}, task'.pc # "wait"
    PROVE  WaitsInv' /\ ToldInv' /\ SleepInv'
<1>1. \A b \in Waited : b \notin task'.wait
  OBVIOUS
<1>2. WaitsInv' /\ ToldInv'
  BY <1>1 DEF Waited, WaitsInv, ToldInv
<1> QED BY <1>2 DEF SleepInv

(* The parser goes on to a stage with the bits it has. *)
LEMMA WaitsOnward ==
    ASSUME Base, WaitsInv, session' = session, NEW w \in SUBSET task.wait, NEW pc \in ParserPcs,
           Moves(w, pc), pc \notin {"check", "wait"},
           pc \in {"slot", "parse", "change"} => "dis_que_full" \notin w
    PROVE  WaitsInv' /\ ToldInv' /\ SleepInv'
<1>1. w \in SUBSET WaitBits
  BY DEF Base, TypeInv, DecTasks
<1>2. /\ task'.pc = pc /\ task'.wait = w /\ task'.hnd = task.hnd
      /\ task'.prev_rdy = task.prev_rdy /\ task'.curr_rdy = task.curr_rdy
  BY <1>1, MovesFacts DEF Base
<1>3. WaitsInv'
  BY <1>2 DEF WaitsInv, FastMode
<1> QED BY <1>2, <1>3 DEF ToldInv, SleepInv, Looking

(* The parser looks: it sleeps only when it was told of nothing. *)
LEMMA WakeCheck ==
    ASSUME Base, WakeInv, ParserCheck
    PROVE  WaitsInv' /\ ToldInv' /\ SleepInv'
<1> USE DEF pools, lists, calls
<1>1. /\ task \in DecTasks /\ dec \in Shared /\ task.pc = "check"
      /\ UNCHANGED <<session, tasks, hal, mPackets, mFrames>>
      /\ dec' = [dec EXCEPT !.status_flag = task.wait, !.notify_flag = {}]
  BY DEF Base, TypeInv, ParserCheck
<1>2. CASE MayWork
  <2>1. Moves(task.wait, "reset") /\ "reset" \in ParserPcs
    BY <1>2 DEF ParserCheck, Go, Moves, ParserPcs
  <2> QED BY <1>1, <2>1, WaitsOnward DEF WakeInv
<1>3. CASE ~MayWork
  <2>1. task' = [task EXCEPT !.pc = "wait"]
    BY <1>3 DEF ParserCheck, Go
  <2>2. /\ task'.pc = "wait" /\ task'.wait = task.wait /\ task'.hnd = task.hnd
        /\ task'.prev_rdy = task.prev_rdy /\ task'.curr_rdy = task.curr_rdy
    BY <1>1, <2>1 DEF DecTasks
  <2>3. /\ dec'.status_flag = task.wait /\ dec'.notify_flag = {}
        /\ task.wait \cap dec.notify_flag = {}
    BY <1>1, <1>3 DEF Shared, MayWork
  <2>4. WaitsInv'
    BY <1>1, <2>2 DEF WakeInv, WaitsInv, FastMode
  <2>5. HandleThere' = HandleThere /\ DoneThere' = DoneThere
    BY <1>1 DEF HandleThere, DoneThere
  <2>6. ToldInv'
    BY <1>1, <2>2, <2>3, <2>5 DEF WakeInv, ToldInv, Looking
  <2> QED BY <2>2, <2>3, <2>4, <2>6 DEF SleepInv
<1> QED BY <1>2, <1>3

(* A stage is not passed: what it needs is not there.                      *)
LEMMA WakeBlock ==
    ASSUME Base, WakeInv, NEW b \in WaitBits, Block(b), task.pc # "wait",
           UNCHANGED <<session, tasks, hal, mPackets, mFrames>>,
           b \in Waited => task.wait \cap (Waited \ {b}) = {},
           b \notin Waited => task.wait \cap Waited = {},
           b = "task_hnd" => task.hnd = None /\ ~HandleThere,
           b = "dec_pkt_in" => task.hnd # None /\ ~task.curr_rdy /\ mPackets = <<>>,
           b = "prev_task" =>
               /\ task.hnd # None /\ task.curr_rdy /\ ~task.prev_rdy /\ ~FastMode
               /\ ~DoneThere,
           b = "dis_que_full" =>
               /\ task.hnd # None /\ task.curr_rdy /\ (task.prev_rdy \/ FastMode)
               /\ ~(Len(mFrames) <= FrameLimit)
    PROVE  WaitsInv' /\ ToldInv' /\ SleepInv'
<1>1. task \in DecTasks /\ task' = [task EXCEPT !.wait = task.wait \cup {b}, !.pc = "check"]
  BY DEF Base, TypeInv, Block
<1>2. /\ task'.pc = "check" /\ task'.wait = task.wait \cup {b} /\ task'.hnd = task.hnd
      /\ task'.prev_rdy = task.prev_rdy /\ task'.curr_rdy = task.curr_rdy
  BY <1>1 DEF DecTasks
<1>3. \A a \in Waited : a \in task'.wait => a = b
  BY <1>2
<1>4. WaitsInv'
  BY <1>2, <1>3 DEF WaitsInv, Waited, FastMode
<1>5. HandleThere' = HandleThere /\ DoneThere' = DoneThere
  BY DEF HandleThere, DoneThere
<1>6. ToldInv'
  BY <1>2, <1>3, <1>5 DEF ToldInv, Waited
<1> QED BY <1>2, <1>4, <1>6 DEF SleepInv

(* The parser takes a handle. *)
LEMMA WakeGetHnd ==
    ASSUME Base, WakeInv, ParserGetHnd
    PROVE  WaitsInv' /\ ToldInv' /\ SleepInv'
<1> USE DEF pools, lists, calls
<1>1. /\ task \in DecTasks /\ task.pc = "reset"
      /\ UNCHANGED <<session, tasks, hal, mPackets, mFrames>>
  BY DEF Base, TypeInv, ParserGetHnd
<1>2. CASE task.hnd # None
  <2>1. Moves(task.wait, "pkt") /\ "pkt" \in ParserPcs
    BY <1>2 DEF ParserGetHnd, Go, Moves, ParserPcs, AtWork
  <2> QED BY <1>1, <2>1, WaitsOnward DEF WakeInv
<1>3. task.hnd = None => task.wait \cap (Waited \ {"task_hnd"}) = {}
  BY DEF WakeInv, WaitsInv, Waited
<1>4. CASE task.hnd = None /\ HasHnd(tasks, "TASK_IDLE")
  <2> DEFINE h == GetHnd(tasks, "TASK_IDLE")
             w == task.wait \ {"task_hnd"}
  <2>1. task' = [task EXCEPT !.wait = w, !.pc = "pkt", !.hnd = h]
    BY <1>1, <1>4 DEF ParserGetHnd, Pass, DecTasks
  <2> HIDE DEF h
  <2>2. task'.pc = "pkt" /\ task'.wait = w
    BY <1>1, <2>1 DEF DecTasks
  <2>3. task'.wait \cap Waited = {}
    BY <1>3, <1>4, <2>2
  <2> QED BY <2>2, <2>3, WaitsForNone
<1>5. CASE task.hnd = None /\ ~HasHnd(tasks, "TASK_IDLE")
  <2>1. Block("task_hnd") /\ "task_hnd" \in WaitBits /\ "task_hnd" \in Waited
    BY <1>5 DEF ParserGetHnd, WaitBits, Waited
  <2>2. ~HandleThere
    BY <1>5 DEF HandleThere
  <2> QED BY <1>1, <1>3, <1>5, <2>1, <2>2, WakeBlock
<1> QED BY <1>2, <1>4, <1>5

(* The parser takes a packet. *)
LEMMA WakeGetPacket ==
    ASSUME Base, WakeInv, ParserGetPacket
    PROVE  WaitsInv' /\ ToldInv' /\ SleepInv'
<1> USE DEF pools, lists, calls
<1>1. /\ task \in DecTasks /\ task.pc = "pkt" /\ task.hnd # None
      /\ UNCHANGED <<session, mFrames>>
  BY DEF Base, TypeInv, TaskInv, AtWork, ParserGetPacket
<1>2. ~task.curr_rdy => task.wait \cap (Waited \ {"dec_pkt_in"}) = {}
  BY <1>1 DEF WakeInv, WaitsInv, Waited
<1>3. CASE task.curr_rdy
  <2>1. Moves(task.wait, "copy") /\ "copy" \in ParserPcs
    BY <1>3 DEF ParserGetPacket, Go, Moves, ParserPcs, AtWork
  <2> QED BY <1>1, <2>1, WaitsOnward DEF WakeInv
<1>4. CASE ~task.curr_rdy /\ mPackets = <<>>
  <2>1. Block("dec_pkt_in") /\ "dec_pkt_in" \in WaitBits /\ "dec_pkt_in" \in Waited
    BY <1>4 DEF ParserGetPacket, WaitBits, Waited
  <2>2. UNCHANGED <<tasks, hal, mPackets>>
    BY <1>4 DEF ParserGetPacket
  <2> QED BY <1>1, <1>2, <1>4, <2>1, <2>2, WakeBlock
<1>5. CASE ~task.curr_rdy /\ mPackets # <<>>
  <2> DEFINE info == Prepared(Head(mPackets))
             w == task.wait \ {"dec_pkt_in"}
  <2>1. \/ task' = [task EXCEPT !.wait = w, !.pc = "copy", !.info = info, !.curr_rdy = TRUE]
        \/ task' = [task EXCEPT !.wait = w, !.pc = "check", !.info = info, !.hnd = None]
    BY <1>1, <1>5 DEF ParserGetPacket, Pass, DecTasks
  <2> HIDE DEF info
  <2>2. task'.pc # "wait" /\ task'.wait = w
    BY <1>1, <2>1 DEF DecTasks
  <2>3. task'.wait \cap Waited = {}
    BY <1>2, <1>5, <2>2
  <2> QED BY <2>2, <2>3, WaitsForNone
<1> QED BY <1>3, <1>4, <1>5

(* The parser waits for the previous task. *)
LEMMA WakeWaitPrev ==
    ASSUME Base, WakeInv, ParserWaitPrev
    PROVE  WaitsInv' /\ ToldInv' /\ SleepInv'
<1> USE DEF pools, lists, calls
<1>1. /\ task \in DecTasks /\ task.pc = "prev" /\ task.hnd # None /\ task.curr_rdy
      /\ UNCHANGED <<session, hal, mPackets, mFrames>>
  BY DEF Base, TypeInv, TaskInv, AtWork, ParserWaitPrev
<1>2. ~task.prev_rdy /\ ~FastMode => task.wait \cap (Waited \ {"prev_task"}) = {}
  BY <1>1 DEF WakeInv, WaitsInv, Waited
<1>3. CASE FastMode \/ task.prev_rdy
  <2>1. Moves(task.wait, "display") /\ "display" \in ParserPcs
    BY <1>3 DEF ParserWaitPrev, Go, Moves, ParserPcs, AtWork
  <2> QED BY <1>1, <2>1, WaitsOnward DEF WakeInv
<1>4. CASE ~FastMode /\ ~task.prev_rdy /\ HasHnd(tasks, "TASK_PROC_DONE")
  <2> DEFINE w == task.wait \ {"prev_task"}
  <2>1. task' = [task EXCEPT !.wait = w, !.pc = "display", !.prev_rdy = TRUE]
    BY <1>1, <1>4 DEF ParserWaitPrev, Pass, DecTasks
  <2>2. task'.pc = "display" /\ task'.wait = w
    BY <1>1, <2>1 DEF DecTasks
  <2>3. task'.wait \cap Waited = {}
    BY <1>2, <1>4, <2>2
  <2> QED BY <2>2, <2>3, WaitsForNone
<1>5. CASE ~FastMode /\ ~task.prev_rdy /\ ~HasHnd(tasks, "TASK_PROC_DONE")
  <2>1. Block("prev_task") /\ "prev_task" \in WaitBits /\ "prev_task" \in Waited
    BY <1>5 DEF ParserWaitPrev, WaitBits, Waited
  <2>2. tasks' = tasks
    BY <1>5 DEF ParserWaitPrev
  <2>3. ~DoneThere
    BY <1>5 DEF DoneThere
  <2> QED BY <1>1, <1>2, <1>5, <2>1, <2>2, <2>3, WakeBlock
<1> QED BY <1>3, <1>4, <1>5

(* The parser waits for frames to be fetched. *)
LEMMA WakeWaitDisplay ==
    ASSUME Base, WakeInv, ParserWaitDisplay
    PROVE  WaitsInv' /\ ToldInv' /\ SleepInv'
<1> USE DEF pools, lists, calls
<1>1. /\ task \in DecTasks /\ task.pc = "display" /\ task.hnd # None /\ task.curr_rdy
      /\ task.prev_rdy \/ FastMode
      /\ UNCHANGED <<session, tasks, hal, mPackets, mFrames>>
  BY DEF Base, TypeInv, TaskInv, AtWork, ParserWaitDisplay
<1>2. task.wait \cap (Waited \ {"dis_que_full"}) = {}
  BY <1>1 DEF WakeInv, WaitsInv, Waited
<1>3. CASE Len(mFrames) > FrameLimit
  <2>1. /\ Block("dis_que_full") /\ "dis_que_full" \in WaitBits
        /\ "dis_que_full" \in Waited
    BY <1>3 DEF ParserWaitDisplay, WaitBits, Waited
  <2>2. ~(Len(mFrames) <= FrameLimit)
    BY <1>3, CountAssumption
  <2> QED BY <1>1, <1>2, <1>3, <2>1, <2>2, WakeBlock
<1>4. CASE ~(Len(mFrames) > FrameLimit)
  <2> DEFINE w == task.wait \ {"dis_que_full"}
  <2>1. task' = [task EXCEPT !.wait = w, !.pc = "slot"]
    BY <1>1, <1>4 DEF ParserWaitDisplay, Pass, DecTasks
  <2>2. task'.pc = "slot" /\ task'.wait = w
    BY <1>1, <2>1 DEF DecTasks
  <2>3. task'.wait \cap Waited = {}
    BY <1>2, <2>2
  <2> QED BY <2>2, <2>3, WaitsForNone
<1> QED BY <1>3, <1>4

(* Beyond that stage nothing of this is waited for. *)
LEMMA WaitsLate ==
    ASSUME Base, WakeInv, task.pc \in {"slot", "parse", "change"}
    PROVE  task.wait \cap Waited = {}
BY DEF Base, TaskInv, AtWork, WakeInv, WaitsInv, Waited

(* A later stage. *)
LEMMA WakeLate ==
    ASSUME Base, WakeInv,
           ParserWaitSlot \/ ParserParse \/ ParserDropPacket \/ ParserInfoChange
           \/ ParserWaitReady \/ ParserStart
    PROVE  WaitsInv' /\ ToldInv' /\ SleepInv'
<1>1. task \in DecTasks /\ task.pc \in {"slot", "parse", "change"}
  BY DEF Base, TypeInv, ParserWaitSlot, ParserParse, ParserDropPacket, ParserInfoChange,
         ParserWaitReady, ParserStart
<1>2. task.wait \cap Waited = {} /\ "dec_slot_idx" \notin Waited /\ "info_change" \notin Waited
  BY <1>1, WaitsLate DEF Waited
<1>3. task'.pc # "wait" /\ task'.wait \subseteq task.wait \cup {"dec_slot_idx", "info_change"}
  <2>1. CASE ParserWaitSlot
    <3>1. \/ task' = [task EXCEPT !.wait = task.wait \cup {"dec_slot_idx"}, !.pc = "check"]
          \/ task' = [task EXCEPT !.wait = task.wait \ {"dec_slot_idx"}, !.pc = "parse"]
      BY <2>1 DEF ParserWaitSlot, Block, Pass
    <3>2. \/ task'.pc = "check" /\ task'.wait = task.wait \cup {"dec_slot_idx"}
          \/ task'.pc = "parse" /\ task'.wait = task.wait \ {"dec_slot_idx"}
      BY <1>1, <3>1 DEF DecTasks
    <3> QED BY <3>2
  <2>2. CASE ParserParse
    BY <1>1, <2>2 DEF ParserParse, Go, DecTasks
  <2>3. CASE ParserDropPacket
    BY <1>1, <2>3 DEF ParserDropPacket, DecTasks
  <2>4. CASE ParserInfoChange
    BY <1>1, <2>4 DEF ParserInfoChange, DecTasks
  <2>5. CASE ParserWaitReady
    BY <1>1, <2>5 DEF ParserWaitReady, Block, DecTasks
  <2>6. CASE ParserStart
    BY <1>1, <2>6 DEF ParserStart, Pass, DecTasks
  <2> QED BY <2>1, <2>2, <2>3, <2>4, <2>5, <2>6
<1>4. task'.wait \cap Waited = {}
  BY <1>2, <1>3
<1> QED BY <1>3, <1>4, WaitsForNone

(* A reset, or the end of the thread. *)
LEMMA WakeAway ==
    ASSUME Base, WakeInv,
           ParserReset \/ ParserDrop \/ ParserResetDone \/ ParserCopy \/ ParserExit
    PROVE  WaitsInv' /\ ToldInv' /\ SleepInv'
<1>1. task \in DecTasks
  BY DEF Base, TypeInv
<1>2. CASE ParserReset
  <2>1. Moves(task.wait, "sem_hal") /\ session' = session /\ "sem_hal" \in ParserPcs
    BY <1>2 DEF ParserReset, Go, Moves, ParserPcs
  <2> QED BY <2>1, WaitsOnward DEF WakeInv
<1>3. CASE ParserDrop
  <2>1. task'.wait = {} /\ task'.pc = "post"
    BY <1>3, NewTaskFacts DEF ParserDrop, ParserPcs
  <2> QED BY <2>1, WaitsForNone
<1>4. CASE ParserResetDone
  <2>1. task.wait = {} /\ task' = [task EXCEPT !.pc = "check"]
    BY <1>4, NewTaskFacts DEF ParserResetDone, Go, Base, ResetInv, ParserPcs
  <2>2. task'.wait = {} /\ task'.pc = "check"
    BY <1>1, <2>1 DEF DecTasks
  <2> QED BY <2>2, WaitsForNone
<1>5. CASE ParserCopy
  <2>1. session' = session /\ task.pc = "copy"
    BY <1>5 DEF ParserCopy
  <2>2. /\ task'.pc = "prev" /\ task'.wait = task.wait /\ task'.hnd = task.hnd
        /\ task'.prev_rdy = task.prev_rdy /\ task'.curr_rdy = task.curr_rdy
    BY <1>1, <1>5 DEF ParserCopy, Go, DecTasks
  <2>3. WaitsInv'
    BY <2>1, <2>2 DEF WakeInv, WaitsInv, FastMode
  <2> QED BY <2>2, <2>3 DEF ToldInv, Looking, SleepInv
<1>6. CASE ParserExit
  <2>1. Moves(task.wait, "exited") /\ session' = session /\ "exited" \in ParserPcs
    BY <1>6 DEF ParserExit, Go, Moves, ParserPcs
  <2> QED BY <2>1, WaitsOnward DEF WakeInv
<1> QED BY <1>2, <1>3, <1>4, <1>5, <1>6

(* A step of the parser brings no packet in hand in a reset. *)
LEMMA FlushParser ==
    ASSUME Base, WakeInv, Parser
    PROVE  FlushInv'
<1>1. task \in DecTasks /\ dec \in Shared /\ mPackets \in Seq(Nat)
  BY DEF Base, TypeInv
<1>2. user' = user
  BY DEF Parser, ParserCheck, ParserReset, ParserDrop, ParserResetDone, ParserGetHnd,
         ParserGetPacket, ParserCopy, ParserWaitPrev, ParserWaitDisplay, ParserWaitSlot,
         ParserParse, ParserDropPacket, ParserInfoChange, ParserWaitReady, ParserStart,
         ParserExit, calls
<1>3. CASE ParserResetDone
  <2>1. ~task.curr_rdy /\ task' = [task EXCEPT !.pc = "check"] /\ mPackets' = mPackets
    BY <1>3, NewTaskFacts DEF ParserResetDone, Go, Base, ResetInv, ParserPcs, lists
  <2>2. ~task'.curr_rdy
    BY <1>1, <2>1 DEF DecTasks
  <2> QED BY <1>2, <2>1, <2>2 DEF WakeInv, FlushInv, Resetting
<1>4. CASE ParserDrop
  <2>1. ~task'.curr_rdy /\ mPackets' = mPackets
    BY <1>4, NewTaskFacts DEF ParserDrop, ParserPcs, lists
  <2> QED BY <1>2, <2>1 DEF WakeInv, FlushInv, Resetting
<1>5. CASE ParserGetPacket
  <2>1. mPackets = <<>> => mPackets' = <<>> /\ task'.curr_rdy = task.curr_rdy
    BY <1>1, <1>5 DEF ParserGetPacket, Go, Block, DecTasks
  <2>2. dec' = dec
    BY <1>5 DEF ParserGetPacket
  <2> QED BY <1>2, <2>1, <2>2 DEF WakeInv, FlushInv, Resetting
<1>6. CASE ~ParserResetDone /\ ~ParserDrop /\ ~ParserGetPacket
  <2>1. mPackets' = mPackets /\ (task'.curr_rdy => task.curr_rdy)
    <3>1. CASE ParserCheck \/ ParserReset \/ ParserExit
      BY <1>1, <3>1 DEF ParserCheck, ParserReset, ParserExit, Go, lists, DecTasks
    <3>2. CASE ParserGetHnd \/ ParserCopy \/ ParserWaitPrev
      BY <1>1, <3>2 DEF ParserGetHnd, ParserCopy, ParserWaitPrev, Go, Pass, Block,
         lists, DecTasks
    <3>3. CASE ParserWaitDisplay \/ ParserWaitSlot \/ ParserWaitReady
      BY <1>1, <3>3 DEF ParserWaitDisplay, ParserWaitSlot, ParserWaitReady, Pass, Block,
         lists, DecTasks
    <3>4. CASE ParserParse \/ ParserDropPacket \/ ParserInfoChange \/ ParserStart
      BY <1>1, <3>4 DEF ParserParse, ParserDropPacket, ParserInfoChange, ParserStart, Go,
         Pass, lists, DecTasks
    <3> QED BY <1>6, <3>1, <3>2, <3>3, <3>4 DEF Parser
  <2>2. dec'.reset_flag = dec.reset_flag
    BY <1>1, <1>6 DEF Parser, ParserCheck, ParserReset, ParserGetHnd, ParserCopy,
       ParserWaitPrev, ParserWaitDisplay, ParserWaitSlot, ParserParse, ParserDropPacket,
       ParserInfoChange, ParserWaitReady, ParserStart, ParserExit, Shared
  <2> QED BY <1>2, <2>1, <2>2 DEF WakeInv, FlushInv, Resetting
<1> QED BY <1>3, <1>4, <1>5, <1>6

(* Every step of the parser. *)
LEMMA WakeParser ==
    ASSUME Base, WakeInv, Parser
    PROVE  WakeInv'
<1>1. WaitsInv' /\ ToldInv' /\ SleepInv'
  BY WakeCheck, WakeGetHnd, WakeGetPacket, WakeWaitPrev, WakeWaitDisplay, WakeLate,
     WakeAway DEF Parser
<1> QED BY <1>1, FlushParser DEF WakeInv

(* What is needed of a step of the hal thread or the user that tells the   *)
(* parser of flag: it makes nothing else there that the parser waits for.  *)
Tells(flag) ==
    /\ TaskKept /\ session' = session
    /\ dec'.notify_flag = dec.notify_flag \cup flag /\ dec'.status_flag = dec.status_flag
    /\ task.pc = "wait" /\ flag \cap task.wait # {} => task'.pc = "reset"
    /\ Looking /\ HandleThere' => HandleThere \/ "task_hnd" \in flag
    /\ Looking /\ DoneThere' => DoneThere \/ "prev_task" \in flag
    /\ mPackets' # <<>> => mPackets # <<>> \/ "dec_pkt_in" \in flag
    /\ ~PutInReset /\ task.curr_rdy /\ Len(mFrames') <= FrameLimit =>
           Len(mFrames) <= FrameLimit \/ "dis_que_full" \in flag

(* Then no wakeup is lost. *)
LEMMA WakeTells ==
    ASSUME Base, WakeInv, NEW flag, Tells(flag)
    PROVE  WaitsInv' /\ ToldInv' /\ SleepInv'
<1>1. /\ task'.wait = task.wait /\ task'.hnd = task.hnd /\ session' = session
      /\ task'.prev_rdy = task.prev_rdy /\ task'.curr_rdy = task.curr_rdy
      /\ task'.pc = task.pc \/ (task.pc = "wait" /\ task'.pc = "reset")
  BY DEF Tells, TaskKept, Base, TypeInv, DecTasks
<1>2. WaitsInv'
  BY <1>1 DEF WakeInv, WaitsInv, FastMode
<1>3. CASE task'.pc # task.pc
  BY <1>1, <1>2, <1>3 DEF ToldInv, SleepInv, Looking
<1>4. CASE task'.pc = task.pc
  <2>1. \A b : b \in dec.notify_flag \/ b \in flag => b \in dec'.notify_flag
    BY DEF Tells
  <2>2. ToldInv'
    <3> SUFFICES ASSUME Looking' PROVE ToldInv'
      BY DEF ToldInv
    <3>1. Looking
      BY <1>4 DEF Looking
    <3>2. "task_hnd" \in task'.wait /\ HandleThere' => "task_hnd" \in dec'.notify_flag
      BY <1>1, <2>1, <3>1 DEF WakeInv, ToldInv, Tells
    <3>3. "prev_task" \in task'.wait /\ DoneThere' => "prev_task" \in dec'.notify_flag
      BY <1>1, <2>1, <3>1 DEF WakeInv, ToldInv, Tells
    <3>4. "dec_pkt_in" \in task'.wait /\ mPackets' # <<>> => "dec_pkt_in" \in dec'.notify_flag
      BY <1>1, <2>1, <3>1 DEF WakeInv, ToldInv, Tells
    <3>5. ~PutInReset /\ "dis_que_full" \in task'.wait /\ Len(mFrames') <= FrameLimit =>
              "dis_que_full" \in dec'.notify_flag
      <4>1. "dis_que_full" \in task.wait => task.curr_rdy
        BY DEF WakeInv, WaitsInv
      <4> QED BY <1>1, <2>1, <3>1, <4>1 DEF WakeInv, ToldInv, Tells
    <3> QED BY <3>2, <3>3, <3>4, <3>5 DEF ToldInv
  <2>3. SleepInv'
    BY <1>1, <1>4 DEF WakeInv, SleepInv, Tells
  <2> QED BY <1>2, <2>2, <2>3
<1> QED BY <1>3, <1>4

(* mpp_dec_notify wakes the parser if it waits for one of the events. *)
LEMMA NotifyWakes ==
    ASSUME Base, WakeInv, NEW flag \in SUBSET Reset, Notify(flag)
    PROVE  /\ TaskKept /\ dec'.reset_flag = dec.reset_flag
           /\ dec'.notify_flag = dec.notify_flag \cup flag
           /\ dec'.status_flag = dec.status_flag
           /\ task.pc = "wait" /\ flag \cap task.wait # {} => task'.pc = "reset"
<1>1. /\ TaskKept /\ dec'.reset_flag = dec.reset_flag
      /\ dec'.notify_flag = dec.notify_flag \cup flag
      /\ dec'.status_flag = dec.status_flag
  BY NotifyFacts DEF Base
<1>2. ASSUME task.pc = "wait", flag \cap task.wait # {}
      PROVE  task'.pc = "reset"
  <2>1. dec.status_flag = task.wait /\ task.wait \cap dec.notify_flag = {}
    BY <1>2 DEF WakeInv, SleepInv
  <2>2. PICK b \in flag : b \in task.wait
    BY <1>2
  <2>3. Signals(flag)
    BY <2>1, <2>2 DEF Signals
  <2>4. task \in DecTasks /\ task' = [task EXCEPT !.pc = "reset"]
    BY <1>2, <2>3 DEF Notify, Base, TypeInv
  <2> QED BY <2>4 DEF DecTasks
<1> QED BY <1>1, <1>2

(* A step that tells the parser nothing and leaves its task alone. *)
LEMMA TellsNothing ==
    ASSUME Base, task' = task, session' = session,
           dec'.notify_flag = dec.notify_flag, dec'.status_flag = dec.status_flag,
           Looking /\ HandleThere' => HandleThere,
           Looking /\ DoneThere' => DoneThere,
           mPackets' # <<>> => mPackets # <<>>,
           ~PutInReset /\ task.curr_rdy /\ Len(mFrames') <= FrameLimit =>
               Len(mFrames) <= FrameLimit
    PROVE  Tells({})
BY DEF Tells, TaskKept

(* The hal thread's frames come behind those that are there. *)
LEMMA FramesLonger ==
    ASSUME OutputTyped, FramePool(slots), Len(mFrames') <= FrameLimit,
           \/ \E e : mFrames' = mFrames \o DisplayFrames(slots, e)
           \/ \E e, x : mFrames' = Append(mFrames \o DisplayFrames(slots, e), x)
    PROVE  Len(mFrames) <= FrameLimit
<1>1. PICK S : mFrames \in Seq(S)
  BY DEF OutputTyped
<1>2. DisplayQueue(slots) \in Seq(FrameSlots)
  BY FrameFields
<1>3. \A e : \E T : DisplayFrames(slots, e) \in Seq(T)
  BY <1>2, FramesShown
<1>4. PICK e, x : \/ mFrames' = mFrames \o DisplayFrames(slots, e)
                  \/ mFrames' = Append(mFrames \o DisplayFrames(slots, e), x)
  OBVIOUS
<1> DEFINE X == DisplayFrames(slots, e)
<1>5. PICK T : X \in Seq(T)
  BY <1>3
<1>6. mFrames' = mFrames \o X \/ mFrames' = Append(mFrames \o X, x)
  BY <1>4
<1> HIDE DEF X
<1>7. Len(mFrames) \in Nat /\ Len(X) \in Nat
  BY <1>1, <1>5
<1>8. Len(mFrames \o X) = Len(mFrames) + Len(X)
  BY <1>1, <1>5
<1>9. mFrames \o X \in Seq(S \cup T)
  BY <1>1, <1>5
<1>10. Len(Append(mFrames \o X, x)) = Len(mFrames \o X) + 1
  BY <1>9
<1>11. Len(mFrames) <= Len(mFrames')
  BY <1>6, <1>7, <1>8, <1>10
<1>12. Len(mFrames') \in Nat /\ FrameLimit \in Nat
  BY <1>6, <1>7, <1>8, <1>10, CountAssumption
<1> QED BY <1>7, <1>11, <1>12

(* The hal thread brings no packet in hand. *)
LEMMA FlushOthers ==
    ASSUME Base, WakeInv, TaskKept, user' = user, dec'.reset_flag = dec.reset_flag,
           ~PutInReset /\ Resetting => mPackets' = mPackets
    PROVE  FlushInv'
<1>1. task'.curr_rdy = task.curr_rdy
  BY DEF TaskKept, Base, TypeInv, DecTasks
<1> QED BY <1>1 DEF WakeInv, FlushInv, Resetting

(* The hal thread, when it neither tells the parser nor moves a task. *)
LEMMA WakeHalPlain ==
    ASSUME Base, WakeInv, OutputTyped, FramePool(slots),
           HalTake \/ HalInfoChange \/ HalEos \/ HalHwDone \/ HalClear \/ HalPush \/ HalExit
    PROVE  WakeInv'
<1> USE DEF pools, lists, calls
<1>1. hal \in HalType /\ hal.pc \in {"check", "change", "eos", "hw", "clear", "push"}
  BY DEF Base, TypeInv, HalType, HalTake, HalInfoChange, HalEos, HalHwDone, HalClear,
         HalPush, HalExit
<1>2. UNCHANGED <<session, tasks, task, dec, mPackets, user>>
  BY DEF HalTake, HalInfoChange, HalEos, HalHwDone, HalClear, HalPush, HalExit
<1>3. \/ hal.pc \in {"clear", "push"} /\ hal'.pc \in {"push", "notify"} /\ hal'.info = hal.info
      \/ /\ hal.pc \in {"check", "change", "eos", "hw"}
         /\ hal'.pc \in {"change", "eos", "hw", "idle", "done", "exited"}
  <2>1. CASE HalTake
    BY <2>1 DEF HalTake
  <2>2. CASE HalInfoChange \/ HalEos \/ HalHwDone \/ HalExit
    BY <1>1, <2>2 DEF HalInfoChange, HalEos, HalHwDone, HalExit, HalGo, HalType
  <2>3. CASE HalClear \/ HalPush
    BY <1>1, <2>3 DEF HalClear, HalPush, HalGo, HalType
  <2> QED BY <2>1, <2>2, <2>3
<1>4. (HandleThere' => HandleThere) /\ (DoneThere' => DoneThere)
  BY <1>2, <1>3 DEF HandleThere, DoneThere
<1>5. Len(mFrames') <= FrameLimit => Len(mFrames) <= FrameLimit
  <2>1. CASE mFrames' = mFrames
    BY <2>1
  <2>2. CASE HalInfoChange \/ HalEos
    BY <2>2, FramesLonger DEF HalInfoChange, HalEos
  <2>3. CASE HalPush
    BY <2>3, FramesLonger DEF HalPush
  <2> QED BY <2>1, <2>2, <2>3 DEF HalTake, HalHwDone, HalClear, HalExit
<1>6. Tells({})
  BY <1>2, <1>4, <1>5, TellsNothing
<1>7. TaskKept
  BY <1>2 DEF TaskKept
<1> QED BY <1>2, <1>6, <1>7, WakeTells, FlushOthers DEF WakeInv

(* The hal thread moves a task, or answers a reset. *)
LEMMA WakeHalTask ==
    ASSUME Base, WakeInv, OutputTyped, FramePool(slots),
           HalSetIdle \/ HalTaskDone \/ HalReset
    PROVE  WakeInv'
<1> USE DEF pools, lists, calls
<1>1. hal \in HalType /\ dec \in Shared
  BY DEF Base, TypeInv, HalType
<1>2. UNCHANGED <<session, task, mPackets, user>>
  BY DEF HalSetIdle, HalTaskDone, HalReset
<1>3. /\ dec'.notify_flag = dec.notify_flag /\ dec'.status_flag = dec.status_flag
      /\ dec'.reset_flag = dec.reset_flag
  BY <1>1 DEF HalSetIdle, HalTaskDone, HalReset, Shared
<1>4. Looking => ~HandleThere' /\ (DoneThere' => DoneThere)
  <2>1. CASE HalSetIdle
    <3>1. hal.pc = "idle" /\ hal'.pc = "notify" /\ hal.pc \in Holding
      BY <1>1, <2>1 DEF HalSetIdle, HalGo, HalType, Holding
    <3>2. ProcDone' = ProcDone
      <4>1. tasks' = SetStatus(tasks, hal.hnd, "TASK_IDLE")
        BY <2>1 DEF HalSetIdle
      <4> QED BY <3>1, <4>1, DoneFacts DEF Base
    <3> QED BY <3>1, <3>2 DEF HandleThere, DoneThere, HasHnd, ProcDone
  <2>2. CASE HalTaskDone
    <3>1. hal.pc = "done" /\ hal'.pc = "clear" /\ hal'.info = hal.info
      BY <1>1, <2>2 DEF HalTaskDone, HalGo, HalType
    <3>2. IsDecode(hal'.info)
      BY <3>1 DEF Base, TodoInv
    <3> QED BY <3>1, <3>2 DEF HandleThere, DoneThere
  <2>3. CASE HalReset
    <3>1. task.pc = "sem_hal"
      BY <2>3 DEF HalReset, Base, ResetInv
    <3> QED BY <3>1 DEF Looking
  <2> QED BY <2>1, <2>2, <2>3
<1>5. Len(mFrames') <= FrameLimit => Len(mFrames) <= FrameLimit
  <2>1. CASE HalReset
    BY <2>1, FramesLonger DEF HalReset
  <2> QED BY <2>1 DEF HalSetIdle, HalTaskDone
<1>6. Tells({})
  BY <1>2, <1>3, <1>4, <1>5, TellsNothing
<1>7. TaskKept
  BY <1>2 DEF TaskKept
<1> QED BY <1>2, <1>3, <1>6, <1>7, WakeTells, FlushOthers DEF WakeInv

(* The hal thread tells the parser. *)
LEMMA WakeHalTells ==
    ASSUME Base, WakeInv, HalSleep \/ HalNotify
    PROVE  WakeInv'
<1> USE DEF pools, lists, calls
<1>1. UNCHANGED <<session, tasks, mPackets, mFrames, user>>
  BY DEF HalSleep, HalNotify
<1>2. PICK flag \in SUBSET Reset :
         /\ Notify(flag)
         /\ HandleThere' => HandleThere \/ "task_hnd" \in flag
         /\ DoneThere' => DoneThere \/ "prev_task" \in flag
  <2>1. /\ {"dec_all_done"} \in SUBSET Reset /\ {"task_hnd"} \in SUBSET Reset
        /\ {"task_hnd", "prev_task"} \in SUBSET Reset
    BY DEF Reset, WaitBits
  <2>2. CASE HalSleep
    <3>1. hal.pc = "check" /\ Notify({"dec_all_done"})
      BY <2>2 DEF HalSleep, HalIdle
    <3>2. (HandleThere' => HandleThere) /\ (DoneThere' => DoneThere)
      BY <1>1, <3>1 DEF HandleThere, DoneThere
    <3> QED BY <2>1, <3>1, <3>2
  <2>3. CASE HalNotify
    <3> DEFINE f == IF hal.info.valid /\ ~hal.info.change /\ ~FastMode
                    THEN {"task_hnd", "prev_task"} ELSE {"task_hnd"}
    <3>1. Notify(f) /\ f \in SUBSET Reset /\ "task_hnd" \in f
      BY <2>1, <2>3 DEF HalNotify
    <3>2. DoneThere' => DoneThere \/ "prev_task" \in f
      <4>1. CASE IsDecode(hal.info) /\ ~FastMode
        BY <4>1 DEF IsDecode
      <4>2. CASE FastMode
        <5>1. ~HasHnd(tasks, "TASK_PROC_DONE")
          BY <4>2 DEF Base, PrevInv, ProcDone, HasHnd
        <5> QED BY <1>1, <5>1 DEF DoneThere
      <4>3. CASE ~IsDecode(hal.info)
        BY <1>1, <4>3 DEF DoneThere
      <4> QED BY <4>1, <4>2, <4>3
    <3> QED BY <3>1, <3>2
  <2> QED BY <2>2, <2>3
<1>3. Tells(flag)
  BY <1>1, <1>2, NotifyWakes DEF Tells
<1>4. TaskKept /\ dec'.reset_flag = dec.reset_flag
  BY <1>2, NotifyWakes
<1> QED BY <1>1, <1>3, <1>4, WakeTells, FlushOthers DEF WakeInv

(* Every step of the hal thread. *)
LEMMA WakeHal ==
    ASSUME Base, WakeInv, OutputTyped, FramePool(slots), HalThread
    PROVE  WakeInv'
BY WakeHalPlain, WakeHalTask, WakeHalTells DEF HalThread

(* A call of the user that notifies the parser. *)
LEMMA WakeUserTells ==
    ASSUME Base, WakeInv, OutputTyped,
           PutPacket \/ GetFrame \/ GetNothing \/ NotifyReady \/ ResetNotify
    PROVE  WakeInv'
<1> USE DEF pools, lists, calls
<1>1. UNCHANGED <<session, tasks, hal>>
  BY DEF PutPacket, GetFrame, GetNothing, NotifyReady, ResetNotify
<1>2. HandleThere' = HandleThere /\ DoneThere' = DoneThere
  BY <1>1 DEF HandleThere, DoneThere
<1>3. PICK flag \in SUBSET Reset :
         /\ Notify(flag)
         /\ mPackets' = mPackets \/ "dec_pkt_in" \in flag
         /\ mFrames' = mFrames \/ "dis_que_full" \in flag
  <2>1. /\ {"dec_pkt_in"} \in SUBSET Reset /\ {"dis_que_full"} \in SUBSET Reset
        /\ {"info_change", "dec_pic_match"} \in SUBSET Reset /\ Reset \in SUBSET Reset
    BY DEF Reset, WaitBits
  <2>2. CASE PutPacket \/ GetNothing
    BY <2>1, <2>2 DEF PutPacket, GetNothing
  <2>3. CASE GetFrame
    BY <2>1, <2>3 DEF GetFrame
  <2>4. CASE NotifyReady \/ ResetNotify
    BY <2>1, <2>4 DEF NotifyReady, ResetNotify
  <2> QED BY <2>2, <2>3, <2>4
<1>4. /\ TaskKept /\ dec'.reset_flag = dec.reset_flag /\ Tells(flag)
  BY <1>1, <1>2, <1>3, NotifyWakes DEF Tells
<1>5. task'.curr_rdy = task.curr_rdy
  BY <1>4 DEF TaskKept, Base, TypeInv, DecTasks
<1>6. FlushInv'
  <2>1. CASE PutPacket
    BY <1>5, <2>1 DEF PutPacket, FlushInv, Resetting
  <2>2. CASE GetFrame \/ NotifyReady
    BY <2>2 DEF GetFrame, NotifyReady, FlushInv, Resetting
  <2>3. CASE GetNothing \/ ResetNotify
    BY <1>4, <1>5, <2>3 DEF GetNothing, ResetNotify, WakeInv, FlushInv, Resetting
  <2> QED BY <2>1, <2>2, <2>3
<1> QED BY <1>4, <1>6, WakeTells DEF WakeInv

(* A call of the user that does not. *)
LEMMA WakeUserPlain ==
    ASSUME Base, WakeInv, OutputTyped,
           \/ SetReady \/ ResetStart \/ ResetFlag \/ ResetUnlock \/ ResetWait \/ ResetFlush
    PROVE  WakeInv'
<1> USE DEF pools, lists, calls
<1>1. dec \in Shared
  BY DEF Base, TypeInv
<1>2. UNCHANGED <<session, tasks, task, hal>>
  BY DEF SetReady, ResetStart, ResetFlag, ResetUnlock, ResetWait, ResetFlush
<1>3. dec'.notify_flag = dec.notify_flag /\ dec'.status_flag = dec.status_flag
  BY <1>1 DEF SetReady, ResetStart, ResetFlag, ResetUnlock, ResetWait, ResetFlush, Shared
<1>4. HandleThere' = HandleThere /\ DoneThere' = DoneThere
  BY <1>2 DEF HandleThere, DoneThere
<1>5. mPackets' # <<>> => mPackets # <<>>
  BY DEF SetReady, ResetStart, ResetFlag, ResetUnlock, ResetWait, ResetFlush
<1>6. ~PutInReset /\ task.curr_rdy /\ Len(mFrames') <= FrameLimit => Len(mFrames) <= FrameLimit
  <2>1. CASE ResetFlush
    <3>1. user = "flush" /\ ~dec.reset_flag
      BY <2>1 DEF ResetFlush, Base, ResetInv
    <3> QED BY <3>1 DEF WakeInv, FlushInv, Resetting
  <2>2. CASE ~ResetFlush
    BY <2>2 DEF SetReady, ResetStart, ResetFlag, ResetUnlock, ResetWait
  <2> QED BY <2>1, <2>2
<1>7. Tells({})
  BY <1>2, <1>3, <1>4, <1>5, <1>6, TellsNothing
<1>8. FlushInv'
  <2>1. CASE SetReady
    BY <2>1 DEF SetReady, FlushInv, Resetting
  <2>2. CASE ResetStart
    BY <2>2 DEF ResetStart, FlushInv, Resetting
  <2>3. CASE ResetFlag
    BY <2>3 DEF ResetFlag, WakeInv, FlushInv, Resetting
  <2>4. CASE ResetUnlock
    <3>1. dec.reset_flag /\ dec'.reset_flag = dec.reset_flag
      BY <1>1, <2>4 DEF ResetUnlock, Base, ResetInv, Shared
    <3> QED BY <2>4, <3>1 DEF ResetUnlock, WakeInv, FlushInv, Resetting
  <2>5. CASE ResetWait
    <3>1. ~dec.reset_flag
      BY <2>5 DEF ResetWait, Base, ResetInv
    <3> QED BY <1>2, <2>5, <3>1 DEF ResetWait, WakeInv, FlushInv, Resetting
  <2>6. CASE ResetFlush
    BY <2>6 DEF ResetFlush, FlushInv, Resetting
  <2> QED BY <2>1, <2>2, <2>3, <2>4, <2>5, <2>6
<1> QED BY <1>7, <1>8, WakeTells DEF WakeInv

(* The end of the context. *)
LEMMA WakeClear ==
    ASSUME Base, WakeInv, ClearStart \/ ClearStopHal \/ ClearDone
    PROVE  WakeInv'
<1> USE DEF pools, lists, calls
<1>1. /\ UNCHANGED <<session, tasks, dec, mPackets, mFrames, user>> /\ TaskKept
  BY DEF ClearStart, ClearStopHal, ClearDone, TaskKept
<1>2. HandleThere' = HandleThere /\ DoneThere' = DoneThere
  <2>1. hal'.info = hal.info /\ (hal'.pc = hal.pc \/ (hal.pc = "wait" /\ hal'.pc = "check"))
    <3>1. hal \in HalType
      BY DEF Base, TypeInv, HalType
    <3>2. hal' = hal \/ (hal.pc = "wait" /\ hal' = [hal EXCEPT !.pc = "check"])
      BY DEF ClearStart, ClearStopHal, ClearDone, SignalHal
    <3>3. CASE hal' = [hal EXCEPT !.pc = "check"] /\ hal.pc = "wait"
      <4>1. hal'.info = hal.info /\ hal'.pc = "check"
        BY <3>1, <3>3 DEF HalType
      <4> QED BY <3>3, <4>1
    <3>4. CASE hal' = hal
      BY <3>4
    <3> QED BY <3>2, <3>3, <3>4
  <2> QED BY <1>1, <2>1 DEF HandleThere, DoneThere
<1>3. Tells({})
  BY <1>1, <1>2 DEF Tells
<1> QED BY <1>1, <1>3, WakeTells, FlushOthers DEF WakeInv

(* No step loses a wakeup. *)
LEMMA WakeStep ==
    ASSUME OrderedInv, WakeInv, [Next]_vars
    PROVE  WakeInv'
<1>1. Base /\ OutputTyped /\ FramePool(slots)
  BY DEF OrderedInv, HeldInv, IInv, OrderInv, SlotsInv, Shares
<1>2. CASE UNCHANGED vars
  <2>1. UNCHANGED <<session, tasks, task, hal, dec, mPackets, mFrames, user>>
    BY <1>2 DEF vars, pools, lists, calls
  <2> QED BY <2>1 DEF WakeInv, WaitsInv, ToldInv, SleepInv, FlushInv, Looking, HandleThere,
            DoneThere, Resetting, FastMode
<1>3. CASE Parser
  BY <1>1, <1>3, WakeParser
<1>4. CASE HalThread
  BY <1>1, <1>4, WakeHal
<1>5. CASE PutPacket \/ GetFrame \/ GetNothing \/ SetReady \/ NotifyReady
           \/ ResetStart \/ ResetSteps
  BY <1>1, <1>5, WakeUserTells, WakeUserPlain DEF ResetSteps
<1>6. CASE ClearStart \/ ClearStopHal \/ ClearDone
  BY <1>1, <1>6, WakeClear
<1> QED BY <1>2, <1>3, <1>4, <1>5, <1>6 DEF Next, Finished

(* The parser does not sleep over a handle, a task that is done, a packet, *)
(* or room among the frames: who makes one of them tells it.               *)
THEOREM WakeupsNotLost == Spec => []WakeupsKept
<1> DEFINE Inv == OrderedInv /\ WakeInv
<1>1. Init => Inv
  <2> SUFFICES ASSUME Init PROVE Inv
    OBVIOUS
  <2>1. OrderedInv
    BY BaseInit, PacketFirst, SlotsFirst, FrameFirst, OrderFirst
       DEF IInv, HeldInv, OrderedInv
  <2>2. task.wait = {} /\ task.pc = "check" /\ user = "idle"
    BY NewTaskFacts DEF Init, ParserPcs
  <2>3. WakeInv
    BY <2>2 DEF WakeInv, WaitsInv, ToldInv, SleepInv, FlushInv, Resetting
  <2> QED BY <2>1, <2>3
<1>2. Inv /\ [Next]_vars => Inv'
  BY OrderStep, WakeStep
<1>3. Inv => WakeupsKept
  <2> SUFFICES ASSUME Inv, task.pc = "wait" PROVE WakeupsKept
    BY DEF WakeupsKept
  <2>1. ToldInv /\ task.wait \cap dec.notify_flag = {} /\ Looking
    BY DEF WakeInv, SleepInv, Looking
  <2>2. "task_hnd" \in task.wait =>
            ~HasHnd(tasks, "TASK_IDLE") \/ hal.pc \in {"clear", "push", "notify"}
    BY <2>1 DEF ToldInv, HandleThere
  <2>3. "prev_task" \in task.wait =>
            ~HasHnd(tasks, "TASK_PROC_DONE") \/ hal.pc \in {"clear", "push", "notify"}
    BY <2>1 DEF ToldInv, DoneThere
  <2>4. "dec_pkt_in" \in task.wait => mPackets = <<>>
    BY <2>1 DEF ToldInv
  <2>5. "dis_que_full" \in task.wait => PutInReset \/ Len(mFrames) > FrameLimit
    <3>1. PICK S : mFrames \in Seq(S)
      BY DEF OrderedInv, OrderInv, OutputTyped
    <3>2. Len(mFrames) \in Nat /\ FrameLimit \in Nat
      BY <3>1, CountAssumption
    <3> QED BY <2>1, <3>2 DEF ToldInv
  <2> QED BY <2>2, <2>3, <2>4, <2>5 DEF WakeupsKept
<1> QED BY <1>1, <1>2, <1>3, PTL DEF Spec
===============================================================================
