------------------------------ MODULE DecVproc ------------------------------
(***************************************************************************)
(* Video post-processing in the decoder: mpp/vproc/mpp_dec_vproc.cpp and   *)
(* the parts of mpp/codec/mpp_dec.cpp and mpp/mpp.cpp around it.           *)
(*                                                                         *)
(*   parser -> hal thread -> vproc thread -> mFrames -> user               *)
(*                                                                         *)
(* Three threads compete for the buffers of one limited frame group, and   *)
(* the user gives them back.  The hal thread hands each decoded picture to *)
(* the vproc thread, which deinterlaces it, with the previous picture when *)
(* there is one, into buffers it takes itself.                             *)
(*                                                                         *)
(* Of parsing and decoding only what concerns buffers is here (MppDec has  *)
(* the rest): pictures are shown in the order they are decoded, the last   *)
(* one parsed is the codec's reference picture, and a parser that waits    *)
(* goes on as soon as what it waits for is there (BufferGroups has the     *)
(* callback that wakes it).                                                *)
(***************************************************************************)
EXTENDS HalTaskOps, FiniteSets

CONSTANTS
    BufferCount,    \* the most buffers a session limits mFrameGroup to
    HandleCount,    \* handles of dec_vproc_init (4)
    TaskCount,      \* decoding tasks in flight (2, or 3 in fast mode)
    Sessions,       \* what the user may do, see below
    None

ASSUME VprocAssumption ==
    /\ BufferCount \in Nat /\ None \notin 1 .. BufferCount
    /\ HandleCount \in Nat \ {0} /\ TaskCount \in Nat \ {0}

Buffers == 1 .. BufferCount

(* A session is the items of the stream, the first of them whose frame is  *)
(* in field mode, the buffers mFrameGroup is limited to, whether the       *)
(* decoder is in fast mode, whether the device deinterlaces four fields at *)
(* a time, whether the top field comes first, the number of calls of       *)
(* Mpp::reset, a bound, and whether a thread of its own fetches frames.    *)
(* Item n is a picture of presentation time 2n, the last one perhaps with  *)
(* an eos, an info change, or an empty packet with an eos.                 *)
Items == {"frame", "last", "change", "eos"}

ASSUME SessionsAssumption ==
    Sessions \subseteq [ stream : Seq(Items), first : Nat, limit : Nat,
                         fast : BOOLEAN, four : BOOLEAN, top : BOOLEAN,
                         resets : Nat, fetcher : BOOLEAN ]

(* An empty packet with an eos ends the stream. *)
ASSUME EosAssumption ==
    \A s \in Sessions : \A k \in DOMAIN s.stream :
        s.stream[k] = "eos" => k = Len(s.stream)

(* What comes out: the picture or signal, its buffer, its time. *)
Frames == [item : Items, buf : Buffers \cup {None}, pts : Nat]

ASSUME NoneAssumption == None \notin Frames

(* What keeps a buffer in use: the reference of mpp_buffer_get, which goes *)
(* with the frame, and the marks of the slot it is in.                     *)
Uses == {"frame", "codec", "display", "deinterlace"}

VARIABLES
    session,    \* the member of Sessions at work
    uses,       \* what uses each buffer
    parser,     \* the parser thread: where it is, the next item
    tasks,      \* decoding tasks the hal thread has not processed
    hal,        \* the hal thread: where it is, its task
    vtasks,     \* vproc_tasks
    deint,      \* QUEUE_DEINTERLACE
    vproc,      \* the vproc thread: see Init
    reset,      \* what the threads share to reset
    mFrames,    \* frames not fetched yet
    user,       \* the calls in progress: a reset, a frame fetched
    puts,       \* history: frames put to mFrames
    cuts        \* history: the items a reset came before

halVars   == <<tasks, hal>>
vprocVars == <<vtasks, deint, vproc>>
outVars   == <<mFrames, puts>>
vars == <<session, uses, parser, halVars, vprocVars, reset, outVars, user, cuts>>

stream == session.stream

IsPicture(item) == item \in {"frame", "last"}

NoTask == [item |-> "none", buf |-> None, n |-> 0]

Init ==
    /\ session \in Sessions
    /\ uses = [b \in Buffers |-> {}]
    /\ parser = [pc |-> "look", next |-> 1]
    /\ tasks = <<>> /\ hal = [pc |-> "idle", task |-> NoTask]
    /\ vtasks = GroupInit(HandleCount, NoTask)
    /\ deint = <<>>
    /\ vproc = [pc |-> "none", hnd |-> None, prev |-> NoTask,
                dst |-> <<>>, outs |-> <<>>]
    /\ reset = [flag |-> FALSE, post |-> FALSE, hal_done |-> FALSE,
                vproc |-> FALSE, vproc_done |-> FALSE, done |-> FALSE]
    /\ mFrames = <<>> /\ puts = <<>>
    /\ user = [call |-> "idle", resets |-> 0, held |-> None]
    /\ cuts = {}

-----------------------------------------------------------------------------
(* Buffers. *)

Unused == {b \in Buffers : b <= session.limit /\ uses[b] = {}}

(* mpp_buffer_get; unused buffers are alike, so that one stands for any.   *)
NextUnused == CHOOSE b \in Unused : TRUE

Mark(u, b, use)   == [u EXCEPT ![b] = @ \cup {use}]
Unmark(u, b, use) == IF b = None THEN u ELSE [u EXCEPT ![b] = @ \ {use}]

(* The codec gives up its reference picture. *)
DropReference(u) == [b \in Buffers |-> u[b] \ {"codec"}]

-----------------------------------------------------------------------------
(* The parser thread. *)

Item == stream[parser.next]
AtEnd == parser.next > Len(stream)

(* Without fast mode every packet but an empty one with an eos waits until *)
(* the hal thread is done with the picture before.                         *)
PrevTaskDone ==
    \/ session.fast \/ Item = "eos"
    \/ \A i \in DOMAIN tasks : ~IsPicture(tasks[i].item)

(* There is an item and room for its task.  A reset drops the packets that *)
(* wait, and the user puts none until it returns.                          *)
MayParse == /\ ~AtEnd /\ user.call = "idle"
            /\ Len(tasks) < TaskCount /\ PrevTaskDone

SendTask(task) ==
    /\ tasks' = Append(tasks, task)
    /\ parser' = [pc |-> IF task.item = "change" THEN "ack" ELSE "look",
                  next |-> parser.next + 1]

(* Mutant: nothing is reserved for the vproc thread. *)
Reserve_One == 1

(* The buffers the parser wants unused: two are for the vproc thread. *)
Reserve == IF vproc.pc = "none" THEN 1 ELSE 3

(* try_proc_dec_task, 10.1: look for an unused buffer. *)
ParserLook ==
    /\ parser.pc = "look" /\ MayParse
    /\ IsPicture(Item) /\ Cardinality(Unused) >= Reserve
    /\ parser' = [parser EXCEPT !.pc = "get"]
    /\ UNCHANGED <<session, uses, halVars, vprocVars, reset, outVars, user, cuts>>

(* 11: get one, and give the task to the hal thread; another thread may    *)
(* have been faster, and then look again.                                  *)
ParserGet ==
    /\ parser.pc = "get"
    /\ \/ /\ Unused # {}
          /\ uses' = [DropReference(uses) EXCEPT
                         ![NextUnused] = {"frame", "codec", "display"}]
          /\ SendTask([item |-> Item, buf |-> NextUnused, n |-> parser.next])
       \/ /\ Unused = {}
          /\ parser' = [parser EXCEPT !.pc = "look"]
          /\ UNCHANGED <<uses, tasks>>
    /\ UNCHANGED <<session, hal, vprocVars, reset, outVars, user, cuts>>

(* A task without a picture: the codec gives up its reference picture. *)
ParserSignal ==
    /\ parser.pc = "look" /\ MayParse
    /\ ~IsPicture(Item)
    /\ SendTask([item |-> Item, buf |-> None, n |-> parser.next])
    /\ uses' = DropReference(uses)
    /\ UNCHANGED <<session, hal, vprocVars, reset, outVars, user, cuts>>

(* reset_parser_thread: the hal thread finishes its tasks ... *)
ParserReset ==
    /\ parser.pc \in {"look", "ack"} /\ reset.flag
    /\ reset' = [reset EXCEPT !.post = TRUE]
    /\ parser' = [parser EXCEPT !.pc = "sem_hal"]
    /\ UNCHANGED <<session, uses, halVars, vprocVars, outVars, user, cuts>>

(* ... the codec is reset, and dec_vproc_reset asks the vproc thread. *)
ParserResetVproc ==
    /\ parser.pc = "sem_hal" /\ reset.hal_done
    /\ uses' = DropReference(uses)
    /\ reset' = [reset EXCEPT !.hal_done = FALSE, !.vproc = vproc.pc # "none",
                              !.vproc_done = vproc.pc = "none"]
    /\ vproc' = IF vproc.pc = "wait" THEN [vproc EXCEPT !.pc = "check"] ELSE vproc
    /\ parser' = [parser EXCEPT !.pc = "sem_vproc"]
    /\ UNCHANGED <<session, halVars, vtasks, deint, outVars, user, cuts>>

ParserResetDone ==
    /\ parser.pc = "sem_vproc" /\ reset.vproc_done
    /\ reset' = [reset EXCEPT !.vproc_done = FALSE, !.flag = FALSE, !.done = TRUE]
    /\ parser' = [parser EXCEPT !.pc = "look"]
    /\ cuts' = cuts \cup {parser.next}
    /\ UNCHANGED <<session, uses, halVars, vprocVars, outVars, user>>

-----------------------------------------------------------------------------
(* The hal thread, with mpp_dec_put_frame. *)

(* A task to process: a picture's handle is given back before the picture  *)
(* is shown.                                                               *)
HalTake ==
    /\ hal.pc = "idle" /\ tasks # <<>>
    /\ hal' = [pc |-> "put", task |-> Head(tasks)]
    /\ tasks' = IF IsPicture(Head(tasks).item) THEN Tail(tasks) ELSE tasks
    /\ UNCHANGED <<session, uses, parser, vprocVars, reset, outVars, user, cuts>>

(* The first frame in field mode needs the vproc thread: the frame of a    *)
(* picture, or of an info change, which is that of the picture after it.   *)
(* An eos without a picture has no frame.                                  *)
NeedsVproc == hal.task.item # "eos" /\ hal.task.n >= session.first

(* mpp_dec_put_frame starts the thread, after the parser may have taken    *)
(* the handle of HalTake and looked for a buffer.                          *)
HalStart ==
    /\ hal.pc = "put" /\ vproc.pc = "none" /\ NeedsVproc
    /\ vproc' = [vproc EXCEPT !.pc = "check"]
    /\ UNCHANGED <<session, uses, parser, halVars, vtasks, deint, reset, outVars,
                   user, cuts>>

(* hal_task_hnd_set_info, hal_task_hnd_set_status *)
GiveTask ==
    LET hnd == GetHnd(vtasks, "TASK_IDLE")
    IN  vtasks' = SetStatus(SetInfo(vtasks, hnd, hal.task), hnd, "TASK_PROCESSING")

(* A picture or an info change: the thread polls for an idle handle. *)
HalPut ==
    /\ hal.pc = "put" /\ vproc.pc # "none" /\ hal.task.item # "eos"
    /\ HasHnd(vtasks, "TASK_IDLE")
    /\ GiveTask
    /\ IF IsPicture(hal.task.item)
       THEN /\ uses' = Mark(uses, hal.task.buf, "deinterlace")
            /\ deint' = Append(deint, hal.task.buf)
       ELSE UNCHANGED <<uses, deint>>
    /\ hal' = [hal EXCEPT !.pc = "signal"]
    /\ UNCHANGED <<session, parser, tasks, vproc, reset, outVars, user, cuts>>

(* An eos without a picture does not poll: without an idle handle the eos  *)
(* is lost, after an assertion.                                            *)
HalPutEos ==
    /\ hal.pc = "put" /\ vproc.pc # "none" /\ hal.task.item = "eos"
    /\ IF HasHnd(vtasks, "TASK_IDLE") THEN GiveTask ELSE UNCHANGED vtasks
    /\ hal' = [hal EXCEPT !.pc = "signal"]
    /\ UNCHANGED <<session, uses, parser, tasks, deint, vproc, reset, outVars,
                   user, cuts>>

FrameOut(task, buf, pts) == [item |-> task.item, buf |-> buf, pts |-> pts]

(* list->add_at_tail, under the lock of mFrames *)
Output(frame) ==
    /\ mFrames' = Append(mFrames, frame)
    /\ puts' = Append(puts, frame)

(* Without the vproc thread the frame goes to mFrames. *)
HalPutDirect ==
    /\ hal.pc = "put" /\ vproc.pc = "none" /\ ~NeedsVproc
    /\ Output(FrameOut(hal.task, hal.task.buf, 2 * hal.task.n))
    /\ hal' = [hal EXCEPT !.pc = "shown"]
    /\ UNCHANGED <<session, uses, parser, tasks, vprocVars, reset, user, cuts>>

(* dec_vproc_signal, under the lock the vproc thread sleeps with. *)
HalSignal ==
    /\ hal.pc = "signal"
    /\ vproc' = IF vproc.pc = "wait" THEN [vproc EXCEPT !.pc = "check"] ELSE vproc
    /\ hal' = [hal EXCEPT !.pc = "shown"]
    /\ UNCHANGED <<session, uses, parser, tasks, vtasks, deint, reset, outVars,
                   user, cuts>>

(* The slot leaves the display; a task without a picture is over. *)
HalShown ==
    /\ hal.pc = "shown"
    /\ uses' = Unmark(uses, hal.task.buf, "display")
    /\ tasks' = IF IsPicture(hal.task.item) THEN tasks ELSE Tail(tasks)
    /\ hal' = [pc |-> "idle", task |-> NoTask]
    /\ UNCHANGED <<session, parser, vprocVars, reset, outVars, user, cuts>>

(* reset_hal_thread, once no task is left; nothing waits to be shown. *)
HalReset ==
    /\ hal.pc = "idle" /\ tasks = <<>> /\ reset.post
    /\ reset' = [reset EXCEPT !.post = FALSE, !.hal_done = TRUE]
    /\ UNCHANGED <<session, uses, parser, halVars, vprocVars, outVars, user, cuts>>

-----------------------------------------------------------------------------
(* The vproc thread. *)

VTask == vtasks.info[vproc.hnd]

(* Mutant: only the mark of the slot is cleared. *)
ClrPrev_KeepRef(u) == Unmark(u, vproc.prev.buf, "deinterlace")

(* dec_vproc_clr_prev: the frame's reference, and the mark of its slot. *)
ClrPrev(u) ==
    Unmark(Unmark(u, vproc.prev.buf, "frame"), vproc.prev.buf, "deinterlace")

VprocTake ==
    /\ vproc.pc = "check" /\ HasHnd(vtasks, "TASK_PROCESSING")
    /\ vproc' = [vproc EXCEPT !.pc = "task",
                              !.hnd = GetHnd(vtasks, "TASK_PROCESSING")]
    /\ UNCHANGED <<session, uses, parser, halVars, vtasks, deint, reset, outVars,
                   user, cuts>>

(* All tasks are processed before a reset. *)
VprocReset ==
    /\ vproc.pc = "check" /\ ~HasHnd(vtasks, "TASK_PROCESSING") /\ reset.vproc
    /\ uses' = ClrPrev(uses)
    /\ vproc' = [vproc EXCEPT !.prev = NoTask]
    /\ reset' = [reset EXCEPT !.vproc = FALSE, !.vproc_done = TRUE]
    /\ UNCHANGED <<session, parser, halVars, vtasks, deint, outVars, user, cuts>>

VprocWait ==
    /\ vproc.pc = "check" /\ ~HasHnd(vtasks, "TASK_PROCESSING") /\ ~reset.vproc
    /\ vproc' = [vproc EXCEPT !.pc = "wait"]
    /\ UNCHANGED <<session, uses, parser, halVars, vtasks, deint, reset, outVars,
                   user, cuts>>

(* An info change, or an eos without a picture: an empty frame. *)
VprocSignal ==
    /\ vproc.pc = "task" /\ ~IsPicture(VTask.item)
    /\ Output(FrameOut(VTask, None, 2 * VTask.n))
    /\ vproc' = [vproc EXCEPT !.pc = "finish"]
    /\ UNCHANGED <<session, uses, parser, halVars, vtasks, deint, reset, user, cuts>>

(* Mutant: during a reset the slot stays in the queue. *)
VprocPicture_KeepQueued ==
    /\ vproc.pc = "task" /\ IsPicture(VTask.item)
    /\ deint' = IF reset.flag THEN deint ELSE Tail(deint)
    /\ vproc' = [vproc EXCEPT !.pc = IF reset.flag THEN "finish" ELSE "dst"]
    /\ UNCHANGED <<session, uses, parser, halVars, vtasks, reset, outVars, user, cuts>>

(* A picture: it is not deinterlaced any more when a reset has started. *)
VprocPicture ==
    /\ vproc.pc = "task" /\ IsPicture(VTask.item)
    /\ deint' = Tail(deint)
    /\ vproc' = [vproc EXCEPT !.pc = IF reset.flag THEN "finish" ELSE "dst"]
    /\ UNCHANGED <<session, uses, parser, halVars, vtasks, reset, outVars, user, cuts>>

(* Two frames out of the previous and this picture, or one of this. *)
TwoOut == session.four /\ vproc.prev # NoTask

Outputs(dst) ==
    LET first == (2 * vproc.prev.n + 2 * VTask.n) \div 2
        curr  == 2 * VTask.n
    IN  IF ~TwoOut THEN <<FrameOut(VTask, dst[1], curr)>>
        ELSE IF session.top
             THEN <<FrameOut(VTask, dst[1], first), FrameOut(VTask, dst[2], curr)>>
             ELSE <<FrameOut(VTask, dst[2], first), FrameOut(VTask, dst[1], curr)>>

(* dec_vproc_get_buffer polls until a buffer is unused; with the last one  *)
(* the hardware runs.                                                      *)
VprocGetBuffer ==
    /\ vproc.pc = "dst" /\ Unused # {}
    /\ uses' = Mark(uses, NextUnused, "frame")
    /\ LET dst == Append(vproc.dst, NextUnused)
       IN  vproc' = IF Len(dst) = (IF TwoOut THEN 2 ELSE 1)
                    THEN [vproc EXCEPT !.pc = "out", !.dst = <<>>,
                                       !.outs = Outputs(dst)]
                    ELSE [vproc EXCEPT !.dst = dst]
    /\ UNCHANGED <<session, parser, halVars, vtasks, deint, reset, outVars, user, cuts>>

(* dec_vproc_put_frame *)
VprocPut ==
    /\ vproc.pc = "out"
    /\ Output(Head(vproc.outs))
    /\ vproc' = [vproc EXCEPT !.outs = Tail(@),
                              !.pc = IF Len(vproc.outs) = 1 THEN "finish" ELSE "out"]
    /\ UNCHANGED <<session, uses, parser, halVars, vtasks, deint, reset, user, cuts>>

(* Mutant: an info change does not clear the previous picture. *)
Kept_AcrossSignals ==
    CASE VTask.item = "frame" -> VTask
      [] VTask.item = "last" -> NoTask
      [] OTHER -> vproc.prev

(* What is kept for the next task: a picture that did not end the stream. *)
Kept == IF VTask.item = "frame" THEN VTask ELSE NoTask

(* The picture before is given back, and this one too unless it is kept. *)
VprocFinish ==
    /\ vproc.pc = "finish"
    /\ uses' = IF VTask.item = "last"
               THEN Unmark(Unmark(ClrPrev(uses), VTask.buf, "frame"),
                           VTask.buf, "deinterlace")
               ELSE ClrPrev(uses)
    /\ vtasks' = SetStatus(vtasks, vproc.hnd, "TASK_IDLE")
    /\ vproc' = [vproc EXCEPT !.pc = "check", !.hnd = None, !.prev = Kept]
    /\ UNCHANGED <<session, parser, halVars, deint, reset, outVars, user, cuts>>

-----------------------------------------------------------------------------
(* The user. *)

(* Mpp::get_frame *)
GetFrame ==
    /\ user.held = None /\ mFrames # <<>>
    /\ user.call = "reset" => session.fetcher
    /\ user' = [user EXCEPT !.held = Head(mFrames)]
    /\ mFrames' = Tail(mFrames)
    /\ UNCHANGED <<session, uses, parser, halVars, vprocVars, reset, puts, cuts>>

(* mpp_frame_deinit gives the buffer back; an info change is acknowledged. *)
PutFrame ==
    /\ user.held # None
    /\ user.call = "reset" => session.fetcher
    /\ uses' = Unmark(uses, user.held.buf, "frame")
    /\ parser' = IF user.held.item = "change" /\ parser.pc = "ack"
                 THEN [parser EXCEPT !.pc = "look"] ELSE parser
    /\ user' = [user EXCEPT !.held = None]
    /\ UNCHANGED <<session, halVars, vprocVars, reset, outVars, cuts>>

(* Mpp::reset, mpp_dec_reset: ask the parser ... *)
ResetStart ==
    /\ user.call = "idle" /\ user.resets < session.resets
    /\ user.held # None => session.fetcher
    /\ user' = [user EXCEPT !.call = "reset", !.resets = @ + 1]
    /\ reset' = [reset EXCEPT !.flag = TRUE]
    /\ UNCHANGED <<session, uses, parser, halVars, vprocVars, outVars, cuts>>

(* ... wait for it, and flush mFrames, whose frames give back their        *)
(* buffers.                                                                *)
ResetReturn ==
    /\ user.call = "reset" /\ reset.done
    /\ reset' = [reset EXCEPT !.done = FALSE]
    /\ user' = [user EXCEPT !.call = "idle"]
    /\ uses' = [b \in Buffers |-> IF \E k \in DOMAIN mFrames : mFrames[k].buf = b
                                  THEN uses[b] \ {"frame"} ELSE uses[b]]
    /\ mFrames' = <<>>
    /\ UNCHANGED <<session, parser, halVars, vprocVars, puts, cuts>>

-----------------------------------------------------------------------------

Parser == \/ ParserLook \/ ParserGet \/ ParserSignal
          \/ ParserReset \/ ParserResetVproc \/ ParserResetDone
Hal    == \/ HalTake \/ HalStart \/ HalPut \/ HalPutEos \/ HalPutDirect
          \/ HalSignal \/ HalShown \/ HalReset
Vproc  == \/ VprocTake \/ VprocReset \/ VprocWait \/ VprocSignal \/ VprocPicture
          \/ VprocGetBuffer \/ VprocPut \/ VprocFinish
Next   == Parser \/ Hal \/ Vproc \/ GetFrame \/ PutFrame \/ ResetStart \/ ResetReturn

(* The threads run; the user fetches frames and gives them back; nobody    *)
(* has to reset.                                                           *)
Fairness ==
    /\ WF_vars(Parser) /\ WF_vars(Hal) /\ WF_vars(Vproc)
    /\ WF_vars(GetFrame) /\ WF_vars(PutFrame) /\ WF_vars(ResetReturn)

Spec == Init /\ [][Next]_vars /\ Fairness

-----------------------------------------------------------------------------
(* Properties. *)

(* mFrames receives frames in presentation order, across the two buffers   *)
(* of a field pair, info changes and resets.  A frame between two pictures *)
(* is made of two that follow each other in the stream, with no info       *)
(* change and no reset between them, whatever the threads did meanwhile    *)
(* (dec_vproc_clr_prev at each of those); every other frame is one         *)
(* picture, or one signal, of the stream.                                  *)
Adjacent(k) ==
    /\ k > 1 /\ k \notin cuts
    /\ stream[k - 1] = "frame" /\ IsPicture(stream[k])

FieldsInOrder ==
    /\ \A i, j \in DOMAIN puts : i < j => puts[i].pts < puts[j].pts
    /\ \A i \in DOMAIN puts :
          LET k == (puts[i].pts + 1) \div 2
          IN  IF puts[i].pts % 2 = 1 THEN Adjacent(k) ELSE stream[k] = puts[i].item

(* The references of mpp_buffer_get are held, one each, by whoever the     *)
(* frame has come to: none is put twice, and none is lost, by a reset, an  *)
(* info change or an eos between any two steps.                            *)
InHandles == [i \in DOMAIN vtasks.list["TASK_PROCESSING"] |->
                 vtasks.info[vtasks.list["TASK_PROCESSING"][i]]]

BufsOf(s) == [i \in DOMAIN s |-> s[i].buf]

Holders ==
    [ tasks   |-> BufsOf(tasks),
      hal     |-> IF hal.pc = "put" THEN <<hal.task.buf>> ELSE <<>>,
      handles |-> BufsOf(InHandles),
      prev    |-> <<vproc.prev.buf>>,
      dst     |-> vproc.dst,
      outs    |-> BufsOf(vproc.outs),
      frames  |-> BufsOf(mFrames),
      user    |-> IF user.held # None THEN <<user.held.buf>> ELSE <<>> ]

ReferencesTo(b) ==
    UNION {{<<p, i>> : i \in {k \in DOMAIN Holders[p] : Holders[p][k] = b}} :
           p \in DOMAIN Holders}

HeldOnce ==
    \A b \in Buffers :
        Cardinality(ReferencesTo(b)) = IF "frame" \in uses[b] THEN 1 ELSE 0

(* The slot the vproc thread takes from QUEUE_DEINTERLACE is the slot of   *)
(* its task (mpp_assert(tmp == index), mpp_dec_vproc.cpp:257), although    *)
(* the two come through different queues and locks.                        *)
SlotOfTask ==
    vproc.pc = "task" /\ IsPicture(VTask.item)
        => deint # <<>> /\ Head(deint) = VTask.buf

(* Nothing is left behind: the stream is parsed, no reset waits, every     *)
(* frame was fetched, and no buffer is in use except by the picture the    *)
(* vproc thread and the codec keep.                                        *)
Quiet ==
    /\ AtEnd /\ parser.pc = "look" /\ user.call = "idle" /\ user.held = None
    /\ tasks = <<>> /\ mFrames = <<>> /\ vproc.pc \in {"none", "wait"}
    /\ \A b \in Buffers : "display" \notin uses[b]
    /\ Cardinality({b \in Buffers : uses[b] # {}}) <= 1

(* Two buffers in reserve are enough, in fast mode with one buffer more    *)
(* for the picture parsed before the reserve counts: with the parser, the  *)
(* vproc thread and the user sharing a group of few buffers, nobody        *)
(* starves, every reset returns, and all ends quiet.                       *)
Settles == <>[]Quiet
=============================================================================
