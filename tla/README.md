# A verification project for MPP

MPP is the media process platform of Rockchip: a user-space library between an
application and the video hardware. An application puts packets or frames into
a context; threads of the context parse or configure, feed the hardware, wait
for it and hand the results back. This directory holds TLA+ models of the parts
of that library where threads meet, configurations that check the models with
TLC on small instances, and theorems about them that TLAPS has proved for every
instance.

Paths are relative to the repository (`src/` here); line numbers refer to the
commit the models were written from. `PROJECT.json` maps every definition to
its lines.

## 1. The system

| part | code | state | operations |
|------|------|-------|------------|
| user interface | `mpp/mpi.cpp`, `mpp/mpp.cpp` | ports, timeouts, lists of packets and frames, the task `put_frame` holds | `put_packet`, `get_frame`, `put_frame`, `get_packet`, `poll`, `dequeue`, `enqueue`, `reset`, `control`, `clear` |
| task queue | `mpp/base/mpp_task_impl.cpp` | tasks in four statuses, a condition for each of the two queued ones | `poll`, `dequeue`, `enqueue`, `awake`, setup, deinit |
| decoder | `mpp/codec/mpp_dec.cpp` | two threads, their wait and notify words, reset flag and semaphores, the task in preparation | parser thread, hal thread, `notify`, `reset`, `stop` |
| hal task group | `mpp/hal/hal_task.cpp` | task handles in lists by status | `get_hnd`, `set_status`, `check_empty`, `set_info`, `get_info` |
| buffer slots | `mpp/base/mpp_buf_slot.cpp` | per slot: flags, counters, frame, buffer; display queues; geometry and info change | `get_unused`, `set_flag`, `clr_flag`, `enqueue`, `dequeue`, `set_prop`, `ready`, `reset` |
| encoder | `mpp/codec/mpp_enc.cpp`, `mpp_enc_v2.cpp` | one thread, its wait and notify words, reset flag and semaphore; in v2 the command in hand and its counters | control thread, `notify`, `reset`, `control`, `stop` |
| buffer groups | `mpp/base/mpp_buffer.cpp`, `mpp_buffer_impl.cpp` | groups, used and unused lists, counts and limits, references, discarded buffers, orphan groups, the callback to the decoder | `get`, `put`, `inc_ref`, `commit`, group `get`, `put`, `clear`, `limit_config`, `unused` |
| post-processing | `mpp/vproc/mpp_dec_vproc.cpp` | one thread, its task group, the previous frames | thread, `signal`, `reset`, `stop` |
| codec parsers | `mpp/codec/dec/*` | headers, dpb | `prepare`, `parse`, `reset`, `flush`, `callback` |
| register generation | `mpp/hal/{rkdec,rkenc,vpu,rvpu}` | register files | `reg_gen`, `start`, `wait` |
| rate control | `mpp/codec/mpp_rc.cpp` | bit counters, PID controllers | `bits_allocation`, `update_hw_result` |
| OSAL | `osal/*` | threads, lists, allocators | wrappers of POSIX and of kernel drivers |
| legacy API | `mpp/legacy/*` | an `MppApi` behind the old interface | adapters |

How they interact. An encoder context is two task queues with the encoder thread
between them; the user works the other ends. A decoder context has a list of
packets in front, a list of frames behind, and between them the parser thread
and the hal thread, which pass hal task handles to each other. Both threads, the
codec parser and the post-processing thread call into the frame slots, each call
under the lock of the slot pool and nothing else. Threads sleep on the condition
of their own `MppThread`; whoever produces something calls `mpp_dec_notify` or
`mpp_enc_notify` with an event bit, which is kept in a notify word for the next
time the thread looks.

What is hard:

* slots have several independent users (output, references, codec, queues) that
  leave in any order, in two threads; the last one must recycle the slot;
* counters are kept beside the state they count (`used_count`, list counts,
  `hal_use`);
* a thread looks for work under one lock and goes to sleep under another, so
  that a notification can fall in between;
* reset, stop and clear come at any moment and have to find, or bring back, all
  tasks, slots, packets and frames;
* waits are bounded by a timeout or end without the awaited thing, and the call
  fails with half of its work done.

What makes each part correct:

* *slots*: a slot is in use exactly as long as somebody has a claim on it, the
  counters agree with the bits, a frame is not replaced under a reader, and
  pictures leave in the order the codec enqueued them;
* *task queue*: the list and the status of a task agree, a held task has one
  holder, a signal is not lost, tasks circulate in order;
* *encoder*: packets in the order of the frames, none lost; no sleep over work;
  no frame freed under the hardware; reset and clear return;
* *decoder*: every decodable packet becomes one picture, in order, with its
  geometry announced before it; the hardware reads decoded references in slots
  that nobody has recycled; a reset finds both threads at rest and leaves no slot
  or handle behind; decoding goes on after it;
* *buffer groups*: lists and counters agree, a held buffer and its group survive
  whatever the user does to the group, a limit is kept although a get is two critical
  sections, a cleared buffer is not used again, and the decoder does not sleep over a
  buffer it could have;
* *post-processing*: fields in order and made of neighbours only, every buffer
  reference held once, and the reserve of two buffers is enough for all to go on;
* *parsers*: the dpb shows each picture once, in output order, and what was decoded
  from missing or damaged references carries the error mark; *rate control*: targets
  stay in range whatever the statistics.

## 2. The modules

| module | models | state and actions |
|--------|--------|-------------------|
| `BufSlotOps` | `mpp_buf_slot.cpp` | each entry point (all run under the pool's lock) is an operator from a pool to a pool; a one-bit field is the set of slots that have it |
| `BufSlots` | the parser and hal threads on a frame slot pool | one action per call into the pool; the codec is left open: any dpb, any display order; info change and acknowledgement; end of stream |
| `TaskQueueOps` | `mpp_task_impl.cpp` | setup, poll's test, dequeue and enqueue as operators on a queue |
| `TaskRing` | the promise of `mpp_task_impl.h` | abstract: tasks go round, in order, each in one place, and neither side keeps one for ever |
| `TaskQueue` | threads in the loop poll, dequeue, enqueue | condition waits, timeouts, signals that wake one waiter; refines `TaskRing` |
| `MppEnc` | encoder threads v1 and v2, `put_frame`, `get_packet`, `control`, `reset`, `clear` | composes two queues of `TaskQueueOps`; wait and notify words, reset and command handshakes, draining at exit |
| `HalTaskOps` | `hal_task.cpp` | the lists of handles by status, as operators on a group |
| `MppDec` | parser and hal thread, `put_packet`, `get_frame`, `reset`, `clear` | composes two pools of `BufSlotOps` and a group of `HalTaskOps` |
| `BufGroupOps` | `mpp_buffer_impl.cpp` | each entry point of the buffer service (all run under its lock) is an operator from a service to a service |
| `BufferGroups` | `mpp_buffer.cpp`, the callback of a group, steps 10 and 11 of the parser thread | threads that get, share, commit and put buffers, a user who configures, clears and puts groups, a decoder that waits for buffers |
| `DecVproc` | `mpp_dec_vproc.cpp`, `mpp_dec_put_frame`, the waits of the parser for buffers | parser, hal and vproc thread with the user, around one limited group of buffers; composes `HalTaskOps` |
| `H265Dpb` | `h265d_refs.c` and its callers in `h265d_parser.c` | the dpb of one codec, fed with packets that may be lost or repeated, under hardware errors and resets |
| `MCMppEnc`, `MCMppDec`, `MCBufferGroups`, `MCDecVproc`, `MCH265Dpb` | | the modes, streams, sessions and limits TLC works on |
| `QueueLemmas`, `TaskQueue_proofs`, `BufferGroups_proofs`, `MppEnc_proofs`, `SlotLemmas`, `BufSlots_proofs`, `DecVproc_proofs`, `MppDec_proofs` | | lemmas and theorems, section 5 |

An operator whose name has a suffix and whose comment starts with "Mutant" is a
wrong variant of a definition. No specification uses it; it exists to see that a
property fails when the code is broken in that way.

### Task queue

A queue is a record of its two lists, the status of each task, and `asserted`,
which is set when the assert of `_mpp_port_enqueue` fails (`mpp_assert` logs and
goes on). The code links a task into the list of its status; the lists of the two
HOLD statuses are left out, because nobody reads them, and `HeldByOne` says who
holds the task instead. A client of `TaskQueue` polls (not at all, with a timeout
or without), waits on the condition of its port, polls again when it is woken or
times out, dequeues, and enqueues at the same port. An enqueue signals one waiter
of the other port, any of them. A signal does not hand over the task: a third
thread may take it first, and then the poll of the woken thread fails.

### Encoder

`mode.version` chooses the thread, as `Mpp::init` does. `enc` holds the program
counter of the encoder thread and its `EncTask`, `ctrl` what it shares through
`MppEncImpl`: the status of the thread, `status_flag` (what it waits for),
`notify_flag` (what has happened since it looked), `reset_flag`, the semaphore
`enc_reset` and whether the THREAD_CONTROL mutex is held. `cmd` is the command
`mpp_enc_control_v2` hands to the v2 thread, with its semaphore and the counters
`cmd_send` and `cmd_recv`. `put`, `get`, `ctl`, `rst` and `clr` are the user's
threads. One action is one critical section: a poll, a dequeue, an enqueue and a
notification are separate steps of each side, so that everything the other side
does may come between them. v1 gives the frame back before it takes a task for the
packet; v2 takes both tasks first. `crashed` is the state in which
`mpp_assert(task_in)` has failed and the NULL task is used.

### Decoder

`try_proc_dec_task` is a sequence of stages. Each looks at a flag of `DecTask` that
says whether it is passed already; if not, and its need is not met, it sets its
wait bit and returns to the loop. `task.pc` names the stages (`pkt`, `copy`, `prev`,
`display`, `slot`, `parse`, `change`) and each is one action, or one per outcome;
`check` is `check_task_wait`, `wait` the condition, `sem_hal` and `post` the two
halves of `reset_parser_thread`. A notification stays in `notify_flag` until the
parser looks again, as in the code. `hal.pc` names the stages of the hal thread in
the order of the code: hardware done, handle back, slots cleared, display queue
drained, parser notified. The hal thread sleeps under the lock that guards its
condition and looks at its list under the same lock, so it needs no flags.

Some calls in a row are one step: the calls of `h263d_parse` on the slots
(`Parsed`), the clearing of the references of a task, and the loop that drains the
display queue (`Drained`). `BufSlots` is the model in which these interleave call by
call, for any codec; `MppDec` is about the order of stages, wait bits and
handshakes. `ParserDrop` is one step as well; `ResetQuiesced` states that nobody
else works on the slots then.

A packet is a number, its kind (`I`, `P`, unreadable, or empty and only ending the
stream), the geometry of its picture and its eos flag. The codec is reduced to the
slot of its reference and `found_i_vop`. Frame buffers are always there: waiting for
them is the subject of `BufferGroups` and `DecVproc`. The wait for all tasks, of vp9,
is left out.

### Buffer groups

A service is a record of all groups and all buffers. `state` of a group says in
which list of the service it is, or that it was destroyed, properly or against the
assert of `destroy_group` (`misfreed`). `list_used` and `list_unused` are sets,
because their order only decides which of several fitting buffers is found first.
The three counters of a group are kept beside the lists, exactly where the code
changes them. `usage`, the sum of the sizes, is only compared with zero and changes
together with `buffer_count`, which stands for it.

`BufferGroups` splits a call where the code drops the lock: `mpp_buffer_get` is
`GetSearch` (all buffers that are too small are given up on the way, or any number
of them when one that fits is found) and `GetCreate`. The decoder looks at the
unused count without the lock, and sleeps when a look or a get fails; every put of a
last reference, commit and creation calls back into it (`Notified`). What is asked
of the user is written at `Quiet` and `GroupPut`: a group is put once and by its
owner; the group of the decoder is cleared and configured at an info change, as
`mpi_dec_test.c` does, and put after the decoder is gone.

### Post-processing

The hal thread puts frames to `mFrames` itself (`HalPutDirect`) until the first one in
field mode, a picture's or that of an info change, makes it start the vproc thread
(`HalStart`); from then on it hands over tasks in `vtasks` and slots in
QUEUE_DEINTERLACE (`deint`). `HalTake` gives the handle of a picture back before, as
`mpp_dec.cpp:996` does, and in fast mode the parser may take it in between and look for
a buffer while nothing is reserved yet; without fast mode it waits for the picture
before (`PrevTaskDone`). `vproc.pc` goes
through the loop of `dec_vproc_thread`: wait, take a task, get one or two buffers,
put them, finish. `uses` says what keeps a buffer in use, and `References` counts
the frames that own it. A reset goes from the user to the parser, from there to the
hal thread and then to the vproc thread, each step an action.

### H.265 dpb

`s` is `HEVCContext` with its `DPB`; `SliceHeader`, `RandomAccess`, `FrameRps`,
`OutputFrame` and `Flush` are operators on it, and `ParserNalUnit` is their
composition for one picture. A picture of a stream names the pictures it refers to by
their place in the stream; the model derives order counts, reference picture sets
and low bits from that as an encoder writes them, so that a lost packet shows in
the same way as in the code: a reference that is not in the buffer. `truth` is a
history: what was decoded, what is really spoilt, and what carries an error mark.

## 3. The runs

| run | question | instance |
|-----|----------|----------|
| `slots` | do claims, counters, bits and display order stay right in every interleaving of the calls of the two threads, and is every picture shown? | 3 slots, 2 handles, 1 reference, 3 pictures, 2 geometries |
| `queue` | do lists and statuses agree, is no signal lost, and does the queue implement `TaskRing`, fairness included? | 3 tasks, 3 threads on one port and 2 on the other |
| `enc_pipeline` | does every frame come out once, in order, not freed under the hardware, and can the context be cleared at any moment? | 2 tasks per queue, 3 frames, three modes: v1 blocking, v2 with empty tasks, v1 with empty tasks and timeouts |
| `enc_calls` | do resets and commands, at any point, return with their work done, without a lost wakeup? | 1 task per queue, 1 frame, 1 reset, 2 commands, v1 and v2 |
| `dec` | does every decodable packet become a picture, in order and announced; does a reset find the threads at rest and leave nothing behind; can both threads be joined? | 6 sessions (2 in fast mode), 2 handles, 4 slots; in two of them a reset and the end of the context at any point |
| `buffers` | do lists and counters agree, do held buffers survive, are limits kept, and does the decoder sleep only while nothing is there? | 2 groups, 3 buffers of 2 sizes, 2 references to a buffer, 1 limit |
| `vproc` | are fields in order and made of neighbours, is every reference held once, and does everything come to rest? | 7 sessions (2 in fast mode, with 5 buffers, the others with 4), 2 decoding tasks, 4 vproc handles, up to 2 resets |
| `h265` | are pictures shown in order, all of them after a flush, and is what depends on anything missing marked? | 3 streams of 7 to 11 pictures, 3 faults: 2 packets lost, packets repeated, hardware errors, 1 reset |
| `enc_lostwakeup`, `dec_slot_leak`, `group_destroyed`, `h265_stranded` | violations, section 4 | the smallest instance of each |

Why these bounds are enough to meet the cases. `slots`: with 3 pictures and 3 slots,
slots are reused while the hal thread still clears them, and the parser runs out of
slots. `queue`: three clients on a port are one that waits, one that is woken and one
that did not wait. `enc_pipeline`: two tasks per queue, where `mpp.cpp` sets up one,
let tasks of one queue be in different places; three frames go round once more than
there are tasks. `enc_calls`: two commands are one that is answered and one that is
sent before the thread has counted the first. `dec`: handles and slots are the counts
of the code, but the two limits, 4 packets and 4 frames, are lowered to 2 and 1, so
that a stream of 4 packets reaches both; `MCMppDec` says what each session is for.
`buffers`: with one limit of two buffers, an unlimited phase before it and a second
group, a group is at its limit, over it, or empty; two sizes let a buffer not fit;
two references let a put be the last or not. `vproc`: four buffers, five
in fast mode, are the fewest with which nobody starves (section 4), so that every buffer
is fought for; two tasks are what the parsers of MPEG-4 and H.263 ask for. `h265`: three faults are
one that spoils a picture, one that hits what depends on it, and one while the
decoder recovers; a lost picture, its repeated successor and a reset meet in one
behaviour. Two lost packets keep order counts within the range the low bits cover.

Symmetry is used in `buffers` and `group_destroyed` only, over the addresses of
buffers, which the specification treats alike; no liveness is checked there.

`CHECK_DEADLOCK FALSE` is in the configurations of systems that may stop: a v1
encoder that is given empty tasks may crash (section 4); a program that has put
its groups has nothing left to do; the streams of `DecVproc` and `H265Dpb` end.
Elsewhere a terminated system has a stuttering action of its own (`Finished`,
`Cleared`), and any other standstill is an error.

Fairness. Each thread of the library runs (weak fairness of its steps): it holds no
lock while it waits, and the kernel driver answers every job. The user's threads
finish the calls they have begun, and keep putting, getting, acknowledging and giving
back frames: this is what an application of an asynchronous interface does, and
without it the limits on packets, frames and buffers hold the pipeline back, as they
should. Nothing makes the user reset, send a command, clear, poll in vain or run into
a timeout, so no liveness property rests on that. In `TaskQueue` every client keeps
taking steps (weak fairness each), and no wait is assumed to end by itself; the
fairness of `TaskRing`, one condition per task and side, is then a theorem about the
signals, which TLC checks. `BufferGroups` and `H265Dpb` state no fairness: that the
decoder wakes up again is the safety property `SleepJustified`, and the dpb is
sequential.

## 4. Where the code does not do what it says

Four runs are expected to be violated. Each checks one property, taken from a
comment or an assert, and the shortest trace is the story told here.

* `enc_lostwakeup`. `check_enc_task_wait` clears `notify_flag` on every pass, also
  on the one that leads into the reset or the command branch, which goes back to the
  check without polling, `task.wait` unchanged. A frame that came together with the
  command is forgotten: the encoder sleeps with work in its queue. `NoLostWakeup` and
  the liveness properties leave out what follows from it (`Disturbed`).
* `dec_slot_leak`. `mpp_buf_slot_reset` takes a slot out of use without counting it
  down. Each reset during an info change costs a slot, until the parser waits for one
  although all are unused, with a bit that nobody notifies. The sessions of `dec` with
  a reset have their geometry set beforehand.
* `group_destroyed`. The put of the last buffer of a group that was cleared and put
  meanwhile destroys the buffer, with it the orphaned group, and only then counts the
  buffer out of the group: `destroy_group` finds a used buffer, and the count goes to
  freed memory.
* `h265_stranded`. The flush at a random access picture with missing references looks
  up the current picture by its order count. A picture of the sequence before with the
  same count is taken for it, and waits in the dpb until a reset.

More of this kind, described in `PROJECT.json` under "hazards" and left out of the
passing properties by the named condition:

* `put_frame` enqueues its task and then polls for its return. When that poll fails,
  `mInputTask` still names the task; the next call enqueues it again, whoever has it by
  then (`mpp.cpp:402`, `PutMayRetry` in `MppEnc`).
* For a task without a frame the v1 encoder goes back to the top with `task_in_rdy`
  still set, skips the poll, and uses the NULL of a failed dequeue. `put_frame` refuses
  a NULL frame, so such a task comes through `dequeue` and `enqueue`
  (`mpp_enc.cpp:249`, `EmptyForV1`).
* `Mpp::reset` flushes the frames after it has released the parser. When packets are
  put meanwhile, as `mpi_dec_mt_test` does from another thread, the flush may drop the
  announcement of an info change, and the parser waits for ever for its
  acknowledgement (`mpp.cpp:649`, `PutInReset` in `MppDec`). It may also drop the frames
  the parser waits for the user to fetch (`dis_que_full`), and notifies nobody: if no task
  under way makes another frame to be fetched, the parser sleeps until the next reset
  (`WakeupsKept`).
* `mpp_dec.cpp:765` says that two buffers are reserved for post-processing. They are
  once `dec->vproc` exists; but the handle of the first picture in field mode is given
  back (`mpp_dec.cpp:996`) before the vproc thread is created (`mpp_dec.cpp:272`), and in
  fast mode the parser may look for buffers in between with a reserve of none. With two
  handles, as `mpg4d_api.c:92` sets them, three pictures then have buffers; of four
  buffers one is left, the vproc thread needs two for its output and polls for ever. TLC
  finds this when the fast sessions of `MCDecVproc` get `limit` 4; with five they pass,
  as the run shows. Three handles, which other codecs have in fast mode, need six.
* During a reset the parser waits for the vproc thread, which may wait for buffers
  that only frames in `mFrames` hold, and those are flushed later (`mpp_dec.cpp:191`,
  `fetcher` in `DecVproc`).
* `rk_mpi.h:59` says that a reset discards all packets and frames; for an encoder
  (`mpp.cpp:656`) it leaves both queues as they are, and `MppEnc` models that.

## 5. What is proved

`TaskQueue_proofs` proves, for any number of tasks and any finite sets of clients:

| theorem | statement |
|---------|-----------|
| `TypeCorrect` | `TypeOK` is an invariant |
| `ListsCorrect` | the list a task is in is the one its status names, and it is there once |
| `ExclusiveHold` | a task on hold is in the hands of exactly one client, of the right port |
| `AssertHolds` | the assert on the status of an enqueued task never fails |
| `SignalNotLost` | `NoLostWakeup`: while a client waits for a list, as many others are on their way to it as it has tasks |
| `Refinement` | the queue implements the safety part of `TaskRing` |

Assumptions: `TaskCountAssumption` (at least one task), `NoTaskAssumption` and
`ClientsAssumption` of `TaskQueue`; TLC evaluates them in the run `queue`.

The inductive invariant is the conjunction of `TypeOK`, `ListsMatchStatus`,
`HeldByOne` and `NoAssert`; none is inductive alone. A dequeue takes the head of a
list, which has the status of the list only by `ListsMatchStatus`, and which nobody
holds because its status is not a HOLD status (`HeldByOne`). An enqueue finds its task
in no list for the same two reasons, so that unlinking it changes nothing
(`RemoveAbsent`) and the append keeps the list free of repetition (`AppendToSet`); the
assert holds because the holder's task has the HOLD status of the holder's port. Under
the invariant `DequeueTask` maps to `TakeIdle` or `TakeFilled`, `EnqueueTask` to
`GiveFilled` or `GiveBack`, and every other step to a stutter.

`NoLostWakeup` is inductive relative to `IInv`. It counts: an enqueue adds one task and,
if anybody waits, wakes one client; a dequeue takes one task and one client off; and a
client that finds nothing leaves only when the list is empty. The count is the reason
why one `pthread_cond_signal` per enqueue is enough although a client that was not woken
may take the task.

### `BufferGroups_proofs`

All six properties of the run `buffers`, for any set of groups, any finite set of
buffers, and any sizes, limits and number of references:

| theorem | property |
|---------|----------|
| `CountsCorrect` | `CountsMatchLists`: counters, lists, flags and reference counts agree |
| `HeldBuffersSurvive` | `HeldSurvives`: a buffer somebody holds exists, and its group does |
| `DiscardedGone` | `DiscardedNotReused`: a cleared buffer goes with its last reference |
| `UnusedHonest` | `UnusedCanBeGot`: what the unused count promises can be had |
| `LimitNeverPassed` | `LimitKept`: no step takes a group beyond its limit |
| `NoSleepOverBuffers` | `SleepJustified`: the decoder does not sleep over a buffer it could have |

Assumptions: `GroupsAssumption`, `BuffersAssumption` (the buffers are finite),
`SizesAssumption`, `LimitsAssumption` and `MaxRefAssumption` of `BufferGroups`; TLC
evaluates them in the run `buffers`.

The invariant `IInv` has two parts. `ServiceOK` is about the
service and the references handed out: the counters of a group in the service are the
sizes of its lists; a buffer is in the list its `used` flag names, of its own group; it
counts the references handed out and is used, discarded or not, exactly while there are
some; and its group is listed. The last clause is why a put of a group must leave an
orphan, and the one before it why a lost or doubled reference would free memory in use.
`UsersOK` says that the group of a get between its two halves, and the group of a
decoder that is not stopped, are normal: without it the second half would create a
buffer in a freed group.

Each entry point of the service has a lemma that it keeps `ServiceOK`. Most change one
group and one buffer of it, and follow from `OneStep`. `RefDecOK` has the cases of
`mpp_buffer_ref_dec`: not the last reference; the buffer returned; destroyed; destroyed
together with its orphaned group. The last includes the case of `group_destroyed`: the
count that the assert finds wrong is gone with the group, so the properties hold all
the same.

`LimitNeverPassed` needs only the types from `IInv`: a count goes up in a creation alone,
which tests the limit under the same lock. `NoSleepOverBuffers` needs `WaitOK`: while the
decoder runs, its group has the callback; between a search that failed and the sleep,
without a notification, an internal group has no unused buffer left. The second clause
is the point of the argument: a get of another thread gives up unused buffers without
telling anybody, which would make room under the limit while the decoder sleeps; it finds
none, because the decoder's own search has given up all of them. `Shrinks` is what a step
may do to the group in silence, and every other step sets the notification.

### `MppEnc_proofs`

All safety properties of the runs on the encoder, for any number of tasks, frames,
resets and commands, both threads and all timeouts:

| theorem | property |
|---------|----------|
| `TypeCorrect` | `TypeOK` |
| `AssertsNeverFail` | `AssertsHold`: the encoder finds the tasks it polled for |
| `InOrderOut` | `PacketsInOrder`: none lost, none twice |
| `NeverFreedInUse` | `NotFreedInUse`: no frame is released that the hardware reads |
| `ControlEffective` | `ControlInForce`: a command that returned has had its effect, once |
| `WakeupNotLost` | `NoLostWakeup`: no sleep over a reset or a command, nor, without them, over work |
| `DeinitComplete` | `DeinitAtInput`: no task is left on the output side |
| `ResetTakenBack` | `ResetDone`: the assert at the end of `mpp_enc_reset` |

Assumptions: `TaskCountAssumption`, `ModesAssumption`, `BoundAssumption` and
`NoneAssumption` of `MppEnc`; TLC evaluates them in the runs on `MCMppEnc`.

The invariant is layered, each part resting on those before it. `Base` and `ClearInv` are
the types and the phases of `clear`; `ResetInv` and `ControlInv` follow the two
handshakes (flag, notification, semaphore) through every point where the thread may be;
`RdyInv`, `SleepInv`, `CommandInv` and `EventsInv` say what the thread's wait bits and
the notify flag tell about the queues; `HoldersInv` and `FramesInv` say who has each task
and where each frame is. `ReadyInv` is what makes the asserts hold: after a poll that
succeeded nobody else takes the task, because each port has one reader. It fails, and
with it the asserts, for a v1 encoder given an empty task and for a `put_frame` that
gives up after its enqueue, the two uses that the properties leave out; `RegularInv` says
that nothing else makes it fail. `OrderInv` numbers everything from the last packet got to
the last frame put: what is in the output queue, in the hands of the thread, and in the
input queue are consecutive frames.

The first part of the module has the facts that do not mention the threads: what a
dequeue and an enqueue do to the two queues, taken from `QueueLemmas`, and the sequences
of frames.

### `SlotLemmas` and `BufSlots_proofs`

All safety properties of the run `slots`, for any number of slots, tasks, geometries and
pictures:

| theorem | property |
|---------|----------|
| `TypeCorrect` | `TypeOK`: no counter leaves its bit field |
| `RecycledInTime` | `UsedExactlyWhenHeld`: used exactly as long as somebody has the slot |
| `NothingDumped` | `NoIllegalClear`: no clear of a mark that is not set |
| `InDisplayOrder` | `ShownInOrder`: the order of the codec, decoded, with the frame |
| `FrameOfHolder` | `FrameKept`: a step replaces no frame that somebody had and has |

Assumptions: those of `BufSlots`, among them `TasksAssumption` (fewer than 255 task
handles, so that `hal_use` does not wrap; the code has at most a few) and
`NoneAssumption` (`NULL` is not a frame); TLC evaluates them in the run `slots`.

`SlotLemmas` states for each entry point of `mpp_buf_slot.cpp`, for a pool of any size,
which fields it changes and that `UsedOK` and `CountOK` are kept: a slot is `on_used`
exactly while one of its marks is set, and `used_count` counts those. These two are a
matter of the pool alone, because every clear ends in `check_entry_unused`.

It goes on with what `MppDec` does with slots: folds over sets and lists of them
(`FoldsOf`: the intermediate pools exist, and each is a step from the one before), and
`Parts`, slots shared out among tasks, each slot to one.

What the marks stand for is a matter of the threads, and is the invariant `MarksInv`:
`not_ready` are the outputs of the tasks; `hal_output` the same without the one the
parser has not marked yet; `codec_use` the dpb; `hal_use` the number of tasks that refer
to the slot; `queue_use` is 1 before and after the display queue and 2 in it. A clear
finds its mark set because the mark of a task is counted with the task (`TasksInv`: no
two tasks have the same output, an idle one has nothing), and a slot is once on its way
to display (`DisplayInv`). `UsedOK` and `MarksInv` together are `UsedExactlyWhenHeld`.
`FramesInv` (a slot has a frame while it is used, except between `get_unused` and
`set_prop`) and `ReadyInv` make a dequeued slot decoded, and `OrderInv` numbers the
pictures in `mFrames`, in the hand of the hal thread and in the queue.

### `DecVproc_proofs`

All safety properties of the run `vproc`, for any number of buffers, handles, tasks and
resets, any streams, and with or without fast mode:

| theorem | property |
|---------|----------|
| `SlotSafe` | `SlotOfTask`: the slot taken from `QUEUE_DEINTERLACE` is the slot of the task |
| `HeldSafe` | `HeldOnce`: one holder for each reference of `mpp_buffer_get`, and none else |
| `OrderSafe` | `FieldsInOrder`: frames in the order of their times, fields only of neighbours |

Assumptions: `VprocAssumption`, `SessionsAssumption`, `NoneAssumption` and
`EosAssumption` of `DecVproc`; TLC evaluates them in the run `vproc`. The last one says
that a packet without a picture carries the eos at the end of a stream only. It is what
the user of the decoder does, and `OrderSafe` needs it: with few handles an eos can be
lost (`HalPutEos`), and pictures after a lost one would be taken for neighbours of those
before it.

The invariant has layers. `Base` is the types, `HandlesInv` (from `QueueLemmas`: each
handle is in one list, once; those being processed carry tasks, and the thread works on
the first) and `ThreadsInv` (what each thread has in hand at each point). Three parts
rest on it.

`DeintInv` says that `QUEUE_DEINTERLACE` has the buffers of the pictures among the
handles in use, in their order, without the first once the thread has taken it. Signals
have a handle and no slot, so that the two sequences are not of one length: `PickTaken`
and `PickShifted` say what a picture and a signal at the head of the handles do.

`HeldInv` names the eight places where a frame can be (`Holders`) and the buffers in
each: no place has a buffer twice, no two places share one, and together they have the
buffers marked `frame`. A step moves a buffer from one place to another
(`HeldByMoved`), adds one that was unused (`HeldByAdded`), or drops one with its mark
(`HeldByDropped`); `HeldCounted` turns this into the count of `HeldOnce`. The reset of
the post-processing, the eos and the info change are each a drop, and the flush of
`mFrames` drops all of one place.

`OrderInv` says that there is an item `h` the thread has come to: the handles carry `h`
and its successors up to the next item to hand over, the previous picture is the one
before `h`, no reset was done after `h`, or at `h` with a previous picture kept, and the
frames put are older than what is still to come of `h`. `NumbersInv` has the numbers of
the tasks before the handles. `ResetInv` follows the reset through the three threads: a
thread answers only after the one before it has, and with nothing left in hand, so that
no picture before a reset can meet one behind it.

### `MppDec_proofs`

Three of the safety properties of the run `dec`, and most of two others, for any number of
frame slots, any limits of packets and frames, and any sessions:

| theorem | property |
|---------|----------|
| `Accounts` | `IInv`: each mark in either pool is that of one task, of the codec or of the display queue |
| `ResetLeavesNoTask` | `ResetQuiesced`: the parser drops shared state only while the hal thread rests |
| `HalKeepsSlots` | `HalSlotsIntact`: the hardware writes to the frame of its packet and reads decoded, earlier pictures |
| `PicturesInOrder` | `FramesInOrder`: the pictures fetched are in the order of their packets, none twice |
| `ResetLeavesNothing` | `ResetReleases`, all of `ResetEmpties` but its clause on `used_count` |
| `WakeupsNotLost` | `WakeupsKept`, all of `NoLostWakeup` but its clauses on frame slots and info changes |

Assumptions: `CountAssumption` (one to three handles; the packet pool has two slots, or
three in fast mode, `mpp_dec.cpp:1279`, and with more handles than slots the parser could
take one that is not there), `FlagAssumption`, `SessionsAssumption` (what a packet and a
session are; a packet without a picture ends the stream) and `NoneAssumption`; TLC
evaluates them in the run `dec`. `PutInReset` is not fixed: the theorems hold for
packets that are put during a reset, too, all but the clause of `WakeupsKept` on frames.

The invariant has layers. `Base` speaks of the threads only: its `HandlesInv` has each
handle in one list, the one in the hand of the parser first among the idle ones, the one
in the hand of the hal thread first among those being processed; `TaskInv` relates the
stage of the parser to the flags of `DecTask`; `ResetInv` follows the semaphores of a
reset through the three threads; `PrevInv` says that outside of fast mode one picture at
a time is with the hal thread. There is one lemma for each action. `Base` alone gives
`ResetQuiesced`.

The next five parts do not look at the actions again. `StepKinds` sorts every step into one of
ten kinds by what it does to the pools and the tasks: nothing, a copied packet, a parsed
picture, a task started, a packet read by the hardware, marks cleared, slots shown, a
drop of each sort. Each further part has one lemma per kind:

* `PacketInv`: the packet slots in use are the inputs of the tasks that are not read
  yet, each of one (`Parts`).
* `SlotsInv`: the marks on the frame slots are those of the tasks, of the reference of
  the codec and of the display queue. The two give the parser a slot when it takes one
  (`Room`), which `Base` needs, so that the three are one invariant, `IInv`.
* `FrameInv`: the slots of a task hold the pictures its packet numbers say, and tasks
  are in the order of packets. This gives `HalSlotsIntact`.
* `OrderInv`: pictures fetched, pictures in `mFrames` and pictures in the display queue
  are, one after the other, in the order of packets, and older than every packet still
  to be parsed. This gives `FramesInOrder`, whichever of the two threads drains the queue.
* `PostInv`: when the parser has its answer, it owns all that is still marked.

`WakeInv`, for the wakeups, is about the actions again, one lemma for those that do the
same to what the parser waits for (`Tells`):

* `WaitsInv`: the parser waits for one of handle, packet, previous task and room among the
  frames at a time, for none in a stage beyond: with the bit of a stage that was passed
  still set, it would sleep in the next one over an event that has happened.
* `ToldInv`: what has happened is in `notify_flag`, unless the hal thread is on its way to
  `mpp_dec_notify`. Between `hal_task_hnd_set_status` and the notification it passes three
  points where the parser may look and find nothing.
* `SleepInv`: a parser that sleeps has its wait bits in `status_flag` and was notified of
  none, so that the next notification of one of them signals it.
* `FlushInv`: with no packets put in a reset, the parser has none in hand when the frames
  are flushed. The clause on frames needs it, because the flush notifies nobody.

`mpp_buf_slot_reset` takes a slot out of use and leaves `used_count`, so that
`CountCovers` of `SlotLemmas` says no more than the code keeps here: `used_count` is at
least the number of slots in use. A slot is therefore unused whenever the count is below
the number of slots, which is what the parser waits for.

### What stays with TLC

The liveness properties (`Settles` among them) and the fairness of `TaskRing`: they are
beyond the prover, like `ENABLED`.

Of `MppDec`, `AnnouncedBefore`, the clauses of `NoLostWakeup` on `dec_slot_idx` and
`info_change`, and the clause of `ResetEmpties` on `used_count`. They hold when there are
slots enough for the tasks and the codec, for packets that are not put during a reset, and
for sessions without a reset at an info change (the finding `dec_slot_leak`), so that
theorems about them would have these as assumptions. The clause on `info_change` depends
on the slots, too: a parser that is acknowledged goes through all stages again, and one
that found no slot then would sleep with `info_change` still set.

The properties of `H265Dpb` hold of the conforming streams that `MCH265Dpb` lists (the
distances of order counts, the size of the dpb, the leading pictures). A theorem for
every stream would first need a definition of conformance, and the flush and the
reference picture sets are folds over sequences.

## 6. What is not modelled

* Spurious wakeups in `MppEnc`, `MppDec` and `DecVproc`: the thread loops look again
  before they work. `TaskQueue` has them (`WaitEnds`).
* Failed allocations; the code logs them and mostly goes on.
* In the encoder: what encoding computes, and the commands that are answered from the
  configuration without the thread (all of them for v1).
* In the context: `mExtraPacket`, `mMultiFrame`, the task interface of the decoder,
  replacing an external group that is in use.
* In the decoder: the split mode, in which a packet is cut into pictures; the wait of
  vp9 for all tasks; the thread for MJPEG.
* In the slots: the arithmetic of strides and sizes, a second setup with another
  count, deinit.
* In the buffer service: the allocators, `clear_on_exit`, the destructor at the end of
  the process, and the operation log.
* In post-processing: start and stop of the thread and the registers of the device.
* In the H.265 codec: the syntax of headers and parameter sets, changes of the SPS
  within a stream, `no_output_of_prior_pics`, pictures of several slices; the 8-bit
  sequence counters are modelled with their width, but no stream is long enough to
  wrap them. The other codecs are covered by `BufSlots` as far as they use slots.
* Bitstream syntax, register generation, allocators, the legacy interface: data and
  input or output, without a protocol of their own. They are most of the lines of the
  repository.

Seen while reading, and outside the models:

* `mpp_task_impl.cpp:457`: deinit frees conditions that a thread may still wait on.
* `mpp_dec.cpp:949`: the hal thread calls the flush of the codec while the parser
  thread may be parsing.
* `mpp_buffer_impl.cpp:625`: the destructor of the service treats orphan groups as
  buffers; an orphan whose buffers were not discarded is never freed, since the last
  put of such a buffer only moves it to the unused list (line 398).
* `mpp.cpp:755`: an external group that is replaced keeps its callback to the context.
* `mpp_dec.cpp:298`: an eos without a picture is lost when all four vproc handles are
  busy. `DecVproc` has the loss (`HalPutEos`); with as few buffers as in the run it does not
  happen.
* `mpp_dec_vproc.cpp`: the loop that polls for a buffer does not look at the status of
  the thread, and deinit leaves the buffer of the previous frame.
* `mpp_buf_slot.cpp:494`: the end of a decoder context leaves slots marked (the asserts
  of `clear_slots_impl` log it): `mpp_h263_parser_deinit` keeps its reference, and the
  exiting parser thread marks its packet slot once too often.

## 7. Plan

In this order:

1. The rest of `NoLostWakeup`, and `AnnouncedBefore`, of `MppDec`, on top of `IInv`, for
   the counts of the code and the sessions they hold for.
2. `MppThread` and `mpp_list`: start, wait, signal and stop; the list's `wait_le` and
   `wait_lt` with several threads.
3. The dpb of a second codec (H.264 or MPEG-4), and `H265Dpb` as a refinement of the
   open codec of `BufSlots`.
4. The integer arithmetic of `mpp_rc.cpp` against a reference on bounded inputs.
5. The split mode and the external buffers of a decoder inside `MppDec`.
