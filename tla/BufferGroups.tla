---------------------------- MODULE BufferGroups ----------------------------
(***************************************************************************)
(* The buffer service in use (mpp/base/mpp_buffer.cpp on top of            *)
(* BufGroupOps): a decoder that takes its frame buffers from one group,    *)
(* other threads that get, share and put buffers of any group, and a user  *)
(* who configures, clears and puts the groups.                             *)
(*                                                                         *)
(* mpp_buffer_get takes the lock of the service twice, once to search the  *)
(* unused buffers and once to create a new one, and                        *)
(* mpp_buffer_group_unused takes it not at all: these are separate steps.  *)
(*                                                                         *)
(* The decoder is the part of its parser thread that waits for buffers     *)
(* (mpp_dec.cpp, steps 10 and 11 of try_proc_dec_task):                    *)
(*    check    check_task_wait, asleep while wait and not notify           *)
(*    try      looks at the unused count                                   *)
(*    search   first half of mpp_buffer_get                                *)
(*    create   second half                                                 *)
(*    paused   waits for the user's answer to an info change               *)
(*    stopped  Mpp::clear has stopped it                                   *)
(*                                                                         *)
(* What is asked of the user: a group is put once, by nobody but its       *)
(* owner and when no call on it is under way; a buffer is put once for     *)
(* each reference; the decoder's group is cleared or configured at an info *)
(* change, as mpi_dec_test.c does, and put after the decoder is gone.      *)
(***************************************************************************)
EXTENDS BufGroupOps

CONSTANTS
    Groups,         \* group ids
    Buffers,        \* addresses of buffers
    Sizes,          \* sizes that are asked for
    Limits,         \* pairs of a limit size and count that are configured
    MaxRef,         \* bound: references to one buffer
    Frames          \* the group of the decoder

ASSUME GroupsAssumption  == Frames \in Groups /\ 0 \notin Groups
ASSUME BuffersAssumption == IsFiniteSet(Buffers)
ASSUME SizesAssumption   == Sizes \subseteq Nat \ {0}
ASSUME LimitsAssumption  == Limits \subseteq Nat \X Nat
ASSUME MaxRefAssumption  == MaxRef \in Nat \ {0}

VARIABLES
    svc,        \* the service
    held,       \* references handed out to threads and not put yet
    getting,    \* the request of a thread between the two halves of a get
    dec         \* the decoder

vars == <<svc, held, getting, dec>>

NoRequest == [group |-> 0, size |-> 0]
Requests  == [group : Groups, size : Sizes]

Free == {b \in Buffers : ~svc.buf[b].alive}

Normal(g) == svc.group[g].state = "normal"

Init ==
    /\ svc = ServiceInit(Groups, Buffers)
    /\ held = [b \in Buffers |-> 0]
    /\ getting = NoRequest
    /\ dec = [pc |-> "stopped", wait |-> FALSE, notify |-> FALSE, size |-> 0]

(* group->callback, mpp_notify_by_buffer_group, Mpp::notify(group),        *)
(* mpp_dec_notify: the two buffer bits are always set together.            *)
Notified(d, g) == IF svc.group[g].callback THEN [d EXCEPT !.notify = TRUE] ELSE d

-----------------------------------------------------------------------------
(* Groups *)

(* mpp_buffer_group_get, and mpp_buffer_get_misc_group for a group that    *)
(* does not exist yet.  SET_EXT_BUF_GROUP, or Mpp::init, makes the group   *)
(* of the decoder known to it.                                             *)
GroupGet(g) ==
    /\ svc.group[g].state = "none"
    /\ \E mode \in Modes, misc \in BOOLEAN :
          /\ misc => /\ g # Frames
                     /\ \A h \in Groups :
                           ~(Normal(h) /\ svc.group[h].misc /\ svc.group[h].mode = mode)
          /\ svc' = [svc EXCEPT !.group[g] =
                        [NoGroup EXCEPT !.state = "normal", !.mode = mode,
                                        !.misc = misc, !.callback = (g = Frames)]]
    /\ dec' = IF g = Frames THEN [dec EXCEPT !.pc = "paused"] ELSE dec
    /\ UNCHANGED <<held, getting>>

(* No call on the group is under way. *)
Quiet(g) ==
    /\ Normal(g) /\ getting.group # g
    /\ g = Frames => dec.pc \in {"paused", "stopped"}

(* mpp_buffer_group_limit_config; mpi_dec_test.c calls it at every info    *)
(* change.                                                                 *)
LimitConfig ==
    /\ Quiet(Frames) /\ svc.group[Frames].mode = "INTERNAL"
    /\ \E limit \in Limits :
          svc' = [svc EXCEPT !.group[Frames].limit_size = limit[1],
                             !.group[Frames].limit_count = limit[2]]
    /\ UNCHANGED <<held, getting, dec>>

GroupClear(g) ==
    /\ Quiet(g) /\ ~svc.group[g].misc
    /\ svc' = GroupReset(svc, g)
    /\ UNCHANGED <<held, getting, dec>>

(* mpp_buffer_group_put.  Misc groups stay until the process ends. *)
GroupPut(g) ==
    /\ Quiet(g) /\ ~svc.group[g].misc
    /\ g = Frames => dec.pc = "stopped"
    /\ svc' = PutGroup(svc, g)
    /\ UNCHANGED <<held, getting, dec>>

-----------------------------------------------------------------------------
(* Buffers *)

(* mpp_buffer_import with or without a buffer to return (commit). *)
Commit(g) ==
    /\ Normal(g) /\ svc.group[g].mode = "EXTERNAL"
    /\ \E b \in Free, size \in Sizes, take \in BOOLEAN :
          /\ MayCreate(svc, g, size)
          /\ svc' = Create(svc, g, size, b, take)
          /\ held' = IF take THEN [held EXCEPT ![b] = 1] ELSE held
    /\ dec' = Notified(dec, g)
    /\ UNCHANGED getting

(* mpp_buffer_get_with_tag by some thread: the search. *)
GetSearch(g) ==
    /\ Normal(g) /\ getting = NoRequest
    /\ \E size \in Sizes : \E dropped \in Passed(svc, g, size) :
          LET s == DropUnused(svc, g, dropped)
          IN  \/ /\ \E b \in Fitting(svc, g, size) :
                       /\ svc' = IncRef(s, b)
                       /\ held' = [held EXCEPT ![b] = 1]
                 /\ UNCHANGED getting
              \/ /\ Fitting(svc, g, size) = {} /\ svc.group[g].mode = "INTERNAL"
                 /\ svc' = s
                 /\ getting' = [group |-> g, size |-> size]
                 /\ UNCHANGED held
    /\ UNCHANGED dec

(* ... and the creation, which the limits may forbid by now. *)
GetCreate ==
    /\ getting # NoRequest
    /\ getting' = NoRequest
    /\ \/ /\ ~MayCreate(svc, getting.group, getting.size)
          /\ UNCHANGED <<svc, held, dec>>
       \/ /\ MayCreate(svc, getting.group, getting.size)
          /\ \E b \in Free :
                /\ svc' = Create(svc, getting.group, getting.size, b, TRUE)
                /\ held' = [held EXCEPT ![b] = 1]
          /\ dec' = Notified(dec, getting.group)

(* mpp_buffer_inc_ref by a thread that holds the buffer. *)
Share(b) ==
    /\ held[b] \in 1 .. MaxRef - 1
    /\ svc' = IncRef(svc, b)
    /\ held' = [held EXCEPT ![b] = @ + 1]
    /\ UNCHANGED <<getting, dec>>

(* Mutant: the listener is told only of buffers that can be used again. *)
BufferPut_TellReusable(b) ==
    /\ held[b] > 0
    /\ svc' = RefDec(svc, b)
    /\ held' = [held EXCEPT ![b] = @ - 1]
    /\ dec' = IF svc.buf[b].ref_count = 1 /\ ~svc.buf[b].discard
              THEN Notified(dec, svc.buf[b].group) ELSE dec
    /\ UNCHANGED getting

(* mpp_buffer_put *)
BufferPut(b) ==
    /\ held[b] > 0
    /\ svc' = RefDec(svc, b)
    /\ held' = [held EXCEPT ![b] = @ - 1]
    /\ dec' = IF svc.buf[b].ref_count = 1 THEN Notified(dec, svc.buf[b].group) ELSE dec
    /\ UNCHANGED getting

-----------------------------------------------------------------------------
(* The decoder *)

(* An info change, or the start: frames of another size from now on. *)
DecResume ==
    /\ dec.pc = "paused"
    /\ \E size \in Sizes :
          dec' = [dec EXCEPT !.pc = "try", !.size = size, !.wait = FALSE]
    /\ UNCHANGED <<svc, held, getting>>

DecPause ==
    /\ dec.pc = "check" /\ ~dec.wait
    /\ dec' = [dec EXCEPT !.pc = "paused", !.size = 0]
    /\ UNCHANGED <<svc, held, getting>>

(* check_task_wait lets the thread go on; it clears the notifications. *)
DecCheck ==
    /\ dec.pc = "check" /\ (dec.wait => dec.notify)
    /\ dec' = [dec EXCEPT !.pc = "try", !.notify = FALSE]
    /\ UNCHANGED <<svc, held, getting>>

(* 10.1: dec_pic_unusd *)
DecTry ==
    /\ dec.pc = "try"
    /\ dec' = IF Unused(svc, Frames) < 1
              THEN [dec EXCEPT !.pc = "check", !.wait = TRUE]
              ELSE [dec EXCEPT !.pc = "search", !.wait = FALSE]
    /\ UNCHANGED <<svc, held, getting>>

(* 11: mpp_buffer_get; without a buffer the thread waits, dec_pic_match. *)
DecSearch ==
    /\ dec.pc = "search"
    /\ \E dropped \in Passed(svc, Frames, dec.size) :
          LET s == DropUnused(svc, Frames, dropped)
          IN  \/ /\ \E b \in Fitting(svc, Frames, dec.size) :
                       /\ svc' = IncRef(s, b)
                       /\ held' = [held EXCEPT ![b] = 1]
                 /\ dec' = [dec EXCEPT !.pc = "check"]
              \/ /\ Fitting(svc, Frames, dec.size) = {}
                 /\ svc' = s
                 /\ dec' = IF svc.group[Frames].mode = "INTERNAL"
                           THEN [dec EXCEPT !.pc = "create"]
                           ELSE [dec EXCEPT !.pc = "check", !.wait = TRUE]
                 /\ UNCHANGED held
    /\ UNCHANGED getting

DecCreate ==
    /\ dec.pc = "create"
    /\ \/ /\ ~MayCreate(svc, Frames, dec.size)
          /\ dec' = [dec EXCEPT !.pc = "check", !.wait = TRUE]
          /\ UNCHANGED <<svc, held>>
       \/ /\ MayCreate(svc, Frames, dec.size)
          /\ \E b \in Free :
                /\ svc' = Create(svc, Frames, dec.size, b, TRUE)
                /\ held' = [held EXCEPT ![b] = 1]
          /\ dec' = Notified([dec EXCEPT !.pc = "check"], Frames)
    /\ UNCHANGED getting

(* Mpp::clear releases the listener, stops the thread wherever it waits    *)
(* and leaves the buffers with the frames that were put out.               *)
DecStop ==
    /\ dec.pc \in {"paused", "check"}
    /\ dec' = [dec EXCEPT !.pc = "stopped", !.wait = FALSE, !.notify = FALSE, !.size = 0]
    /\ svc' = [svc EXCEPT !.group[Frames].callback = FALSE]
    /\ UNCHANGED <<held, getting>>

-----------------------------------------------------------------------------
Next ==
    \/ \E g \in Groups : \/ GroupGet(g) \/ GroupClear(g) \/ GroupPut(g)
                         \/ Commit(g)   \/ GetSearch(g)
    \/ LimitConfig
    \/ \E b \in Buffers : Share(b) \/ BufferPut(b)
    \/ GetCreate
    \/ DecResume \/ DecPause \/ DecCheck \/ DecTry \/ DecSearch \/ DecCreate \/ DecStop

Spec == Init /\ [][Next]_vars

-----------------------------------------------------------------------------
(* The counters that the decoder and the limits go by agree with the lists *)
(* of every group that exists, a buffer is in one list of its own group,   *)
(* the one that used names, and it is used exactly while referenced.       *)
CountsMatchLists ==
    /\ \A g \in Groups : Listed(svc, g) =>
          LET p == svc.group[g]
          IN  /\ p.count_used = Cardinality(p.list_used)
              /\ p.count_unused = Cardinality(p.list_unused)
              /\ p.buffer_count = p.count_used + p.count_unused
    /\ \A b \in Buffers : svc.buf[b].alive =>
          LET p == svc.group[svc.buf[b].group]
          IN  /\ svc.buf[b].used <=> b \in p.list_used
              /\ ~svc.buf[b].used <=> b \in p.list_unused
              /\ svc.buf[b].used <=> svc.buf[b].ref_count > 0

(* Whoever holds a reference holds a buffer that exists, with a group that *)
(* exists: mpp_buffer_ref_dec looks the group up by its id and uses what   *)
(* it finds without a test.                                                *)
HeldSurvives ==
    \A b \in Buffers : held[b] > 0 =>
        /\ svc.buf[b].alive /\ svc.buf[b].ref_count = held[b]
        /\ Listed(svc, svc.buf[b].group)

(* A buffer that was in use when its group was cleared, and may have the   *)
(* wrong size for what comes next, goes with its last reference, whatever  *)
(* has become of its group: there is none left that a get could find.      *)
DiscardedNotReused ==
    \A b \in Buffers : svc.buf[b].alive /\ svc.buf[b].discard => held[b] > 0

(* No thread takes a group beyond its limit, although the search and the   *)
(* creation of a get are two critical sections.                            *)
LimitKept ==
    [][\A g \in Groups :
          LET p == svc.group[g]
          IN  svc'.group[g].buffer_count > p.buffer_count /\ p.limit_count > 0
              => svc'.group[g].buffer_count <= p.limit_count]_vars

(* What mpp_buffer_group_unused promises of a group with a limit can be    *)
(* had: a get of an allowed size finds a buffer, or may create one after   *)
(* the search.                                                             *)
UnusedCanBeGot ==
    \A g \in Groups, size \in Sizes :
        /\ Normal(g) /\ svc.group[g].mode = "INTERNAL"
        /\ svc.group[g].limit_size = 0 \/ size <= svc.group[g].limit_size
        /\ Unused(svc, g) > 0
        => \/ Fitting(svc, g, size) # {}
           \/ \A dropped \in Passed(svc, g, size) :
                 MayCreate(DropUnused(svc, g, dropped), g, size)

(* The decoder sleeps only while what it waits for is still so, no unused  *)
(* buffer by the group's count, or none that fits and none to be created:  *)
(* whatever changes that also notifies it.                                 *)
SleepJustified ==
    dec.pc = "check" /\ dec.wait /\ ~dec.notify =>
        \/ Unused(svc, Frames) < 1
        \/ /\ Fitting(svc, Frames, dec.size) = {}
           /\ svc.group[Frames].mode = "INTERNAL" => ~MayCreate(svc, Frames, dec.size)

(* The mpp_assert of destroy_group: a group has no buffers when it goes.   *)
DestroyedEmpty == \A g \in Groups : svc.group[g].state # "misfreed"
=============================================================================
