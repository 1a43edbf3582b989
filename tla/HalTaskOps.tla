----------------------------- MODULE HalTaskOps -----------------------------
(***************************************************************************)
(* The hal task group of mpp/hal/hal_task.cpp: a fixed number of handles,  *)
(* each linked in the list of its status.  hal_task_get_hnd looks at the   *)
(* head of a list and leaves it there; only a new status moves a handle.   *)
(* Every entry point runs under the lock of the group, so each is an       *)
(* operator on a group.                                                    *)
(***************************************************************************)
EXTENDS Integers, Sequences, SequencesExt

TaskStatuses == {"TASK_IDLE", "TASK_PROCESSING", "TASK_PROC_DONE"}

(* hal_task_group_init with n handles; info is the task each one carries. *)
GroupInit(n, info) ==
    [ list |-> [s \in TaskStatuses |->
                   IF s = "TASK_IDLE" THEN [i \in 1 .. n |-> i] ELSE <<>>],
      info |-> [i \in 1 .. n |-> info] ]

(* hal_task_get_hnd succeeds, and what it returns. *)
HasHnd(g, status) == g.list[status] # <<>>
GetHnd(g, status) == Head(g.list[status])

(* hal_task_hnd_set_status: list_del_init, then list_add_tail. *)
SetStatus(g, hnd, status) ==
    LET unlinked == [s \in DOMAIN g.list |-> RemoveFirst(g.list[s], hnd)]
    IN  [g EXCEPT !.list = [unlinked EXCEPT ![status] = Append(@, hnd)]]

(* hal_task_hnd_set_info *)
SetInfo(g, hnd, info) == [g EXCEPT !.info[hnd] = info]
=============================================================================
