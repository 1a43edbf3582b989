------------------------------ MODULE TaskRing ------------------------------
(***************************************************************************)
(* What a task queue promises to the two sides it connects                 *)
(* (mpp/base/inc/mpp_task_impl.h, "mpp task status transaction"): the      *)
(* tasks circulate.  The input side takes the oldest idle task, fills it   *)
(* and gives it to the output side; the output side takes the oldest       *)
(* filled task, works on it and gives it back.  Each task is in one place. *)
(***************************************************************************)
EXTENDS Naturals, Sequences

CONSTANT TaskCount

VARIABLES
    idle,       \* tasks waiting for the input side, oldest first
    filling,    \* tasks in the hands of the input side
    filled,     \* tasks waiting for the output side, oldest first
    working     \* tasks in the hands of the output side

ringVars == <<idle, filling, filled, working>>

RingInit ==
    /\ idle = [i \in 1 .. TaskCount |-> i]
    /\ filled = <<>>
    /\ filling = {} /\ working = {}

TakeIdle ==
    /\ idle # <<>>
    /\ filling' = filling \cup {Head(idle)}
    /\ idle' = Tail(idle)
    /\ UNCHANGED <<filled, working>>

GiveFilled(t) ==
    /\ t \in filling
    /\ filling' = filling \ {t}
    /\ filled' = Append(filled, t)
    /\ UNCHANGED <<idle, working>>

TakeFilled ==
    /\ filled # <<>>
    /\ working' = working \cup {Head(filled)}
    /\ filled' = Tail(filled)
    /\ UNCHANGED <<idle, filling>>

GiveBack(t) ==
    /\ t \in working
    /\ working' = working \ {t}
    /\ idle' = Append(idle, t)
    /\ UNCHANGED <<filling, filled>>

RingNext ==
    \/ TakeIdle \/ TakeFilled
    \/ \E t \in 1 .. TaskCount : GiveFilled(t) \/ GiveBack(t)

(* Nobody leaves a task waiting, and nobody keeps one. *)
RingFairness ==
    /\ WF_ringVars(TakeIdle) /\ WF_ringVars(TakeFilled)
    /\ \A t \in 1 .. TaskCount :
          WF_ringVars(GiveFilled(t)) /\ WF_ringVars(GiveBack(t))

RingSafety == RingInit /\ [][RingNext]_ringVars

RingSpec == RingSafety /\ RingFairness
=============================================================================
