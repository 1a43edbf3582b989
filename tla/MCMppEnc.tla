------------------------------ MODULE MCMppEnc ------------------------------
(* MppEnc for TLC: the ways to use an encoder that a run looks at. *)
EXTENDS MppEnc

(* Both threads, with put_frame blocking as is its default, and with all   *)
(* that makes the v1 thread or put_frame fail.                             *)
MCModes ==
    { [version |-> "v1", InputTimeout |-> "MPP_POLL_BLOCK", empty |-> FALSE],
      [version |-> "v2", InputTimeout |-> "MPP_POLL_BLOCK", empty |-> TRUE],
      [version |-> "v1", InputTimeout |-> "timed",          empty |-> TRUE] }

(* The v2 thread in regular use, and with it the v1 thread. *)
MCRegularV2 == {[version |-> "v2", InputTimeout |-> "MPP_POLL_BLOCK", empty |-> FALSE]}
MCRegular == MCRegularV2 \cup
    {[version |-> "v1", InputTimeout |-> "MPP_POLL_BLOCK", empty |-> FALSE]}
=============================================================================
