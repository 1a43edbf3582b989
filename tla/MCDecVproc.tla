----------------------------- MODULE MCDecVproc -----------------------------
EXTENDS DecVproc

(* A session with a thread that fetches frames, in field mode from item    *)
(* `first' on.  Without fast mode four buffers are the fewest: the picture *)
(* before, this one, and two in reserve; in fast mode, where the parser    *)
(* may be one picture ahead when the vproc thread starts, five.            *)
Session(items, first, fast, four, top, bound) ==
    [stream |-> items, first |-> first, limit |-> IF fast THEN 5 ELSE 4,
     fast |-> fast, four |-> four, top |-> top, resets |-> bound, fetcher |-> TRUE]

(* An info change between pictures, an eos on the last picture and one     *)
(* without a picture, frames before the first in field mode, and a reset   *)
(* at any point.                                                           *)
MCSessions ==
    { Session(<<"change", "frame", "frame", "change", "frame", "last">>,
              1, FALSE, TRUE, TRUE, 0),
      Session(<<"frame", "frame", "change", "frame", "eos">>, 1, FALSE, TRUE, FALSE, 1),
      Session(<<"frame", "frame", "frame", "last">>, 1, FALSE, FALSE, TRUE, 1),
      Session(<<"frame", "frame", "frame", "frame">>, 1, FALSE, TRUE, TRUE, 2),
      Session(<<"change", "frame", "frame", "frame", "last">>, 3, FALSE, TRUE, TRUE, 1),
      Session(<<"frame", "frame", "frame", "last">>, 1, TRUE, TRUE, TRUE, 1),
      Session(<<"frame", "frame", "change", "frame", "frame", "eos">>,
              2, TRUE, TRUE, FALSE, 0) }
=============================================================================
