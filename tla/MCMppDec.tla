------------------------------ MODULE MCMppDec ------------------------------
EXTENDS MppDec

CONSTANTS small, large      \* frame geometries

Pkt(kind, info) == [kind |-> kind, info |-> info, eos |-> kind = "eos"]
EosPkt(kind, info) == [kind |-> kind, info |-> info, eos |-> TRUE]

MCSession(fast, info, packets, bound, clear) ==
    [fast |-> fast, info |-> info, packets |-> packets, resets |-> bound, clear |-> clear]
Normal(info, packets) == MCSession(FALSE, info, packets, 0, FALSE)
Fast(info, packets)   == MCSession(TRUE, info, packets, 0, FALSE)

(* An info change after a picture, and an eos on the last packet; a stream *)
(* that starts with a P picture, has an unreadable packet and ends with an *)
(* empty one; an eos on a packet that cannot be read; and fast mode, with  *)
(* a geometry set beforehand so that no info change holds the parser back. *)
PipelineSessions ==
    { Normal(None, <<Pkt("I", small), Pkt("I", large), EosPkt("P", large)>>),
      Normal(None, <<Pkt("P", small), Pkt("bad", small), Pkt("I", small),
                     Pkt("eos", None)>>),
      Normal(None, <<Pkt("I", small), EosPkt("bad", small)>>),
      Fast(small, <<Pkt("I", small), Pkt("P", small), EosPkt("P", small)>>) }

(* A reset, and the end of the context, at any point. *)
ResetSessions ==
    { MCSession(FALSE, small, <<Pkt("I", small), Pkt("P", small), Pkt("eos", None)>>, 1, TRUE),
      MCSession(TRUE, small, <<Pkt("I", small), EosPkt("P", small)>>, 1, TRUE) }

AllSessions == PipelineSessions \cup ResetSessions

(* Resets at an info change. *)
LeakSessions == { MCSession(FALSE, None, [n \in 1 .. 3 |-> Pkt("I", small)], 2, FALSE) }
=============================================================================
