----------------------------- MODULE MCH265Dpb -----------------------------
EXTENDS H265Dpb

Picture(type, poc, refs, keep) ==
    [type |-> type, poc |-> poc, refs |-> refs, keep |-> keep, long |-> <<>>,
     eos_nal |-> FALSE]
IDR               == Picture("IDR", 0, <<>>, <<>>)
CRA(poc, keep)    == Picture("CRA", poc, <<>>, keep)
BLA(poc, keep)    == Picture("BLA", poc, <<>>, keep)
P(poc, refs)      == Picture("TRAIL", poc, refs, <<>>)
RASL(poc, refs)   == Picture("RASL", poc, refs, <<>>)
RADL(poc, refs)   == Picture("RADL", poc, refs, <<>>)
Long(pic, refs)   == [pic EXCEPT !.long = refs]
NewSeq(pic)       == [pic EXCEPT !.eos_nal = TRUE]

(* B pictures, a CRA picture with a leading picture, and trailing ones;    *)
(* the counts pass the low bits.                                           *)
OpenGop ==
    << IDR, P(6, <<1>>), P(3, <<1, 2>>), CRA(12, <<2>>), RASL(9, <<2, 4>>),
       P(18, <<4>>), P(16, <<4, 6>>), P(24, <<6>>), P(32, <<8>>) >>

(* A picture that leads an IDR picture, a long-term reference, and new     *)
(* sequences by an IDR picture and by an end of sequence.                  *)
ClosedGops ==
    << IDR, P(2, <<1>>), P(1, <<1, 2>>), IDR, RADL(-1, <<4>>), P(2, <<4>>),
       Long(P(3, <<6>>), <<4>>), Long(P(5, <<7>>), <<4>>),
       NewSeq(CRA(8, <<>>)), P(10, <<9>>), P(9, <<9, 10>>) >>

(* A splice with other low bits than the pictures that wait. *)
Splice ==
    << IDR, P(2, <<1>>), P(4, <<2>>), BLA(7, <<3>>), RASL(6, <<3, 4>>),
       P(9, <<4>>), P(11, <<6>>) >>

MCStreams == {OpenGop, ClosedGops, Splice}

(* A splice at the count of a picture that waits. *)
SpliceStreams ==
    {<< IDR, P(2, <<1>>), P(4, <<2>>), BLA(4, <<2>>), P(6, <<4>>), P(8, <<5>>) >>}
=============================================================================
