------------------------------- MODULE H265Dpb -------------------------------
(***************************************************************************)
(* The decoded picture buffer of the H.265 codec: h265d_refs.c and what    *)
(* calls it in h265d_parser.c (mpp/codec/dec/h265), for packets of one     *)
(* picture each.                                                           *)
(*                                                                         *)
(* A picture names by their order counts (POC) the pictures it needs and   *)
(* those that later ones need (its RPS).  The codec finds them in its      *)
(* buffer, makes up the missing ones, drops the others, and puts pictures  *)
(* out in the order of their counts.  Packets can be lost, the hardware    *)
(* can fail on a picture, and the user can reset and go on from another    *)
(* place of the stream; pictures that depend on what is missing must not   *)
(* be shown as good ones.                                                  *)
(***************************************************************************)
EXTENDS Integers, FiniteSets, SequencesExt

CONSTANTS
    Streams,        \* sequences of pictures, see below
    DpbSize,        \* MAX_DPB_SIZE (17)
    Reorder,        \* num_reorder_pics of the SPS
    MaxLsb,         \* 1 << log2_max_poc_lsb
    MaxLost,        \* bound: packets lost (more, and counts would be misread)
    MaxResets,      \* bound: calls of reset
    MaxFaults       \* bound: packets lost or repeated, hardware errors, resets

ASSUME DpbAssumption   == DpbSize \in Nat \ {0} /\ Reorder \in 0 .. DpbSize - 1
ASSUME LsbAssumption   == MaxLsb \in {2 ^ n : n \in 4 .. 16}
ASSUME BoundAssumption == MaxLost \in Nat /\ MaxResets \in Nat /\ MaxFaults \in Nat

(* A picture is [type, poc, refs, keep, long, eos_nal]: the NAL unit type; *)
(* its POC; the pictures it refers to, those only kept for later ones, and *)
(* the long-term ones it refers to, each a sequence of places in the       *)
(* stream; and whether an end of sequence NAL unit precedes it.  RASL is   *)
(* RASL_R and TRAIL is TRAIL_R, the pictures others may refer to.          *)
IRAP    == {"IDR", "CRA", "BLA"}
Leading == {"RASL", "RADL"}

INT_MAX == 2147483647
INT_MIN == -2147483647 - 1

RefFlags == {"SHORT_REF", "LONG_REF"}

VARIABLES
    stream,     \* the stream of this behaviour
    next,       \* the place the user puts the next packet from
    s,          \* HEVCContext
    faults,     \* packets lost, hardware errors and resets so far
    truth       \* history: pictures decoded, those spoilt, those marked

vars == <<stream, next, s, faults, truth>>

(* An entry of DPB; used is slot_index # 0xff.  src and run say what the   *)
(* entry holds: a picture of the stream, since which reset, or 0.          *)
NoFrame == [used |-> FALSE, flags |-> {}, poc |-> INT_MAX, sequence |-> 0,
            error_flag |-> FALSE, src |-> 0, run |-> 0]

(* h265d_init.  display is what was put in QUEUE_DISPLAY. *)
Init ==
    /\ stream \in Streams /\ next = 1
    /\ s = [ DPB |-> [i \in 1 .. DpbSize |-> NoFrame],
             seq_decode |-> 0, seq_output |-> 0, poc |-> 0, pocTid0 |-> 0,
             max_ra |-> INT_MAX, miss_ref_flag |-> FALSE, first_nal_type |-> "none",
             ref |-> 0, ok |-> TRUE, display |-> <<>> ]
    /\ faults = [lost |-> 0, repeated |-> 0, errors |-> 0, resets |-> 0, checked |-> TRUE]
    /\ truth = [decoded |-> {}, spoilt |-> {}, marked |-> {}, complete |-> TRUE]

-----------------------------------------------------------------------------
(* h265d_refs.c.  Operators take a context and give the one they leave.    *)

Entries == 1 .. DpbSize

First(S) == CHOOSE i \in S : \A j \in S : i <= j

(* mpp_hevc_unref_frame *)
Unref(f, flags) ==
    IF ~f.used THEN f
    ELSE IF f.flags \ flags = {} THEN NoFrame
         ELSE [f EXCEPT !.flags = @ \ flags]

UnrefAll(c, flags) == [c EXCEPT !.DPB = [i \in Entries |-> Unref(@[i], flags)]]

(* mpp_hevc_clear_refs, mpp_hevc_flush_dpb *)
ClearRefs(c) == UnrefAll(c, RefFlags)
FlushDpb(c)  == UnrefAll(c, RefFlags \cup {"OUTPUT"})

(* alloc_frame and what its callers set; without room it fails. *)
Room(c) == {i \in Entries : ~c.DPB[i].used}

Alloc(c, frame) == [c EXCEPT !.DPB[First(Room(c))] = frame]

(* mpp_hevc_set_new_ref: its slot is the output of the task. *)
SetNewRef(c, src) ==
    LET duplicate == \E i \in Entries : /\ c.DPB[i].used
                                        /\ c.DPB[i].sequence = c.seq_decode
                                        /\ c.DPB[i].poc = c.poc
        frame == [NoFrame EXCEPT !.used = TRUE, !.flags = {"OUTPUT", "SHORT_REF"},
                                 !.poc = c.poc, !.sequence = c.seq_decode,
                                 !.src = src, !.run = faults.resets]
    IN  IF duplicate \/ Room(c) = {} THEN [c EXCEPT !.ok = FALSE]
        ELSE [Alloc(c, frame) EXCEPT !.ref = First(Room(c))]

(* find_ref_idx: first by the low bits, then by the whole POC. *)
Found(c, poc) ==
    LET live == {i \in Entries : c.DPB[i].used /\ c.DPB[i].sequence = c.seq_decode}
        low  == {i \in live : c.DPB[i].poc % MaxLsb = poc}
    IN  IF low # {} THEN low ELSE {i \in live : c.DPB[i].poc = poc}

(* generate_missing_ref *)
Missing(c, poc) ==
    [NoFrame EXCEPT !.used = TRUE, !.poc = poc, !.sequence = c.seq_decode,
                    !.error_flag = TRUE]

(* add_candidate_ref, with mark_ref *)
AddCandidate(c, poc, flag) ==
    LET d == IF Found(c, poc) = {} THEN Alloc(c, Missing(c, poc)) ELSE c
        i == First(Found(d, poc))
    IN  IF ~c.ok \/ (Found(c, poc) = {} /\ Room(c) = {})
        THEN [c EXCEPT !.ok = FALSE]
        ELSE [d EXCEPT !.DPB[i].flags = (@ \ RefFlags) \cup {flag},
                       !.miss_ref_flag = @ \/ d.DPB[i].error_flag]

(* What the slice header says of references: a POC relative to this one,   *)
(* or for long-term references its low bits.                               *)
ShortRps(pic) ==
    [k \in DOMAIN (pic.refs \o pic.keep) |->
        [delta |-> stream[(pic.refs \o pic.keep)[k]].poc - pic.poc]]
LongRps(pic) == [k \in DOMAIN pic.long |-> [lsb |-> stream[pic.long[k]].poc % MaxLsb]]

(* mpp_hevc_frame_rps; an IDR picture has no reference picture set. *)
FrameRps(c, pic) ==
    LET clear == [c EXCEPT !.DPB = [i \in Entries |->
                      [@[i] EXCEPT !.flags = @ \ RefFlags]]]
        short == FoldLeft(LAMBDA d, r : AddCandidate(d, d.poc + r.delta, "SHORT_REF"),
                          clear, ShortRps(pic))
        long  == FoldLeft(LAMBDA d, r : AddCandidate(d, r.lsb, "LONG_REF"),
                          short, LongRps(pic))
    IN  IF pic.type = "IDR" THEN c
        ELSE IF long.ok THEN UnrefAll(long, {}) ELSE long

(* mpp_hevc_compute_poc; the % of C keeps the sign of pocTid0. *)
CRem(a, b) == IF a >= 0 THEN a % b ELSE -((-a) % b)

ComputePoc(c, pic) ==
    LET lsb  == pic.poc % MaxLsb
        prev == CRem(c.pocTid0, MaxLsb)
        msb  == c.pocTid0 - prev
    IN  IF pic.type = "BLA" THEN lsb
        ELSE IF lsb < prev /\ prev - lsb >= MaxLsb \div 2 THEN msb + MaxLsb + lsb
        ELSE IF lsb > prev /\ lsb - prev > MaxLsb \div 2 THEN msb - MaxLsb + lsb
        ELSE msb + lsb

-----------------------------------------------------------------------------
(* Output. *)

Waiting(c, q) ==
    {i \in Entries : "OUTPUT" \in c.DPB[i].flags /\ c.DPB[i].sequence = q}

(* The sequence output has come to: it goes on from one that has nothing   *)
(* to put out, up to the sequence that is decoded.                         *)
OutputSequence(c) ==
    LET ahead == (c.seq_decode - c.seq_output) % 256
        at(k) == (c.seq_output + k) % 256
    IN  at(First({k \in 0 .. ahead : k = ahead \/ Waiting(c, at(k)) # {}}))

(* Mutant: the sequence of the next output is not looked at. *)
OutputFrame_AnySequence(c, flush) ==
    LET w == {i \in Entries : "OUTPUT" \in c.DPB[i].flags}
        i == First({j \in w : \A k \in w : c.DPB[j].poc <= c.DPB[k].poc})
    IN  IF w = {} \/ (~flush /\ Cardinality(w) <= Reorder) THEN c
        ELSE [c EXCEPT !.DPB[i].flags = @ \ {"OUTPUT"},
                       !.display = Append(@, <<c.DPB[i].run, c.DPB[i].src>>)]

(* mpp_hevc_output_frame puts out at most one picture. *)
OutputFrame(c, flush) ==
    LET q == OutputSequence(c)
        d == [c EXCEPT !.seq_output = q]
        w == Waiting(c, q)
        i == First({j \in w : \A k \in w : c.DPB[j].poc <= c.DPB[k].poc})
    IN  IF w = {} \/ (~flush /\ q = c.seq_decode /\ Cardinality(w) <= Reorder)
        THEN d
        ELSE [d EXCEPT !.DPB[i].flags = @ \ {"OUTPUT"},
                       !.display = Append(@, <<c.DPB[i].run, c.DPB[i].src>>)]

(* h265d_flush: until nothing is put out. *)
Flush(c) ==
    FoldLeft(LAMBDA d, i : OutputFrame(d, TRUE), c, [i \in 1 .. DpbSize + 1 |-> i])

-----------------------------------------------------------------------------
(* h265d_parser.c *)

NewSequence(c) == [c EXCEPT !.seq_decode = (@ + 1) % 256, !.max_ra = INT_MAX]

(* hls_slice_header, for the first slice of a picture. *)
SliceHeader(c, pic) ==
    LET start == IF pic.type \in {"IDR", "BLA"} THEN NewSequence(c) ELSE c
        clear == IF pic.type = "IDR" THEN ClearRefs(start) ELSE start
        again == IF pic.type \in IRAP /\ c.miss_ref_flag
                 THEN [clear EXCEPT !.max_ra = INT_MAX, !.miss_ref_flag = FALSE]
                 ELSE clear
        poc   == IF pic.type = "IDR" THEN 0 ELSE ComputePoc(again, pic)
    IN  [again EXCEPT !.poc = poc,
                      !.pocTid0 = IF pic.type \in Leading THEN @ ELSE poc]

(* The random access point decoding starts from. *)
RandomAccess(c, pic) ==
    IF c.max_ra # INT_MAX THEN c
    ELSE CASE pic.type \in {"CRA", "BLA"} -> [c EXCEPT !.max_ra = c.poc]
           [] pic.type = "IDR" -> [c EXCEPT !.max_ra = INT_MIN]
           [] OTHER -> c

(* Pictures from before it are not decoded. *)
Skipped(c, pic) ==
    \/ pic.type = "RASL" /\ c.poc <= c.max_ra
    \/ pic.type \notin IRAP /\ c.poc < c.max_ra

(* A picture with random access that misses references: all others are put *)
(* out, and then it may be.  It is looked for by its POC.                  *)
FlushOthers(c) ==
    LET i == First({j \in Entries : c.DPB[j].poc = c.poc})
        others == Flush([c EXCEPT !.DPB[i].flags = @ \ {"OUTPUT"}])
    IN  [others EXCEPT !.DPB[i].flags = @ \cup {"OUTPUT"}]

(* Mutant: the picture is marked for the user, not for its successors. *)
FrameStart_NoErrorFlag(c, pic, src) ==
    LET rps == FrameRps([c EXCEPT !.miss_ref_flag = FALSE], pic)
        new == SetNewRef(rps, src)
    IN  IF ~rps.ok THEN rps
        ELSE IF ~new.ok \/ ~new.miss_ref_flag THEN new
        ELSE IF pic.type \in IRAP THEN FlushOthers(new)
        ELSE new

(* hevc_frame_start *)
FrameStart(c, pic, src) ==
    LET rps == FrameRps([c EXCEPT !.miss_ref_flag = FALSE], pic)
        new == SetNewRef(rps, src)
    IN  IF ~rps.ok THEN rps
        ELSE IF ~new.ok \/ ~new.miss_ref_flag THEN new
        ELSE IF pic.type \in IRAP THEN FlushOthers(new)
        ELSE [new EXCEPT !.DPB[new.ref].error_flag = TRUE]

(* parser_nal_unit *)
ParserNalUnit(c, pic, src) ==
    LET begin  == IF pic.eos_nal THEN NewSequence(c) ELSE c
        header == RandomAccess(SliceHeader(begin, pic), pic)
        pass   == IF pic.type = "RASL" /\ header.poc > header.max_ra
                  THEN [header EXCEPT !.max_ra = INT_MIN] ELSE header
    IN  IF Skipped(header, pic) THEN header
        ELSE FrameStart([pass EXCEPT !.first_nal_type = pic.type], pic, src)

-----------------------------------------------------------------------------
Fails == faults.lost + faults.repeated + faults.errors + faults.resets < MaxFaults

(* The picture starts a coded video sequence. *)
Starts(n) == stream[n].type \in {"IDR", "BLA"} \/ stream[n].eos_nal

(* What the decoder should have had for the picture, and has. *)
Spoilt(c, pic) ==
    /\ pic.type \notin IRAP
    /\ \E r \in ToSet(pic.refs \o pic.long) :
          LET held == {i \in Entries : c.DPB[i].used /\ c.DPB[i].src = r
                                       /\ c.DPB[i].run = faults.resets
                                       /\ c.DPB[i].flags \cap RefFlags # {}}
          IN  held = {} \/ <<faults.resets, r>> \in truth.spoilt

(* h265d_parse on the packet of picture n. *)
ParsePacket(n) ==
    LET pic == stream[n]
        id  == <<faults.resets, n>>
        c   == ParserNalUnit([s EXCEPT !.ref = 0, !.ok = TRUE], pic, n)
    IN  /\ s' = OutputFrame(c, FALSE)
        /\ truth' = IF c.ref = 0 THEN truth
                    ELSE [truth EXCEPT
                            !.decoded = @ \cup {id}, !.complete = FALSE,
                            !.spoilt = IF Spoilt(c, pic) THEN @ \cup {id} ELSE @ \ {id},
                            !.marked = IF c.miss_ref_flag /\ pic.type \notin IRAP
                                       THEN @ \cup {id} ELSE @ \ {id}]

Parse ==
    /\ next <= Len(stream)
    /\ next' = next + 1
    /\ ParsePacket(next)
    /\ faults' = [faults EXCEPT !.checked = s'.ref = 0]
    /\ UNCHANGED stream

(* The packet put last is put once more; one that starts a sequence would  *)
(* start another, and a BLA picture strand itself (see NoneStranded).      *)
Repeat ==
    /\ next - 1 \in DOMAIN stream /\ Fails
    /\ ~Starts(next - 1)
    /\ ParsePacket(next - 1)
    /\ faults' = [faults EXCEPT !.repeated = @ + 1, !.checked = s'.ref = 0]
    /\ UNCHANGED <<stream, next>>

(* The packet is lost: the loss of a new sequence shows in no header. *)
Lose ==
    /\ next <= Len(stream) /\ Fails /\ faults.lost < MaxLost
    /\ ~Starts(next)
    /\ next' = next + 1
    /\ faults' = [faults EXCEPT !.lost = @ + 1]
    /\ UNCHANGED <<stream, s, truth>>

(* h265d_callback: the hardware reports an error on the picture last       *)
(* parsed, before the next is (the parser waits for the task before).      *)
HardwareError ==
    /\ ~faults.checked /\ Fails
    /\ LET i  == s.ref
           id == <<s.DPB[i].run, s.DPB[i].src>>
       IN  /\ s' = [s EXCEPT !.DPB[i].error_flag = TRUE,
                             !.max_ra = IF s.first_nal_type \in IRAP
                                        THEN INT_MAX ELSE @]
           /\ truth' = [truth EXCEPT !.spoilt = @ \cup {id}, !.marked = @ \cup {id}]
    /\ faults' = [faults EXCEPT !.errors = @ + 1, !.checked = TRUE]
    /\ UNCHANGED <<stream, next>>

(* h265d_reset, and the user goes on from a picture with random access. *)
Reset ==
    /\ Fails /\ faults.resets < MaxResets
    /\ s' = [FlushDpb(Flush(s)) EXCEPT !.max_ra = INT_MAX, !.ref = 0]
    /\ next' \in {n \in DOMAIN stream : stream[n].type \in IRAP}
    /\ faults' = [faults EXCEPT !.resets = @ + 1, !.checked = TRUE]
    /\ truth' = [truth EXCEPT !.complete = TRUE]
    /\ UNCHANGED stream

(* An eos: h265d_flush. *)
Eos ==
    /\ next = Len(stream) + 1
    /\ next' = next + 1
    /\ s' = Flush(s)
    /\ truth' = [truth EXCEPT !.complete = TRUE]
    /\ UNCHANGED <<stream, faults>>

Next == Parse \/ Repeat \/ Lose \/ HardwareError \/ Reset \/ Eos

Spec == Init /\ [][Next]_vars

-----------------------------------------------------------------------------
(* Properties. *)

(* The coded video sequence a picture belongs to. *)
Sequence(n) == Cardinality({k \in 1 .. n : Starts(k)})

Before(a, b) ==
    \/ a = b
    \/ a[1] < b[1]
    \/ a[1] = b[1] /\ Sequence(a[2]) < Sequence(b[2])
    \/ a[1] = b[1] /\ Sequence(a[2]) = Sequence(b[2]) /\ stream[a[2]].poc < stream[b[2]].poc

(* Whatever is lost, fails or is reset, pictures are put out in output     *)
(* order, sequence after sequence and by their counts; one that comes      *)
(* twice comes right after itself (its packet was put twice).  After a     *)
(* flush (an eos, a reset) no decoded picture is left in the buffer.       *)
ShownInOrder ==
    /\ \A i, j \in DOMAIN s.display : i < j => Before(s.display[i], s.display[j])
    /\ truth.complete => truth.decoded = ToSet(s.display)

(* A picture that was decoded from references that were lost, replaced by  *)
(* others or themselves spoilt carries the error mark: nothing spoilt is   *)
(* shown as good, however long the chain of references.                    *)
SpoiltIsMarked == truth.spoilt \subseteq truth.marked

(* The flush at a random access point that misses references leaves no     *)
(* picture behind ("flush other frame output from dpb", comment in         *)
(* hevc_frame_start): a picture that waits is of a sequence that output    *)
(* has still to come to.                                                   *)
NoneStranded ==
    \A i \in Entries : "OUTPUT" \in s.DPB[i].flags =>
        (s.DPB[i].sequence - s.seq_output) % 256 <= (s.seq_decode - s.seq_output) % 256
=============================================================================
