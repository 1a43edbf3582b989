--------------------------- MODULE MCBufferGroups ---------------------------
(* BufferGroups for TLC: the limits a user configures, and the symmetry of *)
(* the addresses of buffers.                                               *)
EXTENDS BufferGroups, TLC

(* A group starts without limits; this one admits both sizes. *)
MCLimits == {<<2, 2>>}

Addresses == Permutations(Buffers)
=============================================================================
