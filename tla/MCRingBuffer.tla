---------------------------- MODULE MCRingBuffer ----------------------------
(* Values of the constants of RingBuffer for TLC.                           *)
EXTENDS RingBuffer

\* -1, the rings of two buffers, and one index too many.
AllIndices == -1 .. 2
=============================================================================
