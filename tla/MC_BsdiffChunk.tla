-------------------------- MODULE MC_BsdiffChunk --------------------------
(* Instantiates BsdiffChunk for TLC: two-valued bytes, 2-byte chunks and   *)
(* images of up to 5 bytes, so that a to-image has up to 3 chunks, the     *)
(* last one may be short, and the from-image may be shorter or longer.     *)
EXTENDS BsdiffChunk

MCBytes == {0, 1}
MCMaxLen == 5
MCChunkSize == 2
\* A compressed chunk and a compressed patch may each be the smaller one.
MCCompressedLens == {1, 2}
\* Whole-file compression may beat the diff stream, or lose to it.
MCWholeCompressedLens == {1, 100}
MCIdBits == 16
=============================================================================
