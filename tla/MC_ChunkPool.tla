---------------------------- MODULE MC_ChunkPool ----------------------------
(* Instantiates ChunkPool for TLC: two CPUs, -j left at 0, set to one, or  *)
(* set above the CPU count, and up to three chunks, so that there are     *)
(* more jobs than workers.                                                *)
EXTENDS ChunkPool

MCCpuCount == 2
MCJobsArgs == {0, 1, 3}
MCMaxChunks == 3
=============================================================================
