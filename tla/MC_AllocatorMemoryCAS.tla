----------------------- MODULE MC_AllocatorMemoryCAS -----------------------
(* Model values for the thread-safe arena. *)
EXTENDS AllocatorMemoryCAS, TLC

CONSTANTS t1, t2, t3

MC_Threads == {t1, t2, t3}

(* Two threads, for the temporal properties (checked without symmetry). *)
MC_TwoThreads == {t1, t2}

(* Threads are interchangeable. *)
MC_Symmetry == Permutations(MC_Threads)

(* One- and two-byte requests, unaligned or on a 2-byte boundary: an odd *)
(* cursor then needs padding.                                             *)
MC_Requests == {1, 2}
MC_Alignments == {1, 2}

=============================================================================
