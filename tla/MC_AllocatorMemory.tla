------------------------- MODULE MC_AllocatorMemory -------------------------
(* Model values for the single-threaded arena. *)
EXTENDS AllocatorMemory

(* Requests of one to three bytes: enough to fill a 6-byte buffer in       *)
(* several ways and to leave used unaligned for realign.                  *)
MC_Requests == {1, 2, 3}

(* A request near SIZE_MAX, as a size computed by an unsigned subtraction *)
(* that went below zero would be.                                         *)
MC_WrapRequests == {1, 2, SizeMax - 1}

=============================================================================
