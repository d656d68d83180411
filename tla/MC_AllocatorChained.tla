------------------------- MODULE MC_AllocatorChained -------------------------
EXTENDS AllocatorChained

(* Requests below, at and above the block size. *)
MC_Requests == {1, 3, 5}

=============================================================================
