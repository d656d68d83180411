----------------------- MODULE MC_QueryAtireGlobalAnt -----------------------
(* Model values for the older engine. *)
EXTENDS QueryAtireGlobalAnt

(* Four documents: width 2, three strips of two cells. *)
MC_Documents == 4

MC_Scores == {1, 2}

(* Uninitialised cells hold 0 or a large stale value. *)
MC_Garbage == {0, 9}

(* An uninitialised pointer slot holds null or points at cell 1. *)
MC_GarbagePointers == {-1, 1}

=============================================================================
