------------------------ MODULE MC_QueryAtireGlobal ------------------------
(***************************************************************************)
(* Instances of the ranking engine for TLC.                                *)
(***************************************************************************)
EXTENDS QueryAtireGlobal

(* Five documents: shift 1, strips of 2 cells, 3 strips (6 cells), so a   *)
(* document shares its strip with a neighbour and the last strip is the   *)
(* extra one the height formula adds.                                      *)
MC_Documents == 5

(* Impacts 1 and 2 make equal totals (tie-breaks) and overtaking common. *)
MC_Scores == {1, 2}

(* The constructor's default, documents = 1024: shift 5, strips of 32     *)
(* cells, 33 strips.                                                       *)
MC_DefaultDocuments == 1024
=============================================================================
