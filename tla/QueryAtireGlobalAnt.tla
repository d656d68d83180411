------------------------- MODULE QueryAtireGlobalAnt -------------------------
(***************************************************************************)
(* The older engine of src/source/query_atire_global.h.  Its add_rsv has   *)
(* the control flow of src/unnamed/part_000 line for line (lazy strip      *)
(* clear, append on old_value == 0 then build_min_heap at L == top_k,      *)
(* min_update on cmp >= 0, min_insert on cmp > 0 after the update); its    *)
(* comparator returns the sign of a - b, which is all any caller tests.    *)
(* What differs:                                                           *)
(*   - the ANT_heap is built over top_k slots (HeapSize = TopK);           *)
(*   - accumulators and accumulator_pointers come from new[] and are not   *)
(*     initialised: only the memset of clean_flags in the constructor      *)
(*     makes the first query correct;                                      *)
(*   - the constructor does not call rewind().                             *)
(* Uninitialised memory is a nondeterministic choice over Garbage values   *)
(* and GarbagePointers.                                                    *)
(***************************************************************************)
EXTENDS Integers

CONSTANTS Documents, TopK, ScoreBits, Scores, MaxAdds, MaxQueries,
          Garbage,          \* values an uninitialised accumulator may hold
          GarbagePointers   \* values an uninitialised pointer slot may hold

VARIABLES accumulators, clean_flags, accumulator_pointers,
          results_list_length, sums, adds, phase, queries

(* The engine of QueryAtireGlobal with a heap of top_k slots, taken       *)
(* through the module of its proofs so that the lemmas proved there apply  *)
(* to E's definitions.                                                     *)
E == INSTANCE QueryAtireGlobal_proofs WITH HeapSize <- TopK, AddAfterBegin <- FALSE

vars == E!vars

(* The constants satisfy the engine's assumptions with HeapSize = TopK. *)
ASSUME EngineAssumption == E!ConstantsAssumption /\ E!PowerAssumption

(* What new[] leaves in the arrays: an uninitialised uint16_t accumulator *)
(* holds some value of its type, and a pointer slot is modelled, like     *)
(* every pointer of the engine, as a cell of the array or null.           *)
ASSUME GarbageAssumption ==
  /\ Garbage \subseteq 0 .. (E!Modulus - 1)
  /\ GarbagePointers \subseteq E!Cells \cup {E!nullptr}

(* A heap of one slot whatever top_k is: an engine that sized its heap    *)
(* apart from top_k.                                                       *)
E1 == INSTANCE QueryAtireGlobal WITH HeapSize <- 1, AddAfterBegin <- FALSE

(* Mutant: the constructor without memset(clean_flags, 0, height). *)
InitNoFlagClear ==
  /\ accumulators \in [E!Cells -> Garbage]
  /\ clean_flags \in [E!Strips -> {0, 1}]
  /\ accumulator_pointers \in [E!Slots -> GarbagePointers]
  /\ results_list_length = 0
  /\ sums = [d \in E!Docs |-> 0]
  /\ adds = 0
  /\ phase = "ready"
  /\ queries = 0

(* The constructor: new[] arrays with whatever they hold, clean_flags      *)
(* zeroed, results_list_length a zero-initialised global.                  *)
Init ==
  /\ accumulators \in [E!Cells -> Garbage]
  /\ clean_flags = [s \in E!Strips |-> 0]
  /\ accumulator_pointers \in [E!Slots -> GarbagePointers]
  /\ results_list_length = 0
  /\ sums = [d \in E!Docs |-> 0]
  /\ adds = 0
  /\ phase = "ready"
  /\ queries = 0

(* Mutant: add_rsv over a heap that does not span top_k slots. *)
add_rsvSmallHeap(docid, score) == E1!add_rsv(docid, score)

(* add_rsv: the same statements as part_000's, over ANT_heap. *)
add_rsv(docid, score) == E!add_rsv(docid, score)

(* rewind(): L = 0 and the clean flags cleared. *)
rewind == E!rewind

(* Mutant: begin() without the call of sort(). *)
beginNoSort == E!beginNoSort

(* begin(): sort(), i.e. top_k_qsort over P[0 .. L). *)
begin == E!begin

(* What the iterator yields. *)
Results == E!Results

Next ==
  \/ \E d \in E!Docs, s \in Scores : add_rsv(d, s)
  \/ rewind
  \/ begin

Spec == Init /\ [][Next]_vars

-----------------------------------------------------------------------------
(* Lazy clearing is sound from construction on: the uninitialised          *)
(* accumulators are never read as scores, because every strip starts      *)
(* clean.                                                                  *)
LazyClearSound == E!LazyClearSound

(* The results list holds exactly the brute-force top-k, with the heap     *)
(* spanning all top_k slots, whatever garbage P held before the first      *)
(* appends.                                                                *)
TrackedIsTopK == E!TrackedIsTopK

(* begin() yields the brute-force top-k in descending order. *)
ResultsMatchBruteForce == E!ResultsMatchBruteForce

=============================================================================
