----------------------- MODULE QueryAtireGlobalAnt_proofs -----------------------
(***************************************************************************)
(* Lazy clearing in the older engine of query_atire_global.h, for every    *)
(* number of documents, top_k and accumulator width: its constructor      *)
(* leaves the accumulators and pointer slots as new[] returned them and   *)
(* zeroes only clean_flags, and that is enough for no query to read an     *)
(* uninitialised accumulator as a score.  The engine's steps are those of *)
(* QueryAtireGlobal with a heap of top_k slots, so the step lemma proved  *)
(* there carries over through the instance; only the initial states need  *)
(* an argument of their own.                                               *)
(***************************************************************************)
EXTENDS QueryAtireGlobalAnt, TLAPS

(* Every state the constructor can leave satisfies the lazy-clearing       *)
(* invariant: whatever garbage the accumulators hold, every strip is       *)
(* clean, so every document reads as 0, its reference sum.                 *)
LEMMA AntInitInv == Init => E!LazyClearInv
<1> SUFFICES ASSUME Init PROVE E!LazyClearInv
  OBVIOUS
<1>0. TopK \in Nat
  BY EngineAssumption DEF E!ConstantsAssumption
<1>1. E!TypeOK
  <2>1. E!Modulus \in Nat \ {0}
    BY EngineAssumption DEF E!PowerAssumption
  <2>2. accumulators \in [E!Cells -> 0 .. (E!Modulus - 1)]
    BY GarbageAssumption DEF Init
  <2>3. accumulator_pointers \in [E!Slots -> E!Cells \cup {E!nullptr}]
    BY GarbageAssumption DEF Init
  <2>4. sums \in [E!Docs -> 0 .. (E!Modulus - 1)]
    BY <2>1 DEF Init
  <2>5. clean_flags \in [E!Strips -> {0, 1}]
    BY DEF Init
  <2>6. results_list_length \in 0 .. TopK
    BY <1>0 DEF Init
  <2>. QED
    BY <2>2, <2>3, <2>4, <2>5, <2>6 DEF Init, E!TypeOK
<1>2. E!LazyClearSound
  <2> SUFFICES ASSUME NEW d \in E!Docs PROVE E!Logical(d) = E!RefScore(d)
    BY DEF E!LazyClearSound
  <2>1. E!Strip(d) \in E!Strips
    BY E!Geometry, EngineAssumption
  <2>2. clean_flags[E!Strip(d)] = 0 /\ sums[d] = 0
    BY <2>1 DEF Init
  <2>. QED
    BY <2>2 DEF E!Logical, E!RefScore
<1>. QED
  BY <1>1, <1>2 DEF E!LazyClearInv

(* Lazy clearing is sound from construction on: across any number of      *)
(* rewinds, no add_rsv and no iterator reads a value new[] left in the    *)
(* accumulator array, because every strip starts clean and add_rsv zeroes *)
(* a clean strip before it adds to it.                                     *)
THEOREM AntLazyClearCorrect == Spec => []LazyClearSound
<1>1. E!LazyClearInv /\ [Next]_vars => E!LazyClearInv'
  <2>1. Next <=> E!Next
    BY DEF Next, add_rsv, rewind, begin, E!Next
  <2>. QED
    BY <2>1, E!LazyClearStep, EngineAssumption DEF vars
<1>2. E!LazyClearInv => LazyClearSound
  BY DEF E!LazyClearInv, LazyClearSound
<1>. QED
  BY AntInitInv, <1>1, <1>2, PTL DEF Spec

=============================================================================
