----------------------- MODULE QueryAtireGlobal_proofs -----------------------
(***************************************************************************)
(* Proofs about the ranking engine, for every value of the constants that  *)
(* satisfies the module's assumptions.                                     *)
(***************************************************************************)
EXTENDS QueryAtireGlobal, TLAPS

(* What a slot of the pointer array may hold. *)
PtrT == Cells \cup {nullptr}

(***************************************************************************)
(* Facts about the geometry of the accumulator table.                      *)
(***************************************************************************)
LEMMA Geometry ==
  /\ Modulus \in Nat \ {0}
  /\ accumulators_width \in Nat \ {0}
  /\ accumulators_height \in Nat
  /\ Docs \subseteq Cells
  /\ \A d \in Docs : Strip(d) \in Strips
  /\ HeapSlots \subseteq Slots
  /\ Scores \subseteq Nat
<1>1. Modulus \in Nat \ {0} /\ accumulators_width \in Nat \ {0}
  BY PowerAssumption
<1>7. accumulators_height \in Nat
  BY <1>1, ConstantsAssumption DEF accumulators_height
<1>2. Documents <= accumulators_width * accumulators_height
  BY <1>1, ConstantsAssumption DEF accumulators_height
<1>3. Docs \subseteq Cells
  BY <1>1, <1>2, <1>7, ConstantsAssumption DEF Docs, Cells
<1>4. \A d \in Docs : Strip(d) \in Strips
  BY <1>1, ConstantsAssumption DEF Docs, Strip, Strips, accumulators_height
<1>5. HeapSlots \subseteq Slots
  BY ConstantsAssumption DEF HeapSlots, Slots
<1>6. Scores \subseteq Nat
  BY <1>1, ConstantsAssumption
<1>. QED
  BY <1>1, <1>3, <1>4, <1>5, <1>6, <1>7

(* The cells memset clears for strip s are exactly the cells of strip s. *)
LEMMA StripCellsExact ==
  ASSUME NEW s \in Nat, NEW c \in Nat
  PROVE  c \in StripCells(s) <=> Strip(c) = s
BY Geometry DEF StripCells, Strip

(***************************************************************************)
(* Types of the helpers.                                                   *)
(***************************************************************************)
LEMMA TouchType ==
  ASSUME TypeOK, NEW docid \in Docs
  PROVE  Touch(docid) \in [Cells -> 0 .. (Modulus - 1)]
BY Geometry DEF Touch, TypeOK

LEMMA SiftDownType ==
  ASSUME NEW v, NEW p \in [Slots -> PtrT], NEW i, NEW x \in Cells
  PROVE  SiftDown(v, p, i, x) \in [Slots -> PtrT]
<1> SUFFICES ASSUME NEW j \in Slots
             PROVE  (IF j < HeapSize /\ OnSiftPath(v, p, i, x, j)
                     THEN IF SinksBelow(v, p, x, j) THEN p[MinChild(v, p, j)] ELSE x
                     ELSE p[j]) \in PtrT
  BY DEF SiftDown
<1>1. SinksBelow(v, p, x, j) => MinChild(v, p, j) \in Slots
  BY ConstantsAssumption DEF SinksBelow, MinChild, Slots
<1>. QED
  BY <1>1 DEF PtrT

LEMMA PromoteType ==
  ASSUME NEW v, NEW p \in [Slots -> PtrT], NEW x \in Cells
  PROVE  promote(v, p, x) \in [Slots -> PtrT]
BY SiftDownType DEF promote

LEMMA PushBackType ==
  ASSUME NEW v, NEW p \in [Slots -> PtrT], NEW x \in Cells
  PROVE  push_back(v, p, x) \in [Slots -> PtrT]
BY SiftDownType DEF push_back

(* Rearranging the first n slots of p by a permutation keeps p's type. *)
LEMMA ArrangeType ==
  ASSUME NEW p \in [Slots -> PtrT], NEW n \in 0 .. TopK,
         NEW f \in Bijection(0 .. (n - 1), 0 .. (n - 1))
  PROVE  [s \in Slots |-> IF s < n THEN p[f[s]] ELSE p[s]] \in [Slots -> PtrT]
<1>1. f \in [0 .. (n - 1) -> 0 .. (n - 1)]
  BY DEF Bijection, Injection
<1>2. \A s \in Slots : s < n => f[s] \in Slots
  BY <1>1, ConstantsAssumption DEF Slots
<1>. QED
  BY <1>2

LEMMA MakeHeapType ==
  ASSUME NEW v, NEW p \in [Slots -> PtrT]
  PROVE  make_heap(v, p) \subseteq [Slots -> PtrT]
<1> SUFFICES ASSUME NEW q \in make_heap(v, p) PROVE q \in [Slots -> PtrT]
  OBVIOUS
<1>1. PICK f \in Bijection(HeapSlots, HeapSlots) :
        q = [s \in Slots |-> IF s < HeapSize THEN p[f[s]] ELSE p[s]]
  BY DEF make_heap
<1>2. HeapSize \in 0 .. TopK /\ HeapSlots = 0 .. (HeapSize - 1)
  BY ConstantsAssumption DEF HeapSlots
<1>. QED
  BY <1>1, <1>2, ArrangeType

LEMMA SortType ==
  ASSUME NEW v, NEW p \in [Slots -> PtrT], NEW n \in 0 .. TopK
  PROVE  top_k_qsort(v, p, n) \subseteq [Slots -> PtrT]
<1> SUFFICES ASSUME NEW q \in top_k_qsort(v, p, n) PROVE q \in [Slots -> PtrT]
  OBVIOUS
<1>1. PICK f \in Bijection(0 .. (n - 1), 0 .. (n - 1)) :
        q = [s \in Slots |-> IF s < n THEN p[f[s]] ELSE p[s]]
  BY DEF top_k_qsort
<1>. QED
  BY <1>1, ArrangeType

(***************************************************************************)
(* Type correctness.                                                       *)
(***************************************************************************)

(* The engine's state keeps its types: accumulators stay ACCUMULATOR_TYPE *)
(* values, L never exceeds top_k and P only ever holds cells or nullptr,   *)
(* whatever add_rsv, promote, push_back, make_heap, the sort and rewind do.*)
LEMMA TypeStep == TypeOK /\ [Next]_vars => TypeOK'
<1>2. TypeOK /\ [Next]_vars => TypeOK'
  <2> SUFFICES ASSUME TypeOK, [Next]_vars PROVE TypeOK'
    OBVIOUS
  <2>1. ASSUME NEW d \in Docs, NEW s \in Scores, add_rsv(d, s)
        PROVE  TypeOK'
    <3> DEFINE touched == Touch(d)
               updated == [touched EXCEPT ![d] = (touched[d] + s) % Modulus]
    <3>1. touched \in [Cells -> 0 .. (Modulus - 1)]
      BY <2>1, TouchType
    <3>2. d \in Cells /\ s \in Nat /\ Strip(d) \in Strips
      BY Geometry
    <3>3. updated \in [Cells -> 0 .. (Modulus - 1)]
      BY <3>1, <3>2, Geometry
    <3>4. /\ accumulators' = updated
          /\ clean_flags' = [clean_flags EXCEPT ![Strip(d)] = 1]
          /\ PlonkIn(touched, updated, d) \/ UpdateInHeap(touched, updated, d)
                \/ MaybeInsert(touched, updated, d)
          /\ sums' = [sums EXCEPT ![d] = (@ + s) % Modulus]
          /\ adds' = adds + 1
          /\ phase' = "accumulating"
          /\ queries' = queries
      BY <2>1 DEF add_rsv
    <3>5. accumulator_pointers \in [Slots -> PtrT]
      BY DEF TypeOK, PtrT
    <3>6. /\ accumulator_pointers' \in [Slots -> PtrT]
          /\ results_list_length' \in 0 .. TopK
      <4>1. CASE PlonkIn(touched, updated, d)
        <5> DEFINE appended ==
                     IF touched[d] = 0
                     THEN [accumulator_pointers EXCEPT ![results_list_length] = d]
                     ELSE accumulator_pointers
                   length == IF touched[d] = 0 THEN results_list_length + 1
                             ELSE results_list_length
        <5>1. appended \in [Slots -> PtrT]
          BY <3>2, <3>5 DEF PtrT
        <5>2. make_heap(updated, appended) \subseteq [Slots -> PtrT]
          BY <5>1, MakeHeapType
        <5>3. /\ results_list_length < TopK
              /\ results_list_length' = length
              /\ IF length = TopK
                 THEN accumulator_pointers' \in make_heap(updated, appended)
                 ELSE accumulator_pointers' = appended
          BY <4>1 DEF PlonkIn
        <5>4. results_list_length' \in 0 .. TopK
          BY <5>3, ConstantsAssumption DEF TypeOK
        <5>5. accumulator_pointers' \in [Slots -> PtrT]
          BY <5>1, <5>2, <5>3
        <5>. QED
          BY <5>4, <5>5
      <4>2. CASE UpdateInHeap(touched, updated, d)
        BY <4>2, <3>2, <3>5, PromoteType DEF UpdateInHeap, TypeOK
      <4>3. CASE MaybeInsert(touched, updated, d)
        BY <4>3, <3>2, <3>5, PushBackType DEF MaybeInsert, TypeOK
      <4>. QED
        BY <3>4, <4>1, <4>2, <4>3
    <3>7. sums' \in [Docs -> 0 .. (Modulus - 1)]
      BY <3>2, <3>4, Geometry DEF TypeOK
    <3>8. clean_flags' \in [Strips -> {0, 1}]
      BY <3>4 DEF TypeOK
    <3>9. adds' \in Nat /\ queries' \in Nat
          /\ phase' \in {"ready", "accumulating", "finalised"}
      BY <3>4 DEF TypeOK
    <3>. QED
      BY <3>3, <3>4, <3>6, <3>7, <3>8, <3>9 DEF TypeOK, PtrT
  <2>2. CASE rewind
    BY <2>2, Geometry, ConstantsAssumption DEF rewind, TypeOK
  <2>3. CASE begin
    <3>1. accumulator_pointers \in [Slots -> PtrT]
      BY DEF TypeOK, PtrT
    <3>. QED
      BY <2>3, <3>1, SortType DEF begin, TypeOK, PtrT
  <2>4. CASE UNCHANGED vars
    BY <2>4 DEF vars, TypeOK
  <2>. QED
    BY <2>1, <2>2, <2>3, <2>4 DEF Next
<1>. QED
  BY <1>2

THEOREM TypeCorrect == Spec => []TypeOK
<1>1. Init => TypeOK
  BY Geometry, ConstantsAssumption DEF Init, TypeOK, Slots, Strips
<1>. QED
  BY <1>1, TypeStep, PTL DEF Spec

(***************************************************************************)
(* Lazy strip clearing.                                                    *)
(***************************************************************************)

(* The inductive invariant behind LazyClearSound.  A strip left clean     *)
(* reads as 0, so by LazyClearSound its documents have no score of this   *)
(* query: that is what lets add_rsv zero the whole strip on first touch.  *)
LazyClearInv == TypeOK /\ LazyClearSound

(* What add_rsv's "make sure the accumulator exists" leaves in a document  *)
(* of the touched strip: its score of this query.                          *)
LEMMA TouchSameStrip ==
  ASSUME LazyClearInv, NEW d \in Docs, NEW e \in Docs, Strip(e) = Strip(d)
  PROVE  Touch(d)[e] = sums[e]
<1>1. e \in Cells /\ Strip(d) \in Nat /\ e \in Nat
  BY Geometry DEF Strips, Docs
<1>2. CASE clean_flags[Strip(d)] = 0
  <2>1. e \in StripCells(Strip(d))
    BY <1>1, StripCellsExact
  <2>2. Touch(d)[e] = 0
    BY <1>1, <1>2, <2>1 DEF Touch
  <2>3. sums[e] = 0
    BY <1>2 DEF LazyClearInv, LazyClearSound, Logical, RefScore
  <2>. QED
    BY <2>2, <2>3
<1>3. CASE clean_flags[Strip(d)] # 0
  <2>1. clean_flags[Strip(d)] = 1
    BY <1>3, Geometry DEF LazyClearInv, TypeOK
  <2>2. Touch(d)[e] = accumulators[e]
    BY <1>3 DEF Touch
  <2>. QED
    BY <2>1, <2>2 DEF LazyClearInv, LazyClearSound, Logical, RefScore
<1>. QED
  BY <1>2, <1>3

(* ... and leaves every other strip alone. *)
LEMMA TouchOtherStrip ==
  ASSUME TypeOK, NEW d \in Docs, NEW e \in Docs, Strip(e) # Strip(d)
  PROVE  Touch(d)[e] = accumulators[e]
<1>1. e \in Cells /\ Strip(d) \in Nat /\ e \in Nat
  BY Geometry DEF Strips, Docs
<1>2. e \notin StripCells(Strip(d))
  BY <1>1, StripCellsExact
<1>. QED
  BY <1>1, <1>2 DEF Touch

(* Every step of the engine keeps LazyClearInv: add_rsv zeroes a clean  *)
(* strip before it adds, rewind marks every strip clean and zeroes the   *)
(* reference sums, begin changes none of them.                           *)
LEMMA LazyClearStep == LazyClearInv /\ [Next]_vars => LazyClearInv'
<1> SUFFICES ASSUME LazyClearInv, [Next]_vars PROVE LazyClearInv'
  OBVIOUS
<1>0. TypeOK'
  BY TypeStep DEF LazyClearInv
<1>1. ASSUME NEW d \in Docs, NEW s \in Scores, add_rsv(d, s)
      PROVE  LazyClearInv'
  <2> DEFINE touched == Touch(d)
             updated == [touched EXCEPT ![d] = (touched[d] + s) % Modulus]
  <2>1. /\ accumulators' = updated
        /\ clean_flags' = [clean_flags EXCEPT ![Strip(d)] = 1]
        /\ sums' = [sums EXCEPT ![d] = (@ + s) % Modulus]
    BY <1>1 DEF add_rsv
  <2>2. d \in Cells /\ Strip(d) \in Strips /\ Docs \subseteq Cells
    BY Geometry
  <2>3. touched \in [Cells -> 0 .. (Modulus - 1)]
    BY TouchType DEF LazyClearInv
  <2>4. ASSUME NEW e \in Docs, Strip(e) = Strip(d)
        PROVE  accumulators'[e] = sums'[e] /\ clean_flags'[Strip(e)] = 1
    <3>1. clean_flags'[Strip(e)] = 1
      BY <2>1, <2>2, <2>4 DEF LazyClearInv, TypeOK
    <3>2. CASE e = d
      BY <2>1, <2>2, <2>3, <3>2, TouchSameStrip DEF LazyClearInv, TypeOK
    <3>3. CASE e # d
      BY <2>1, <2>2, <2>3, <2>4, <3>3, TouchSameStrip DEF LazyClearInv, TypeOK
    <3>. QED
      BY <3>1, <3>2, <3>3
  <2>5. ASSUME NEW e \in Docs, Strip(e) # Strip(d)
        PROVE  /\ accumulators'[e] = accumulators[e]
               /\ clean_flags'[Strip(e)] = clean_flags[Strip(e)]
               /\ sums'[e] = sums[e]
    BY <2>1, <2>2, <2>3, <2>5, TouchOtherStrip, Geometry
       DEF LazyClearInv, TypeOK
  <2>6. LazyClearSound'
    BY <2>4, <2>5 DEF LazyClearInv, LazyClearSound, Logical, RefScore
  <2>. QED
    BY <1>0, <2>6 DEF LazyClearInv
<1>2. CASE rewind
  BY <1>0, <1>2, Geometry
     DEF rewind, LazyClearInv, LazyClearSound, Logical, RefScore
<1>3. CASE begin
  BY <1>0, <1>3 DEF begin, LazyClearInv, LazyClearSound,
                    Logical, RefScore
<1>4. CASE UNCHANGED vars
  BY <1>0, <1>4 DEF vars, LazyClearInv, LazyClearSound,
                    Logical, RefScore
<1>. QED
  BY <1>1, <1>2, <1>3, <1>4 DEF Next

(* The lazy-clearing invariant holds in every state. *)
LEMMA LazyClearInvariant == Spec => []LazyClearInv
<1>1. Init => LazyClearInv
  BY Geometry, TypeCorrect, ConstantsAssumption
     DEF Init, LazyClearInv, TypeOK, LazyClearSound,
         Logical, RefScore, Slots, Strips
<1>. QED
  BY <1>1, LazyClearStep, PTL DEF Spec

(* Lazy strip clearing is sound: across any number of rewinds, with stale  *)
(* values left in the accumulator array and a strip zeroed only on the     *)
(* first add_rsv that touches it, every document reads as the sum of the   *)
(* scores add_rsv added to it since the last rewind.  clean_flags has one  *)
(* flag per strip here; part_000's has 10, so this is the code's behaviour *)
(* only while accumulators_height <= 10 (see CleanFlagsInBounds).          *)
THEOREM LazyClearCorrect == Spec => []LazyClearSound
BY LazyClearInvariant, PTL DEF LazyClearInv

=============================================================================
