------------------------- MODULE AllocatorMemory_proofs -------------------------
(***************************************************************************)
(* Proofs about the single-threaded arena of allocator_memory.cpp, for    *)
(* every capacity, alignment boundary and set of requests whose sums do   *)
(* not wrap size_t (NoWrap): used stays below allocated plus one padding,  *)
(* and the blocks malloc hands out lie in the buffer and never overlap,    *)
(* whatever realign does to used in between.                               *)
(***************************************************************************)
EXTENDS AllocatorMemory, TLAPS

(* realign's padding brings used up to the next multiple of the boundary, *)
(* by less than one boundary.                                               *)
LEMMA AlignUp ==
  ASSUME NEW u \in Nat, NEW a \in Nat \ {0}, u % a # 0
  PROVE  /\ a - (u % a) \in 1 .. (a - 1)
         /\ (u + (a - (u % a))) % a = 0
<1>1. u % a \in 1 .. (a - 1)
  OBVIOUS
<1>2. u = a * (u \div a) + (u % a)
  OBVIOUS
<1>3. u + (a - (u % a)) = a * ((u \div a) + 1)
  BY <1>2
<1>4. (u \div a) + 1 \in Nat
  OBVIOUS
<1>5. (a * ((u \div a) + 1)) % a = 0
  BY <1>4
<1>. QED
  BY <1>1, <1>3, <1>5

(* Under NoWrap, a sum below 2^WordBits is its own residue. *)
LEMMA NoWrapMod ==
  ASSUME NoWrap, NEW x \in Nat, x < SizeMax
  PROVE  x % SizeMax = x
BY DEF NoWrap

(***************************************************************************)
(* The inductive invariant MemInv.                                         *)
(***************************************************************************)

LEMMA MemInvStep ==
  ASSUME NoWrap, MemInv, [Next]_vars
  PROVE  MemInv'
<1>0. used \in 0 .. (Capacity + AlignmentBoundary - 1)
  BY DEF MemInv, TypeOK
<1>b. blocks \subseteq [at : Nat, size : Nat]
  BY DEF MemInv, TypeOK, Block
<1>c. exited \in BOOLEAN /\ rewinds \in 0 .. MaxRewinds
  BY DEF MemInv, TypeOK
<1>d. used > Capacity => used % AlignmentBoundary = 0
  BY DEF MemInv
<1>e. \A b \in blocks : b.at + b.size <= used /\ b.at + b.size <= Capacity
  BY DEF MemInv
<1>f. BlocksDisjoint
  BY DEF MemInv
<1>a. /\ Capacity \in Nat
      /\ AlignmentBoundary \in Nat \ {0}
      /\ MaxRewinds \in Nat
      /\ SizeMax \in Nat \ {0}
      /\ Capacity + AlignmentBoundary <= SizeMax
  BY AllocatorAssumption DEF NoWrap
<1>1. ASSUME NEW bytes \in Requests, malloc(bytes)
      PROVE  MemInv'
  <2>1. bytes \in Nat /\ Capacity + AlignmentBoundary + bytes <= SizeMax
    BY AllocatorAssumption DEF NoWrap
  <2>2. (used + bytes) % SizeMax = used + bytes
    BY <1>0, <1>a, <2>1, NoWrapMod
  <2>3. CASE used + bytes > Capacity
    <3>1. UNCHANGED << used, blocks, rewinds >> /\ exited' = TRUE
      BY <1>1, <2>2, <2>3 DEF malloc
    <3>. QED
      BY <1>0, <1>b, <1>c, <1>d, <1>e, <1>f, <3>1 DEF MemInv, TypeOK, Block, BlocksDisjoint
  <2>4. CASE ~(used + bytes > Capacity)
    <3>. DEFINE nb == [at |-> used, size |-> bytes]
    <3>1. /\ blocks' = blocks \cup {nb}
          /\ used' = used + bytes
          /\ UNCHANGED << exited, rewinds >>
      BY <1>1, <2>2, <2>4 DEF malloc, nb
    <3>2. used' \in 0 .. Capacity
      BY <1>0, <1>a, <2>1, <2>4, <3>1
    <3>3. blocks' \subseteq Block
      BY <1>0, <1>b, <2>1, <3>1 DEF Block, nb
    <3>4. \A b \in blocks' : b.at + b.size <= used' /\ b.at + b.size <= Capacity
      <4>1. \A b \in blocks : b.at + b.size <= used'
        BY <1>0, <1>b, <1>e, <2>1, <3>1
      <4>2. nb.at + nb.size <= used' /\ nb.at + nb.size <= Capacity
        BY <3>1, <3>2 DEF nb
      <4>. QED
        BY <1>e, <3>1, <4>1, <4>2
    <3>5. \A b \in blocks : b.at + b.size <= nb.at
      BY <1>e DEF nb
    <3>6. BlocksDisjoint'
      BY <1>f, <3>1, <3>5 DEF BlocksDisjoint
    <3>7. used' > Capacity => used' % AlignmentBoundary = 0
      BY <1>a, <3>2
    <3>8. used' \in 0 .. (Capacity + AlignmentBoundary - 1)
      BY <1>a, <3>2
    <3>. QED
      BY <1>c, <3>1, <3>3, <3>4, <3>6, <3>7, <3>8 DEF MemInv, TypeOK
  <2>. QED
    BY <2>3, <2>4
<1>2. CASE realign
  <2>1. used < SizeMax /\ used \in Nat
    BY <1>0, <1>a
  <2>0. UNCHANGED << blocks, exited, rewinds >>
    BY <1>2 DEF realign
  <2>9. blocks' = blocks
    BY <2>0
  <2>2. CASE used % AlignmentBoundary = 0
    <3>1. used' = (used + 0) % SizeMax
      BY <1>2, <2>2 DEF realign
    <3>2. used' = used
      BY <3>1, <2>1, <1>a, NoWrapMod
    <3>. QED
      BY <1>0, <1>b, <1>c, <1>d, <1>e, <1>f, <2>0, <3>2 DEF MemInv, TypeOK, Block, BlocksDisjoint
  <2>3. CASE used % AlignmentBoundary # 0
    <3>. DEFINE pad == AlignmentBoundary - (used % AlignmentBoundary)
    <3>1. pad \in 1 .. (AlignmentBoundary - 1) /\ (used + pad) % AlignmentBoundary = 0
      BY <1>a, <2>1, <2>3, AlignUp DEF pad
    <3>2. used <= Capacity
      <4>1. ~(used > Capacity)
        BY <1>d, <2>3
      <4>. QED
        BY <4>1, <2>1, <1>a
    <3>3. used + pad < SizeMax /\ used + pad \in Nat
      BY <1>0, <1>a, <3>1, <3>2
    <3>4. used' = used + pad
      <4>1. used' = (used + pad) % SizeMax
        BY <1>2, <2>3 DEF realign, pad
      <4>. QED
        BY <4>1, <3>3, <1>a, NoWrapMod
    <3>6. used' \in 0 .. (Capacity + AlignmentBoundary - 1)
      BY <1>a, <3>1, <3>2, <3>4, <2>1
    <3>7. used' > Capacity => used' % AlignmentBoundary = 0
      BY <3>1, <3>4
    <3>8. \A b \in blocks' : b.at + b.size <= used' /\ b.at + b.size <= Capacity
      <4>1. used <= used'
        BY <3>1, <3>4, <2>1
      <4>2. SUFFICES ASSUME NEW b \in blocks'
                     PROVE  b.at + b.size <= used' /\ b.at + b.size <= Capacity
        OBVIOUS
      <4>3. b \in blocks
        BY <2>9
      <4>4. b.at \in Nat /\ b.size \in Nat
        BY <1>b, <4>3
      <4>5. b.at + b.size <= used /\ b.at + b.size <= Capacity
        BY <1>e, <4>3
      <4>6. used' \in Nat
        BY <3>3, <3>4
      <4>. QED
        BY <4>1, <4>4, <4>5, <4>6, <2>1
    <3>. QED
      BY <1>b, <1>c, <1>f, <2>0, <3>6, <3>7, <3>8 DEF MemInv, TypeOK, Block, BlocksDisjoint
  <2>. QED
    BY <2>2, <2>3
<1>3. CASE rewind
  <2>1. used' = 0 /\ blocks' = {} /\ exited' = exited /\ rewinds' = rewinds + 1
    BY <1>3 DEF rewind
  <2>2. rewinds' \in 0 .. MaxRewinds
    BY <1>3, <1>c, <1>a, <2>1 DEF rewind
  <2>3. used' \in 0 .. (Capacity + AlignmentBoundary - 1) /\ ~(used' > Capacity)
    BY <1>a, <2>1
  <2>. QED
    BY <1>c, <2>1, <2>2, <2>3 DEF MemInv, TypeOK, BlocksDisjoint
<1>4. CASE UNCHANGED vars
  BY <1>0, <1>b, <1>c, <1>d, <1>e, <1>f, <1>4 DEF vars, MemInv, TypeOK, Block, BlocksDisjoint
<1>. QED
  BY <1>1, <1>2, <1>3, <1>4 DEF Next

(* The arena over a caller's buffer keeps its invariant in every state:   *)
(* used passes allocated only right after realign aligned it, and every    *)
(* block handed out since the last rewind ends below used and allocated   *)
(* and overlaps no other.                                                  *)
THEOREM MemorySafe ==
  ASSUME NoWrap
  PROVE  Spec => []MemInv
<1>1. Init => MemInv
  <2>. SUFFICES ASSUME Init PROVE MemInv
    OBVIOUS
  <2>1. Capacity \in Nat /\ AlignmentBoundary \in Nat \ {0} /\ MaxRewinds \in Nat
    BY AllocatorAssumption
  <2>2. used \in 0 .. (Capacity + AlignmentBoundary - 1) /\ ~(used > Capacity)
    BY <2>1 DEF Init
  <2>3. rewinds \in 0 .. MaxRewinds
    BY <2>1 DEF Init
  <2>4. exited \in BOOLEAN
    BY DEF Init
  <2>5. blocks = {}
    BY DEF Init
  <2>. QED
    BY <2>2, <2>3, <2>4, <2>5 DEF MemInv, TypeOK, BlocksDisjoint
<1>2. MemInv /\ [Next]_vars => MemInv'
  BY MemInvStep
<1>. QED
  BY <1>1, <1>2, PTL DEF Spec

(* used never passes allocated by more than realign's padding: the bound  *)
(* the code's comment on realign ("will simply cause failure at the next  *)
(* call to malloc()") relies on.                                           *)
THEOREM TypeCorrect ==
  ASSUME NoWrap
  PROVE  Spec => []TypeOK
BY MemorySafe, PTL DEF MemInv

(* Every block malloc hands out lies inside the caller's buffer, even     *)
(* after realign pushed used past allocated.                               *)
THEOREM BlocksInBufferCorrect ==
  ASSUME NoWrap
  PROVE  Spec => []BlocksInBuffer
<1>1. MemInv => BlocksInBuffer
  BY DEF MemInv, BlocksInBuffer
<1>. QED
  BY <1>1, MemorySafe, PTL

(* Blocks handed out since the last rewind never share a byte. *)
THEOREM BlocksDisjointCorrect ==
  ASSUME NoWrap
  PROVE  Spec => []BlocksDisjoint
BY MemorySafe, PTL DEF MemInv

=============================================================================
