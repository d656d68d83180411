---------------------- MODULE AllocatorMemoryCAS_proofs ----------------------
(***************************************************************************)
(* Proofs about the thread-safe arena, for every number of threads, every  *)
(* capacity and every set of requests and alignments whose sums cannot    *)
(* wrap (NoWrap):                                                          *)
(*   - the CAS loop implements the atomic arena of spec 4.1;              *)
(*   - the atomic arena never hands out overlapping blocks or blocks past  *)
(*     the buffer, hence neither does the CAS loop.                        *)
(***************************************************************************)
EXTENDS AllocatorMemoryCAS, TLAPS

(* The padding is less than the alignment, and the CAS loop's special case *)
(* for alignment 1 computes the atomic arena's padding.                    *)
LEMMA PaddingRange ==
  ASSUME NEW r \in Request, NEW top \in Nat
  PROVE  /\ Padding(r, top) \in 0 .. (r.alignment - 1)
         /\ Padding(r, top) = Arena!Padding(r, top)
<1>1. r.alignment \in Nat \ {0}
  BY CASAllocatorAssumption DEF Request
<1>2. CASE r.alignment = 1
  BY <1>1, <1>2 DEF Padding, Arena!Padding
<1>3. CASE r.alignment # 1
  BY <1>1, <1>3 DEF Padding, realign, Arena!Padding
<1>. QED
  BY <1>2, <1>3

(* Under NoWrap the loop's size_t sum is the exact sum. *)
LEMMA NoWrapSum ==
  ASSUME NoWrap, NEW r \in Request, NEW top \in 0 .. Capacity
  PROVE  (top + r.bytes + Padding(r, top)) % SizeMax = top + r.bytes + Padding(r, top)
<1>1. Padding(r, top) \in 0 .. (r.alignment - 1)
  BY PaddingRange, CASAllocatorAssumption
<1>2. r.bytes \in Requests /\ r.alignment \in Alignments
  BY DEF Request
<1>3. Capacity + r.bytes + r.alignment <= SizeMax /\ SizeMax \in Nat
  BY <1>2 DEF NoWrap
<1>4. r.bytes \in Nat /\ r.alignment \in Nat /\ Capacity \in Nat
  BY <1>2, CASAllocatorAssumption
<1>5. top + r.bytes + Padding(r, top) \in 0 .. (SizeMax - 1)
  BY <1>1, <1>3, <1>4
<1>. QED
  BY <1>3, <1>5

(* The arena's padding puts a block on a multiple of its alignment. *)
LEMMA PaddingAligns ==
  ASSUME NEW r \in Arena!Request, NEW u \in Nat
  PROVE  (u + Arena!Padding(r, u)) % r.alignment = 0
<1>. DEFINE a == r.alignment
<1>1. a \in Nat \ {0}
  BY CASAllocatorAssumption DEF Arena!Request, a
<1>2. CASE u % a = 0
  <2>1. Arena!Padding(r, u) = 0
    BY <1>1, <1>2 DEF Arena!Padding, a
  <2>. QED
    BY <1>1, <1>2, <2>1
<1>3. CASE u % a # 0
  <2>1. u % a \in 1 .. (a - 1)
    BY <1>1, <1>3
  <2>2. Arena!Padding(r, u) = a - (u % a)
    BY <1>1, <2>1 DEF Arena!Padding, a
  <2>3. u = a * (u \div a) + (u % a)
    BY <1>1
  <2>4. u + (a - (u % a)) = a * ((u \div a) + 1)
    BY <1>1, <2>3
  <2>5. (a * ((u \div a) + 1)) % a = 0
    BY <1>1
  <2>. QED
    BY <2>2, <2>4, <2>5
<1>. QED
  BY <1>2, <1>3

(***************************************************************************)
(* The inductive invariant.                                                *)
(***************************************************************************)

LEMMA CASInvStep ==
  ASSUME NoWrap, CASInv, [Next]_vars
  PROVE  CASInv'
<1>. USE DEF CASInv, TypeOK
<1>1. ASSUME NEW t \in Threads, NEW r \in Request, call(t, r)
      PROVE  CASInv'
  BY <1>1 DEF call
<1>2. ASSUME NEW t \in Threads, load(t)
      PROVE  CASInv'
  <2>. DEFINE r == request[t]
              pad == Padding(r, used)
  <2>1. r \in Request /\ used \in 0 .. Capacity
    OBVIOUS
  <2>2. pad \in Nat /\ (used + r.bytes + pad) % SizeMax = used + r.bytes + pad
    BY <2>1, PaddingRange, NoWrapSum
  <2>3. r.bytes \in Nat
    BY <2>1, CASAllocatorAssumption DEF Request
  <2>4. CASE (used + r.bytes + pad) % SizeMax > Capacity
    BY <1>2, <2>4 DEF load
  <2>5. CASE ~((used + r.bytes + pad) % SizeMax > Capacity)
    <3>1. /\ already_used' = [already_used EXCEPT ![t] = used]
          /\ answer' = [answer EXCEPT ![t] = used + pad]
          /\ new_used' = [new_used EXCEPT ![t] = (used + r.bytes + pad) % SizeMax]
          /\ pc' = [pc EXCEPT ![t] = "cas"]
          /\ UNCHANGED << exited, used, request, blocks, rewinds >>
      BY <1>2, <2>5 DEF load
    <3>2. used + r.bytes + pad <= Capacity
      BY <2>1, <2>2, <2>3, <2>5, CASAllocatorAssumption
    <3>. QED
      BY <3>1, <3>2, <2>1, <2>2, <2>3
  <2>. QED
    BY <2>4, <2>5
<1>3. ASSUME NEW t \in Threads, cas(t)
      PROVE  CASInv'
  <2>1. CASE used = already_used[t]
    <3>1. /\ used' = new_used[t]
          /\ pc' = [pc EXCEPT ![t] = "idle"]
          /\ UNCHANGED << request, already_used, new_used, answer, exited, rewinds >>
      BY <1>3, <2>1 DEF cas
    <3>2. new_used[t] \in 0 .. Capacity
      BY <1>3 DEF cas
    <3>. QED
      BY <3>1, <3>2
  <2>2. CASE used # already_used[t]
    BY <1>3, <2>2 DEF cas
  <2>. QED
    BY <2>1, <2>2
<1>4. CASE rewind
  BY <1>4, CASAllocatorAssumption DEF rewind
<1>5. CASE UNCHANGED vars
  BY <1>5 DEF vars
<1>. QED
  BY <1>1, <1>2, <1>3, <1>4, <1>5 DEF Next

(* Every reachable state satisfies CASInv. *)
LEMMA CASInvariant ==
  ASSUME NoWrap
  PROVE  Spec => []CASInv
<1>1. Init => CASInv
  <2>. SUFFICES ASSUME Init PROVE CASInv
    OBVIOUS
  <2>1. (CHOOSE r \in Request : TRUE) \in Request
    <3>1. PICK b \in Requests : TRUE
      BY CASAllocatorAssumption
    <3>2. PICK a \in Alignments : TRUE
      BY CASAllocatorAssumption
    <3>3. [bytes |-> b, alignment |-> a] \in Request
      BY <3>1, <3>2 DEF Request
    <3>. QED
      BY <3>3
  <2>2. used \in 0 .. Capacity /\ rewinds \in 0 .. MaxRewinds
    BY CASAllocatorAssumption DEF Init
  <2>3. request \in [Threads -> Request]
    BY <2>1 DEF Init
  <2>4. \A t \in Threads : pc[t] # "cas"
    BY DEF Init
  <2>. QED
    BY <2>2, <2>3, <2>4 DEF Init, CASInv, TypeOK
<1>2. CASInv /\ [Next]_vars => CASInv'
  BY CASInvStep
<1>. QED
  BY <1>1, <1>2, PTL DEF Spec

(***************************************************************************)
(* Refinement: every step of the CAS loop is a step of the atomic arena    *)
(* or leaves the arena's state alone.                                      *)
(***************************************************************************)

LEMMA RefinementStep ==
  ASSUME NoWrap, CASInv, [Next]_vars
  PROVE  [Arena!Next]_<< used, blocks, exited, rewinds >>
<1>. USE DEF CASInv, TypeOK
<1>1. ASSUME NEW t \in Threads, NEW r \in Request, call(t, r)
      PROVE  UNCHANGED << used, blocks, exited, rewinds >>
  BY <1>1 DEF call
<1>2. ASSUME NEW t \in Threads, load(t)
      PROVE  [Arena!Next]_<< used, blocks, exited, rewinds >>
  <2>. DEFINE r == request[t]
              pad == Padding(r, used)
  <2>1. r \in Request /\ used \in 0 .. Capacity
    OBVIOUS
  <2>2. /\ pad = Arena!Padding(r, used) /\ pad \in Nat
        /\ (used + r.bytes + pad) % SizeMax = used + r.bytes + pad
    BY <2>1, PaddingRange, NoWrapSum
  <2>3. CASE (used + r.bytes + pad) % SizeMax > Capacity
    <3>1. /\ ~exited
          /\ exited' = TRUE
          /\ UNCHANGED << used, blocks, rewinds >>
      BY <1>2, <2>3 DEF load
    <3>2. r.bytes \in Nat
      BY <2>1, CASAllocatorAssumption DEF Request
    <3>3. used + Arena!Padding(r, used) + r.bytes > Capacity
      BY <2>1, <2>2, <2>3, <3>2
    <3>4. Arena!Malloc(r)
      BY <3>1, <3>3 DEF Arena!Malloc
    <3>. QED
      BY <3>4, <2>1 DEF Arena!Next, Arena!Request, Request
  <2>4. CASE ~((used + r.bytes + pad) % SizeMax > Capacity)
    BY <1>2, <2>4 DEF load
  <2>. QED
    BY <2>3, <2>4
<1>3. ASSUME NEW t \in Threads, cas(t)
      PROVE  [Arena!Next]_<< used, blocks, exited, rewinds >>
  <2>1. CASE used = already_used[t]
    <3>. DEFINE r == request[t]
    <3>1. /\ ~exited
          /\ used' = new_used[t]
          /\ blocks' = blocks \cup {NewBlock(t)}
          /\ UNCHANGED << exited, rewinds >>
      BY <1>3, <2>1 DEF cas
    <3>2. r \in Request /\ used \in Nat
      OBVIOUS
    <3>3. /\ answer[t] = used + Arena!Padding(r, used)
          /\ new_used[t] = used + Arena!Padding(r, used) + r.bytes
          /\ new_used[t] <= Capacity
      BY <1>3, <2>1, <3>2, PaddingRange DEF cas
    <3>4. Arena!Malloc(r)
      <4>a. r.bytes \in Nat
        BY <3>2, CASAllocatorAssumption DEF Request
      <4>b. Arena!Padding(r, used) \in Nat
        <5>1. Padding(r, used) \in 0 .. (r.alignment - 1)
          BY <3>2, PaddingRange
        <5>2. Padding(r, used) = Arena!Padding(r, used)
          BY <3>2, PaddingRange
        <5>. QED
          BY <5>1, <5>2
      <4>c. Capacity \in Nat
        BY CASAllocatorAssumption
      <4>1. ~(used + Arena!Padding(r, used) + r.bytes > Capacity)
        BY <3>2, <3>3, <4>a, <4>b, <4>c
      <4>2. blocks' = blocks \cup {[at |-> used + Arena!Padding(r, used),
                                    size |-> r.bytes, alignment |-> r.alignment]}
        BY <3>1, <3>3 DEF NewBlock, r
      <4>3. used' = used + Arena!Padding(r, used) + r.bytes
        BY <3>1, <3>3
      <4>. QED
        BY <3>1, <4>1, <4>2, <4>3 DEF Arena!Malloc
    <3>. QED
      BY <3>4, <3>2 DEF Arena!Next, Arena!Request, Request
  <2>2. CASE used # already_used[t]
    BY <1>3, <2>2 DEF cas
  <2>. QED
    BY <2>1, <2>2
<1>4. CASE rewind
  BY <1>4 DEF rewind, Arena!Next, Arena!Rewind
<1>5. CASE UNCHANGED vars
  BY <1>5 DEF vars
<1>. QED
  BY <1>1, <1>2, <1>3, <1>4, <1>5 DEF Next

(* The CAS loop of allocator_memory::malloc is linearizable: every         *)
(* behaviour of the threads racing malloc and rewind is a behaviour of the *)
(* arena whose calls are atomic (spec 4.1), with the same cursor, blocks   *)
(* and failures.                                                           *)
THEOREM Linearizability ==
  ASSUME NoWrap
  PROVE  Spec => Linearizable
<1>1. Init => Arena!Init
  BY DEF Init, Arena!Init
<1>2. CASInv /\ [Next]_vars => [Arena!Next]_<< used, blocks, exited, rewinds >>
  BY RefinementStep
<1>. QED
  BY <1>1, <1>2, CASInvariant, PTL DEF Spec, Linearizable, Arena!Spec

(***************************************************************************)
(* Safety of the atomic arena, carried over to the CAS loop.               *)
(***************************************************************************)

LEMMA ArenaSafeStep ==
  Arena!SafeInv /\ [Arena!Next]_<< used, blocks, exited, rewinds >> => Arena!SafeInv'
<1>. SUFFICES ASSUME Arena!SafeInv, [Arena!Next]_<< used, blocks, exited, rewinds >>
              PROVE  Arena!SafeInv'
  OBVIOUS
<1>0. /\ used \in 0 .. Capacity
      /\ blocks \subseteq [at : Nat, size : Nat, alignment : Alignments]
      /\ \A b \in blocks : b.at + b.size <= used
      /\ Arena!BlocksDisjoint
      /\ Arena!BlocksAligned
  BY DEF Arena!SafeInv
<1>1. ASSUME NEW r \in Arena!Request, Arena!Malloc(r)
      PROVE  Arena!SafeInv'
  <2>. DEFINE pad == Arena!Padding(r, used)
              nb  == [at |-> used + pad, size |-> r.bytes, alignment |-> r.alignment]
  <2>1. r.bytes \in Nat
    BY CASAllocatorAssumption DEF Arena!Request
  <2>2. r.alignment \in Alignments
    BY DEF Arena!Request
  <2>3. r \in Request
    BY DEF Arena!Request, Request
  <2>4. used \in Nat /\ Capacity \in Nat
    BY <1>0, CASAllocatorAssumption
  <2>5. pad \in Nat
    BY <2>3, <2>4, PaddingRange DEF pad
  <2>6. CASE used + pad + r.bytes > Capacity
    <3>1. UNCHANGED << used, blocks >>
      BY <1>1, <2>6 DEF Arena!Malloc, pad
    <3>. QED
      BY <1>0, <3>1 DEF Arena!SafeInv, Arena!BlocksDisjoint, Arena!BlocksAligned
  <2>7. CASE ~(used + pad + r.bytes > Capacity)
    <3>1. /\ blocks' = blocks \cup {nb}
          /\ used' = used + pad + r.bytes
      BY <1>1, <2>7 DEF Arena!Malloc, pad, nb
    <3>2. used' \in 0 .. Capacity
      BY <3>1, <2>1, <2>4, <2>5, <2>7
    <3>3. nb \in [at : Nat, size : Nat, alignment : Alignments]
      BY <2>1, <2>2, <2>4, <2>5 DEF nb
    <3>4. nb.at + nb.size = used'
      BY <3>1 DEF nb
    <3>5. \A b \in blocks : b.at + b.size <= nb.at
      BY <1>0, <2>4, <2>5 DEF nb
    <3>6. \A b \in blocks' : b.at + b.size <= used'
      BY <1>0, <3>1, <3>4, <2>1, <2>5
    <3>7. Arena!BlocksDisjoint'
      BY <1>0, <3>1, <3>5 DEF Arena!BlocksDisjoint
    <3>8. nb.at % nb.alignment = 0
      BY <2>4, PaddingAligns DEF nb, pad
    <3>9. Arena!BlocksAligned'
      BY <1>0, <3>1, <3>8 DEF Arena!BlocksAligned
    <3>. QED
      BY <1>0, <3>1, <3>2, <3>3, <3>6, <3>7, <3>9 DEF Arena!SafeInv
  <2>. QED
    BY <2>6, <2>7
<1>2. CASE Arena!Rewind
  BY <1>2, CASAllocatorAssumption
     DEF Arena!Rewind, Arena!SafeInv, Arena!BlocksDisjoint, Arena!BlocksAligned
<1>3. CASE UNCHANGED << used, blocks, exited, rewinds >>
  BY <1>0, <1>3 DEF Arena!SafeInv, Arena!BlocksDisjoint, Arena!BlocksAligned
<1>. QED
  BY <1>1, <1>2, <1>3 DEF Arena!Next

(* The atomic arena never hands out a block past the buffer nor two        *)
(* blocks that overlap.                                                    *)
LEMMA ArenaSafe == Arena!Spec => []Arena!SafeInv
<1>1. Arena!Init => Arena!SafeInv
  BY CASAllocatorAssumption
     DEF Arena!Init, Arena!SafeInv, Arena!BlocksDisjoint, Arena!BlocksAligned
<1>. QED
  BY <1>1, ArenaSafeStep, PTL DEF Arena!Spec

(* Threads racing allocator_memory::malloc's CAS loop, with rewind() at    *)
(* any point, never get a block past the buffer: the capacity test made on *)
(* a loaded cursor that has since gone stale is only acted on by a CAS     *)
(* that finds the cursor unchanged.                                        *)
THEOREM CASBlocksInBuffer ==
  ASSUME NoWrap
  PROVE  Spec => []BlocksInBuffer
<1>1. Arena!SafeInv => BlocksInBuffer
  BY CASAllocatorAssumption DEF Arena!SafeInv, BlocksInBuffer
<1>. QED
  BY <1>1, Linearizability, ArenaSafe, PTL DEF Linearizable

(* Racing threads never get overlapping blocks: a thread whose loaded     *)
(* cursor went stale fails its CAS and recomputes.                         *)
THEOREM CASBlocksDisjoint ==
  ASSUME NoWrap
  PROVE  Spec => []BlocksDisjoint
<1>1. Arena!SafeInv => BlocksDisjoint
  BY DEF Arena!SafeInv, Arena!BlocksDisjoint, BlocksDisjoint
<1>. QED
  BY <1>1, Linearizability, ArenaSafe, PTL DEF Linearizable

(* The cursor never passes allocated and every thread's locals keep their *)
(* types, for every number of threads.                                     *)
THEOREM CASTypeCorrect ==
  ASSUME NoWrap
  PROVE  Spec => []TypeOK
BY CASInvariant, PTL DEF CASInv

=============================================================================
