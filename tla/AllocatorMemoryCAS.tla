------------------------- MODULE AllocatorMemoryCAS -------------------------
(***************************************************************************)
(* The thread-safe fixed-buffer arena of src/unnamed/part_001              *)
(* (allocator_memory.cpp with an atomic cursor).  Each thread's            *)
(* malloc(bytes, alignment) is a compare-and-swap loop: load used, work    *)
(* out the padding and the capacity test on the loaded value, then         *)
(* compare_exchange_strong(already_used, new_used); on failure go round    *)
(* again.  rewind() stores 0 into used, from any thread.  size_t           *)
(* arithmetic is modulo 2^WordBits.                                        *)
(*                                                                         *)
(* The loop's locals already_used, new_used and answer are per thread;     *)
(* answer is an offset into the buffer.  blocks is not program state: the  *)
(* blocks handed out since the last rewind.  rewinds bounds rewind().      *)
(***************************************************************************)
EXTENDS Integers

CONSTANTS
  Threads,     \* threads calling malloc
  Capacity,    \* allocated, the size of the caller's buffer
  Alignments,  \* alignments callers pass to malloc
  Requests,    \* byte counts callers pass to malloc
  WordBits,    \* width of size_t
  MaxRewinds   \* bound on rewind calls

SizeMax == 2 ^ WordBits

ASSUME CASAllocatorAssumption ==
  /\ Capacity \in Nat
  /\ Alignments \subseteq Nat \ {0} /\ Alignments # {}
  /\ Requests \subseteq Nat /\ Requests # {}
  /\ WordBits \in Nat \ {0}
  /\ MaxRewinds \in Nat

(* No sum the loop forms can wrap: the cursor (at most allocated) plus a  *)
(* request plus its padding stays below 2^WordBits.  The proofs assume it; *)
(* without it the capacity test can pass on a wrapped sum.                 *)
NoWrap ==
  /\ SizeMax \in Nat \ {0}
  /\ \A b \in Requests, a \in Alignments : Capacity + b + a <= SizeMax

VARIABLES
  used,          \* std::atomic<size_t> used
  pc,            \* "idle", "load" (top of the loop) or "cas"
  request,       \* the arguments of the thread's malloc call
  already_used,  \* the loop's copy of used
  new_used,      \* already_used + bytes + padding
  answer,        \* buffer + already_used + padding, as an offset
  blocks,        \* blocks handed out since the last rewind
  exited,        \* some thread called exit() on running out of memory
  rewinds        \* rewind calls so far

vars == << used, pc, request, already_used, new_used, answer, blocks, exited,
           rewinds >>

Request == [bytes : Requests, alignment : Alignments]

(* realign(pointer, alignment) (allocator_memory.h): the padding that      *)
(* brings pointer up to a multiple of alignment.                           *)
realign(pointer, alignment) == (alignment - (pointer % alignment)) % alignment

(* The constructor: an empty arena, no malloc under way. *)
Init ==
  /\ used = 0
  /\ pc = [t \in Threads |-> "idle"]
  /\ request = [t \in Threads |-> CHOOSE r \in Request : TRUE]
  /\ already_used = [t \in Threads |-> 0]
  /\ new_used = [t \in Threads |-> 0]
  /\ answer = [t \in Threads |-> 0]
  /\ blocks = {}
  /\ exited = FALSE
  /\ rewinds = 0

(* A thread calls malloc(bytes, alignment). *)
call(t, r) ==
  /\ ~exited
  /\ pc[t] = "idle"
  /\ pc' = [pc EXCEPT ![t] = "load"]
  /\ request' = [request EXCEPT ![t] = r]
  /\ UNCHANGED << used, already_used, new_used, answer, blocks, exited, rewinds >>

(* The padding of a request on top of the loaded cursor. *)
Padding(r, top) == IF r.alignment = 1 THEN 0 ELSE realign(top, r.alignment)

(* Mutant: the capacity test leaves the padding out. *)
loadCheckNoPadding(t) ==
  LET r == request[t]
      top == used
      padding == Padding(r, top)
  IN  /\ ~exited
      /\ pc[t] = "load"
      /\ IF (top + r.bytes) % SizeMax > Capacity
         THEN /\ exited' = TRUE
              /\ UNCHANGED << pc, already_used, new_used, answer >>
         ELSE /\ already_used' = [already_used EXCEPT ![t] = top]
              /\ answer' = [answer EXCEPT ![t] = top + padding]
              /\ new_used' = [new_used EXCEPT ![t] = (top + r.bytes + padding) % SizeMax]
              /\ pc' = [pc EXCEPT ![t] = "cas"]
              /\ UNCHANGED exited
      /\ UNCHANGED << used, request, blocks, rewinds >>

(* The loop body up to the CAS: already_used = used, the padding, the      *)
(* capacity test (failure: exit(printf(...)), the process ends), answer    *)
(* and new_used.  Only the load reads shared state.                        *)
load(t) ==
  LET r == request[t]
      top == used
      padding == Padding(r, top)
  IN  /\ ~exited
      /\ pc[t] = "load"
      /\ IF (top + r.bytes + padding) % SizeMax > Capacity
         THEN /\ exited' = TRUE
              /\ UNCHANGED << pc, already_used, new_used, answer >>
         ELSE /\ already_used' = [already_used EXCEPT ![t] = top]
              /\ answer' = [answer EXCEPT ![t] = top + padding]
              /\ new_used' = [new_used EXCEPT ![t] = (top + r.bytes + padding) % SizeMax]
              /\ pc' = [pc EXCEPT ![t] = "cas"]
              /\ UNCHANGED exited
      /\ UNCHANGED << used, request, blocks, rewinds >>

(* The block a successful CAS hands out. *)
NewBlock(t) ==
  [at |-> answer[t], size |-> request[t].bytes, alignment |-> request[t].alignment]

(* Mutant: a plain store in place of the compare-and-swap. *)
casStore(t) ==
  /\ ~exited
  /\ pc[t] = "cas"
  /\ used' = new_used[t]
  /\ blocks' = blocks \cup {NewBlock(t)}
  /\ pc' = [pc EXCEPT ![t] = "idle"]
  /\ UNCHANGED << request, already_used, new_used, answer, exited, rewinds >>

(* Mutant: a failed compare-and-swap retried with the stale expected      *)
(* value instead of going round the loop.                                  *)
casNoReload(t) ==
  /\ ~exited
  /\ pc[t] = "cas"
  /\ IF used = already_used[t]
     THEN /\ used' = new_used[t]
          /\ blocks' = blocks \cup {NewBlock(t)}
          /\ pc' = [pc EXCEPT ![t] = "idle"]
     ELSE UNCHANGED << used, blocks, pc >>
  /\ UNCHANGED << request, already_used, new_used, answer, exited, rewinds >>

(* while (!used.compare_exchange_strong(already_used, new_used)): if used *)
(* still holds already_used it becomes new_used and answer is returned,    *)
(* otherwise the loop starts again.                                        *)
cas(t) ==
  /\ ~exited
  /\ pc[t] = "cas"
  /\ IF used = already_used[t]
     THEN /\ used' = new_used[t]
          /\ blocks' = blocks \cup {NewBlock(t)}
          /\ pc' = [pc EXCEPT ![t] = "idle"]
     ELSE /\ pc' = [pc EXCEPT ![t] = "load"]
          /\ UNCHANGED << used, blocks >>
  /\ UNCHANGED << request, already_used, new_used, answer, exited, rewinds >>

(* rewind(): used = 0, whatever mallocs are under way. *)
rewind ==
  /\ ~exited
  /\ rewinds < MaxRewinds
  /\ used' = 0
  /\ blocks' = {}
  /\ rewinds' = rewinds + 1
  /\ UNCHANGED << pc, request, already_used, new_used, answer, exited >>

Next ==
  \/ \E t \in Threads, r \in Request : call(t, r)
  \/ \E t \in Threads : load(t) \/ cas(t)
  \/ rewind

Spec == Init /\ [][Next]_vars

(* The scheduler runs every thread that can run: each thread's loop is     *)
(* weakly fair.  Calling malloc and rewind are the program's choice.       *)
FairSpec ==
  /\ Spec
  /\ \A t \in Threads : WF_vars(load(t)) /\ WF_vars(cas(t))

(* The arena the spec describes, every call atomic. *)
Arena == INSTANCE ArenaAllocator

-----------------------------------------------------------------------------
(* Type invariant: the cursor never passes allocated. *)
TypeOK ==
  /\ used \in 0 .. Capacity
  /\ pc \in [Threads -> {"idle", "load", "cas"}]
  /\ request \in [Threads -> Request]
  /\ already_used \in [Threads -> Nat]
  /\ new_used \in [Threads -> Nat]
  /\ answer \in [Threads -> Nat]
  /\ exited \in BOOLEAN
  /\ rewinds \in 0 .. MaxRewinds

(* Every block lies inside the buffer: the capacity test on a loaded,      *)
(* possibly stale, cursor still bounds the block the CAS hands out.        *)
BlocksInBuffer == \A b \in blocks : b.at + b.size <= Capacity

(* Blocks handed out to racing threads never share a byte: a thread whose *)
(* loaded cursor went stale (another malloc or a rewind got in first)      *)
(* fails its CAS and recomputes.                                          *)
BlocksDisjoint ==
  \A b, c \in blocks :
    b # c => (b.at + b.size <= c.at \/ c.at + c.size <= b.at)

(* The inductive invariant behind Linearizable (proved in                  *)
(* AllocatorMemoryCAS_proofs): a thread about to CAS holds the answer and *)
(* new_used the atomic malloc would compute from the cursor it loaded, and *)
(* they fit the buffer.                                                    *)
CASInv ==
  /\ TypeOK
  /\ \A t \in Threads :
       pc[t] = "cas" =>
         /\ answer[t] = already_used[t] + Padding(request[t], already_used[t])
         /\ new_used[t] = answer[t] + request[t].bytes
         /\ new_used[t] <= Capacity

(* Every malloc call returns (or the process exits): a thread's CAS fails *)
(* only when another thread's succeeded or a rewind intervened, and those  *)
(* are finite, so the loop is lock-free and, with bounded rewinds,         *)
(* wait-free.                                                              *)
MallocReturns ==
  \A t \in Threads : pc[t] # "idle" ~> (pc[t] = "idle" \/ exited)

(* The CAS loop implements the atomic arena: each malloc takes effect at  *)
(* its successful compare-and-swap (or at the load that finds the buffer   *)
(* full), as one atomic malloc on the cursor it loaded, and blocks,        *)
(* padding and failures are those of the atomic arena.                     *)
Linearizable == Arena!Spec

=============================================================================
