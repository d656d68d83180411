--------------------------- MODULE AllocatorMemory ---------------------------
(***************************************************************************)
(* The single-threaded fixed-buffer arena of source/allocator_memory.cpp:  *)
(* malloc(bytes) bumps the cursor used through a caller-supplied buffer of *)
(* allocated bytes, realign() pads used up to alignment_boundary, rewind() *)
(* resets it.  size_t arithmetic is modulo 2^WordBits.                     *)
(*                                                                         *)
(* blocks is not program state: it is the set of blocks malloc handed out *)
(* since the last rewind (the pointers still in use), each an offset into  *)
(* the buffer and a length.  rewinds bounds the calls of rewind().         *)
(***************************************************************************)
EXTENDS Integers

CONSTANTS
  Capacity,           \* allocated, the size of the caller's buffer
  AlignmentBoundary,  \* alignment_boundary (sizeof(void *))
  Requests,           \* byte counts callers pass to malloc
  WordBits,           \* width of size_t
  MaxRewinds          \* bound on rewind calls

(* size_t wraps modulo SIZE_MAX + 1. *)
SizeMax == 2 ^ WordBits

ASSUME AllocatorAssumption ==
  /\ Capacity \in Nat
  /\ AlignmentBoundary \in Nat \ {0}
  /\ Requests \subseteq 0 .. (SizeMax - 1)
  /\ WordBits \in Nat \ {0}
  /\ MaxRewinds \in Nat

(* No sum the arena forms wraps: the cursor (at most allocated plus the   *)
(* padding of one realign) plus a request stays below 2^WordBits.  The     *)
(* proofs take it as a hypothesis; allocator_wrap shows what happens when  *)
(* it fails.                                                               *)
NoWrap ==
  /\ SizeMax \in Nat \ {0}
  /\ Capacity + AlignmentBoundary <= SizeMax
  /\ \A b \in Requests : Capacity + AlignmentBoundary + b <= SizeMax

VARIABLES
  used,     \* size_t used, the cursor
  blocks,   \* blocks handed out since the last rewind
  exited,   \* the process called exit() on running out of memory
  rewinds   \* rewind calls so far

vars == << used, blocks, exited, rewinds >>

Block == [at : Nat, size : Nat]

(* The constructor: an empty arena over the caller's buffer. *)
Init ==
  /\ used = 0
  /\ blocks = {}
  /\ exited = FALSE
  /\ rewinds = 0

(* Mutant: the capacity test off by one (used + bytes > allocated + 1). *)
mallocOffByOne(bytes) ==
  /\ ~exited
  /\ IF (used + bytes) % SizeMax > Capacity + 1
     THEN /\ exited' = TRUE
          /\ UNCHANGED << used, blocks >>
     ELSE /\ blocks' = blocks \cup {[at |-> used, size |-> bytes]}
          /\ used' = (used + bytes) % SizeMax
          /\ UNCHANGED exited
  /\ UNCHANGED rewinds

(* malloc(bytes): out of memory ends the process (exit(printf(...))), the *)
(* return nullptr after it is never reached; otherwise hand out          *)
(* buffer + used and advance used.                                        *)
malloc(bytes) ==
  /\ ~exited
  /\ IF (used + bytes) % SizeMax > Capacity
     THEN /\ exited' = TRUE
          /\ UNCHANGED << used, blocks >>
     ELSE /\ blocks' = blocks \cup {[at |-> used, size |-> bytes]}
          /\ used' = (used + bytes) % SizeMax
          /\ UNCHANGED exited
  /\ UNCHANGED rewinds

(* Mutant: the padding rounds used down instead of up. *)
realignDown ==
  /\ ~exited
  /\ used' = used - (used % AlignmentBoundary)
  /\ UNCHANGED << blocks, exited, rewinds >>

(* Mutant: the padding misses the already-aligned case and adds a whole  *)
(* alignment_boundary.                                                    *)
realignAlways ==
  /\ ~exited
  /\ used' = (used + AlignmentBoundary - (used % AlignmentBoundary)) % SizeMax
  /\ UNCHANGED << blocks, exited, rewinds >>

(* realign(): pad used to the next multiple of alignment_boundary; the     *)
(* code notes it may pass allocated ("will simply cause failure at the     *)
(* next call to malloc()").                                                *)
realign ==
  /\ ~exited
  /\ LET padding == IF used % AlignmentBoundary = 0 THEN 0
                    ELSE AlignmentBoundary - (used % AlignmentBoundary)
     IN  used' = (used + padding) % SizeMax
  /\ UNCHANGED << blocks, exited, rewinds >>

(* rewind(): used = 0; every block handed out is given back at once. *)
rewind ==
  /\ ~exited
  /\ rewinds < MaxRewinds
  /\ used' = 0
  /\ blocks' = {}
  /\ rewinds' = rewinds + 1
  /\ UNCHANGED exited

Next ==
  \/ \E bytes \in Requests : malloc(bytes)
  \/ realign
  \/ rewind

Spec == Init /\ [][Next]_vars

-----------------------------------------------------------------------------
(* Type invariant.  used may pass allocated only by realign's padding,    *)
(* which is less than alignment_boundary.                                 *)
TypeOK ==
  /\ used \in 0 .. (Capacity + AlignmentBoundary - 1)
  /\ blocks \subseteq Block
  /\ exited \in BOOLEAN
  /\ rewinds \in 0 .. MaxRewinds

(* Every block malloc hands out lies inside the buffer, even after realign *)
(* has pushed used past allocated.                                         *)
BlocksInBuffer == \A b \in blocks : b.at + b.size <= Capacity

(* Blocks live at the same time never share a byte: used only grows       *)
(* between rewinds and realign never moves it back over a block.           *)
BlocksDisjoint ==
  \A b, c \in blocks :
    b # c => (b.at + b.size <= c.at \/ c.at + c.size <= b.at)

(* The inductive invariant behind the two (proved in                      *)
(* AllocatorMemory_proofs): used passes allocated only when realign has    *)
(* just aligned it, and every block ends below both used and allocated.   *)
MemInv ==
  /\ TypeOK
  /\ used > Capacity => used % AlignmentBoundary = 0
  /\ \A b \in blocks : b.at + b.size <= used /\ b.at + b.size <= Capacity
  /\ BlocksDisjoint

=============================================================================
