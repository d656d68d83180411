--------------------------- MODULE ArenaAllocator ---------------------------
(***************************************************************************)
(* What the fixed-buffer arena promises (spec 4.1), with every call        *)
(* atomic: malloc(bytes, alignment) pads the cursor up to alignment and    *)
(* hands out the block there, or fails when used + padding + bytes passes  *)
(* the capacity; rewind() resets the cursor.  Failure ends the process, as *)
(* in both versions of the code (the spec's null return is never seen).   *)
(* Arithmetic is exact: the spec knows no size_t wrap.                     *)
(***************************************************************************)
EXTENDS Integers

CONSTANTS Capacity, Alignments, Requests, MaxRewinds

VARIABLES used, blocks, exited, rewinds

Request == [bytes : Requests, alignment : Alignments]

(* The leading padding that puts the cursor on a multiple of alignment. *)
Padding(r, top) == (r.alignment - (top % r.alignment)) % r.alignment

Init ==
  /\ used = 0
  /\ blocks = {}
  /\ exited = FALSE
  /\ rewinds = 0

(* malloc(bytes, alignment), in one step. *)
Malloc(r) ==
  LET padding == Padding(r, used)
  IN  /\ ~exited
      /\ IF used + padding + r.bytes > Capacity
         THEN /\ exited' = TRUE
              /\ UNCHANGED << used, blocks >>
         ELSE /\ blocks' = blocks \cup
                   {[at |-> used + padding, size |-> r.bytes, alignment |-> r.alignment]}
              /\ used' = used + padding + r.bytes
              /\ UNCHANGED exited
      /\ UNCHANGED rewinds

(* rewind(): the cursor back to zero, every block given back. *)
Rewind ==
  /\ ~exited
  /\ rewinds < MaxRewinds
  /\ used' = 0
  /\ blocks' = {}
  /\ rewinds' = rewinds + 1
  /\ UNCHANGED exited

Next == (\E r \in Request : Malloc(r)) \/ Rewind

Spec == Init /\ [][Next]_<< used, blocks, exited, rewinds >>

-----------------------------------------------------------------------------
(* Every block lies inside the buffer. *)
BlocksInBuffer == \A b \in blocks : b.at + b.size <= Capacity

(* Blocks never share a byte. *)
BlocksDisjoint ==
  \A b, c \in blocks :
    b # c => (b.at + b.size <= c.at \/ c.at + c.size <= b.at)

(* Every block starts at a multiple of the alignment it was asked for. *)
BlocksAligned == \A b \in blocks : b.at % b.alignment = 0

(* The invariant the three rest on: the cursor lies in the buffer and every  *)
(* block ends at or below it, so the next block starts past all of them.   *)
SafeInv ==
  /\ used \in 0 .. Capacity
  /\ blocks \subseteq [at : Nat, size : Nat, alignment : Alignments]
  /\ \A b \in blocks : b.at + b.size <= used
  /\ BlocksDisjoint
  /\ BlocksAligned

=============================================================================
