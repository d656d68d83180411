------------------------ MODULE AllocatorChained_proofs ------------------------
(***************************************************************************)
(* Proofs about the chained allocator of allocator.h, for every block     *)
(* size, header, word size and free store, on ARM and non-ARM builds,      *)
(* across chunk growth, out-of-memory and rewind:                          *)
(*   - for requests of at least one byte, every block malloc hands out     *)
(*     lies in data[] of a chunk the free store still has handed out, and  *)
(*     no two blocks overlap;                                              *)
(*   - for every request size, size() never exceeds capacity().          *)
(***************************************************************************)
EXTENDS AllocatorChained, SequenceTheorems, TLAPS

(* realign() keeps the cursor in its chunk and only moves it forward. *)
LEMMA RealignedForward ==
  ASSUME NEW p \in [chunk : Nat, offset : Nat]
  PROVE  /\ Realigned(p) \in [chunk : {p.chunk}, offset : Nat]
         /\ p.offset <= Realigned(p).offset
<1>1. WordSize \in Nat \ {0}
  BY ChainedAllocatorAssumption
<1>2. (WordSize - (p.offset % WordSize)) % WordSize \in Nat
  BY <1>1
<1>3. Realigned(p) = [chunk |-> p.chunk,
                      offset |-> p.offset + ((WordSize - (p.offset % WordSize)) % WordSize)]
  BY DEF Realigned
<1>4. p.offset + ((WordSize - (p.offset % WordSize)) % WordSize) \in Nat
  BY <1>2
<1>5. Realigned(p) \in [chunk : {p.chunk}, offset : Nat]
  BY <1>3, <1>4
<1>6. p.offset <= Realigned(p).offset
  BY <1>2, <1>3
<1>. QED
  BY <1>5, <1>6

(* The cursor malloc tests against chunk_end. *)
Cursor == IF arm THEN Realigned(chunk_at) ELSE chunk_at

LEMMA CursorForward ==
  ASSUME ChainedInv
  PROVE  /\ Cursor \in [chunk : {current_chunk}, offset : Nat]
         /\ chunk_at.offset <= Cursor.offset
<1>1. chunk_at \in [chunk : {current_chunk}, offset : Nat] /\ current_chunk \in Nat
  BY DEF ChainedInv
<1>2. chunk_at \in [chunk : Nat, offset : Nat]
  BY <1>1
<1>3. CASE arm
  <2>1. Realigned(chunk_at) \in [chunk : {chunk_at.chunk}, offset : Nat]
    BY <1>2, RealignedForward
  <2>2. chunk_at.offset <= Realigned(chunk_at).offset
    BY <1>2, RealignedForward
  <2>3. chunk_at.chunk = current_chunk
    BY <1>1
  <2>. QED
    BY <1>3, <2>1, <2>2, <2>3 DEF Cursor
<1>4. CASE ~arm
  BY <1>1, <1>4 DEF Cursor
<1>. QED
  BY <1>3, <1>4


(* malloc when the request does not fit: add_chunk pushes a fresh chunk   *)
(* of at least bytes and the block is its first bytes.  No earlier block   *)
(* is in the new chunk, and every earlier chunk keeps its size.           *)
LEMMA GrowStep ==
  ASSUME ChainedInv, NEW bytes \in Requests,
         add_chunk(bytes),
         HandOut([chunk |-> current_chunk', offset |-> 0], bytes)
  PROVE  ChainedInv'
<1>. DEFINE cs  == IF bytes > block_size THEN bytes ELSE block_size
            id  == Len(chunk) + 1
            new == [next_chunk |-> current_chunk, chunk_size |-> cs]
            nb  == [chunk |-> id, offset |-> 0, size |-> bytes]
<1>1. chunk \in Seq(Chunk)
  BY DEF ChainedInv
<1>2. live \subseteq 1 .. Len(chunk)
  BY DEF ChainedInv
<1>3. current_chunk \in 0 .. Len(chunk) /\ block_size \in Nat
  BY DEF ChainedInv
<1>4. blocks \subseteq [chunk : Nat, offset : Nat, size : Nat]
  BY DEF ChainedInv
<1>5. BlocksInLiveChunk /\ BlocksDisjoint
  BY DEF ChainedInv
<1>6. bytes \in Nat /\ Len(chunk) \in Nat
  BY <1>1, LenProperties, ChainedAllocatorAssumption
<1>7. cs \in Nat /\ bytes <= cs
  BY <1>3, <1>6
<1>8. new \in Chunk
  BY <1>3, <1>7 DEF Chunk
<1>9. /\ chunk' = Append(chunk, new)
      /\ live' = live \cup {id}
      /\ current_chunk' = id
      /\ chunk_end' = [chunk |-> id, offset |-> cs]
      /\ block_size' = cs
  BY DEF add_chunk
<1>10. blocks' = blocks \cup {nb} /\ chunk_at' = [chunk |-> id, offset |-> bytes]
  <2>1. blocks' = blocks \cup {nb}
    BY <1>9 DEF HandOut, nb, id
  <2>2. chunk_at' = [chunk |-> id, offset |-> 0 + bytes]
    BY <1>9 DEF HandOut, id
  <2>. QED
    BY <2>1, <2>2, <1>6
<1>11. /\ chunk' \in Seq(Chunk)
       /\ Len(chunk') = id
       /\ \A i \in 1 .. Len(chunk) : chunk'[i] = chunk[i]
       /\ chunk'[id] = new
  BY <1>1, <1>8, <1>9, AppendProperties
<1>12. \A b \in blocks : b.chunk \in 1 .. Len(chunk)
  BY <1>2, <1>5 DEF BlocksInLiveChunk
<1>13. live' \subseteq 1 .. Len(chunk')
  <2>1. Len(chunk') = Len(chunk) + 1
    BY <1>11 DEF id
  <2>2. 1 .. Len(chunk) \subseteq 1 .. (Len(chunk) + 1) /\ id \in 1 .. (Len(chunk) + 1)
    BY <1>6 DEF id
  <2>3. live' = live \cup {id}
    BY <1>9
  <2>. QED
    BY <1>2, <2>1, <2>2, <2>3
<1>19. current_chunk' \in 0 .. Len(chunk')
  BY <1>6, <1>9, <1>11 DEF id
<1>20. chunk_at' \in [chunk : {current_chunk'}, offset : Nat]
  BY <1>6, <1>9, <1>10
<1>21. chunk_end' \in [chunk : {current_chunk'}, offset : Nat]
  BY <1>7, <1>9
<1>22. block_size' \in Nat
  BY <1>7, <1>9
<1>14. /\ current_chunk' = NULL => chunk_end'.offset = 0
       /\ current_chunk' # NULL =>
            /\ current_chunk' \in live'
            /\ chunk_end'.offset = chunk'[current_chunk'].chunk_size
  BY <1>6, <1>9, <1>11 DEF NULL
<1>15. blocks' \subseteq [chunk : Nat, offset : Nat, size : Nat]
  BY <1>4, <1>6, <1>10 DEF nb
<1>16. \A b \in blocks' : b.chunk = current_chunk' => b.offset + b.size <= chunk_at'.offset
  BY <1>6, <1>9, <1>10, <1>12 DEF nb
<1>17. BlocksInLiveChunk'
  <2>1. \A b \in blocks : b.chunk \in live' /\ b.offset + b.size <= chunk'[b.chunk].chunk_size
    BY <1>5, <1>9, <1>11, <1>12 DEF BlocksInLiveChunk
  <2>2. nb.chunk \in live' /\ nb.offset + nb.size <= chunk'[nb.chunk].chunk_size
    BY <1>6, <1>7, <1>9, <1>11 DEF nb
  <2>. QED
    BY <1>10, <2>1, <2>2 DEF BlocksInLiveChunk
<1>18. BlocksDisjoint'
  <2>1. \A b \in blocks : b.chunk # nb.chunk
    BY <1>6, <1>12 DEF nb
  <2>. QED
    BY <1>5, <1>10, <2>1 DEF BlocksDisjoint
<1>. QED
  BY <1>11, <1>13, <1>14, <1>15, <1>16, <1>17, <1>18, <1>19, <1>20, <1>21, <1>22
     DEF ChainedInv


(* malloc when the request fits: the block starts at the (realigned)       *)
(* cursor, past every block of the current chunk, and ends by chunk_end,   *)
(* the end of a live chunk.  A request of at least one byte cannot fit     *)
(* while there is no chunk, since chunk_end is then NULL.                  *)
LEMMA FitStep ==
  ASSUME ChainedInv, PositiveRequests, NEW bytes \in Requests,
         ~(Cursor.offset + bytes > chunk_end.offset),
         HandOut(Cursor, bytes),
         UNCHANGED << chunk, live, current_chunk, chunk_end, block_size >>
  PROVE  ChainedInv'
<1>. DEFINE nb == [chunk |-> current_chunk, offset |-> Cursor.offset, size |-> bytes]
<1>1. chunk \in Seq(Chunk) /\ live \subseteq 1 .. Len(chunk)
  BY DEF ChainedInv
<1>2. current_chunk \in 0 .. Len(chunk) /\ block_size \in Nat
  BY DEF ChainedInv
<1>3. chunk_end \in [chunk : {current_chunk}, offset : Nat]
  BY DEF ChainedInv
<1>4. blocks \subseteq [chunk : Nat, offset : Nat, size : Nat]
  BY DEF ChainedInv
<1>5. \A b \in blocks : b.chunk = current_chunk => b.offset + b.size <= chunk_at.offset
  BY DEF ChainedInv
<1>6. BlocksInLiveChunk /\ BlocksDisjoint
  BY DEF ChainedInv
<1>7. Cursor \in [chunk : {current_chunk}, offset : Nat] /\ chunk_at.offset <= Cursor.offset
  BY CursorForward
<1>8. bytes \in Nat \ {0}
  BY ChainedAllocatorAssumption DEF PositiveRequests
<1>18. chunk_at \in [chunk : {current_chunk}, offset : Nat]
  BY DEF ChainedInv
<1>9. current_chunk # NULL
  <2>1. current_chunk = NULL => chunk_end.offset = 0
    BY DEF ChainedInv
  <2>. QED
    BY <1>7, <1>8, <2>1
<1>10. current_chunk \in live /\ chunk_end.offset = chunk[current_chunk].chunk_size
  BY <1>9 DEF ChainedInv
<1>11. blocks' = blocks \cup {nb}
  BY <1>7 DEF HandOut, nb
<1>12. chunk_at' = [chunk |-> current_chunk, offset |-> Cursor.offset + bytes]
  BY <1>7 DEF HandOut
<1>13. chunk_at' \in [chunk : {current_chunk'}, offset : Nat]
  BY <1>7, <1>8, <1>12
<1>14. blocks' \subseteq [chunk : Nat, offset : Nat, size : Nat]
  BY <1>2, <1>4, <1>7, <1>8, <1>11 DEF nb
<1>15. \A b \in blocks' : b.chunk = current_chunk' => b.offset + b.size <= chunk_at'.offset
  <2>1. \A b \in blocks : b.chunk = current_chunk => b.offset + b.size <= chunk_at'.offset
    BY <1>4, <1>5, <1>7, <1>8, <1>12, <1>18
  <2>2. nb.offset + nb.size <= chunk_at'.offset
    BY <1>7, <1>8, <1>12 DEF nb
  <2>. QED
    BY <1>11, <2>1, <2>2
<1>16. BlocksInLiveChunk'
  <2>1. nb.chunk \in live /\ nb.offset + nb.size <= chunk[nb.chunk].chunk_size
    BY <1>3, <1>7, <1>8, <1>10 DEF nb
  <2>. QED
    BY <1>6, <1>11, <2>1 DEF BlocksInLiveChunk
<1>17. BlocksDisjoint'
  <2>1. \A b \in blocks : b.chunk = nb.chunk => b.offset + b.size <= nb.offset
    BY <1>4, <1>5, <1>7, <1>18 DEF nb
  <2>. QED
    BY <1>6, <1>11, <2>1 DEF BlocksDisjoint
<1>. QED
  BY <1>1, <1>2, <1>3, <1>9, <1>10, <1>13, <1>14, <1>15, <1>16, <1>17
     DEF ChainedInv, NULL


LEMMA ChainedInvStep ==
  ASSUME PositiveRequests, ChainedInv, [Next]_vars
  PROVE  ChainedInv'
<1>1. ASSUME NEW bytes \in Requests, malloc(bytes)
      PROVE  ChainedInv'
  <2>1. CASE Cursor.offset + bytes > chunk_end.offset /\ alloc(ChunkRequest(bytes))
    <3>1. add_chunk(bytes) /\ HandOut([chunk |-> current_chunk', offset |-> 0], bytes)
      BY <1>1, <2>1 DEF malloc, Cursor
    <3>. QED
      BY <3>1, GrowStep
  <2>2. CASE Cursor.offset + bytes > chunk_end.offset /\ ~alloc(ChunkRequest(bytes))
    <3>1. UNCHANGED << chunk, live, fields, blocks >>
      BY <1>1, <2>2 DEF malloc, Cursor
    <3>2. UNCHANGED << chunk, live, current_chunk, chunk_at, chunk_end, block_size, blocks >>
      BY <3>1 DEF fields
    <3>. QED
      BY <3>2 DEF ChainedInv, BlocksInLiveChunk, BlocksDisjoint, NULL
  <2>3. CASE ~(Cursor.offset + bytes > chunk_end.offset)
    <3>1. /\ HandOut(Cursor, bytes)
          /\ UNCHANGED << chunk, live, current_chunk, chunk_end, block_size >>
      BY <1>1, <2>3 DEF malloc, Cursor
    <3>. QED
      BY <2>3, <3>1, FitStep
  <2>. QED
    BY <2>1, <2>2, <2>3
<1>2. CASE realign
  <2>1. chunk_at \in [chunk : {current_chunk}, offset : Nat] /\ current_chunk \in Nat
    BY DEF ChainedInv
  <2>2. /\ Realigned(chunk_at) \in [chunk : {chunk_at.chunk}, offset : Nat]
        /\ chunk_at.offset <= Realigned(chunk_at).offset
    BY <2>1, RealignedForward
  <2>3. chunk_at' = Realigned(chunk_at)
    BY <1>2 DEF realign
  <2>4. UNCHANGED << chunk, live, current_chunk, chunk_end, block_size, blocks >>
    BY <1>2 DEF realign
  <2>5. chunk_at' \in [chunk : {current_chunk'}, offset : Nat]
    BY <2>1, <2>2, <2>3, <2>4
  <2>6. \A b \in blocks' : b.chunk = current_chunk' => b.offset + b.size <= chunk_at'.offset
    <3>1. blocks \subseteq [chunk : Nat, offset : Nat, size : Nat]
      BY DEF ChainedInv
    <3>2. \A b \in blocks : b.chunk = current_chunk => b.offset + b.size <= chunk_at.offset
      BY DEF ChainedInv
    <3>. QED
      BY <2>1, <2>2, <2>3, <2>4, <3>1, <3>2
  <2>. QED
    BY <2>4, <2>5, <2>6 DEF ChainedInv, BlocksInLiveChunk, BlocksDisjoint
<1>3. CASE rewind
  <2>1. /\ live' \subseteq live
        /\ current_chunk' = NULL
        /\ chunk_at' = null /\ chunk_end' = null
        /\ blocks' = {}
        /\ UNCHANGED << chunk, block_size >>
    BY <1>3 DEF rewind, dealloc
  <2>2. /\ chunk \in Seq(Chunk) /\ live \subseteq 1 .. Len(chunk) /\ block_size \in Nat
        /\ Len(chunk) \in Nat
    BY LenProperties DEF ChainedInv
  <2>. QED
    BY <2>1, <2>2 DEF ChainedInv, BlocksInLiveChunk, BlocksDisjoint, null, NULL
<1>4. CASE UNCHANGED vars
  <2>1. UNCHANGED << chunk, live, current_chunk, chunk_at, chunk_end, block_size, blocks >>
    BY <1>4 DEF vars, fields
  <2>. QED
    BY <2>1 DEF ChainedInv, BlocksInLiveChunk, BlocksDisjoint, NULL
<1>. QED
  BY <1>1, <1>2, <1>3, <1>4 DEF Next

(* For requests of at least one byte the chained allocator keeps its      *)
(* invariant on every build and through every growth, out-of-memory exit   *)
(* and rewind.                                                            *)
THEOREM ChainedSafe ==
  ASSUME PositiveRequests
  PROVE  Spec => []ChainedInv
<1>1. Init => ChainedInv
  <2>. SUFFICES ASSUME Init PROVE ChainedInv
    OBVIOUS
  <2>1. chunk = << >> /\ chunk \in Seq(Chunk) /\ Len(chunk) = 0
    BY DEF Init
  <2>2. BlockSize \in Nat
    BY ChainedAllocatorAssumption
  <2>. QED
    BY <2>1, <2>2 DEF Init, ChainedInv, BlocksInLiveChunk, BlocksDisjoint, null, NULL
<1>2. ChainedInv /\ [Next]_vars => ChainedInv'
  BY ChainedInvStep
<1>. QED
  BY <1>1, <1>2, PTL DEF Spec

(* Every block malloc returned since the last rewind lies in data[] of a  *)
(* chunk the free store still has handed out, whatever the build, the      *)
(* growth of block_size and the order of calls.                            *)
THEOREM BlocksInLiveChunkCorrect ==
  ASSUME PositiveRequests
  PROVE  Spec => []BlocksInLiveChunk
BY ChainedSafe, PTL DEF ChainedInv

(* Blocks returned since the last rewind never share a byte. *)
THEOREM BlocksDisjointChained ==
  ASSUME PositiveRequests
  PROVE  Spec => []BlocksDisjoint
BY ChainedSafe, PTL DEF ChainedInv

-----------------------------------------------------------------------------
(***************************************************************************)
(* size() <= capacity(), for every request size.                           *)
(***************************************************************************)

(* The cursor malloc tests is chunk_at, realigned on ARM: in the same     *)
(* chunk and never behind chunk_at.                                        *)
LEMMA CursorAhead ==
  ASSUME chunk_at \in [chunk : Nat, offset : Nat]
  PROVE  /\ Cursor \in [chunk : Nat, offset : Nat]
         /\ chunk_at.offset <= Cursor.offset
<1>1. CASE arm
  <2>1. /\ Realigned(chunk_at) \in [chunk : {chunk_at.chunk}, offset : Nat]
        /\ chunk_at.offset <= Realigned(chunk_at).offset
    BY RealignedForward
  <2>. QED
    BY <1>1, <2>1 DEF Cursor
<1>2. CASE ~arm
  BY <1>2 DEF Cursor
<1>. QED
  BY <1>1, <1>2

(* Every step keeps SizeInv: a hand-out moves bytes from the room to       *)
(* used, realign() only shrinks the room, add_chunk adds a chunk of at     *)
(* least the request to allocated, and rewind() empties everything.        *)
LEMMA SizeInvStep ==
  ASSUME SizeInv, [Next]_vars
  PROVE  SizeInv'
<1>0. /\ used \in Nat /\ allocated \in Nat /\ block_size \in Nat
      /\ chunk_at \in [chunk : Nat, offset : Nat]
      /\ chunk_end \in [chunk : Nat, offset : Nat]
      /\ used + Room <= allocated
      /\ Room \in Nat
  BY DEF SizeInv, Room
<1>1. CASE UNCHANGED fields
  BY <1>0, <1>1 DEF fields, SizeInv, Room
<1>2. ASSUME NEW bytes \in Requests, malloc(bytes),
             Cursor.offset + bytes > chunk_end.offset, alloc(ChunkRequest(bytes))
      PROVE  SizeInv'
  <2>. DEFINE cs == IF bytes > block_size THEN bytes ELSE block_size
              id == Len(chunk) + 1
  <2>1. add_chunk(bytes) /\ HandOut([chunk |-> current_chunk', offset |-> 0], bytes)
    BY <1>2 DEF malloc, Cursor
  <2>2. bytes \in Nat /\ cs \in Nat /\ bytes <= cs
    BY <1>0, ChainedAllocatorAssumption DEF cs
  <2>3. /\ chunk_end' = [chunk |-> id, offset |-> cs]
        /\ allocated' = allocated + cs
        /\ block_size' = cs
        /\ current_chunk' = id
    BY <2>1 DEF add_chunk
  <2>4. chunk_at' = [chunk |-> id, offset |-> 0 + bytes] /\ used' = used + bytes
    BY <2>1, <2>3 DEF HandOut
  <2>5. id \in Nat
    <3>1. chunk' = Append(chunk, [next_chunk |-> current_chunk, chunk_size |-> cs])
      BY <2>1 DEF add_chunk
    <3>. QED
      BY <2>3 DEF id
  <2>6. Room' = cs - bytes
    BY <2>2, <2>3, <2>4 DEF Room
  <2>. QED
    BY <1>0, <2>2, <2>3, <2>4, <2>6 DEF SizeInv
<1>3. ASSUME NEW bytes \in Requests, malloc(bytes),
             Cursor.offset + bytes > chunk_end.offset, ~alloc(ChunkRequest(bytes))
      PROVE  SizeInv'
  <2>1. UNCHANGED fields
    BY <1>3 DEF malloc, Cursor
  <2>. QED
    BY <2>1, <1>1
<1>4. ASSUME NEW bytes \in Requests, malloc(bytes),
             ~(Cursor.offset + bytes > chunk_end.offset)
      PROVE  SizeInv'
  <2>1. /\ HandOut(Cursor, bytes)
        /\ UNCHANGED << chunk_end, allocated, block_size >>
    BY <1>4 DEF malloc, Cursor
  <2>2. Cursor \in [chunk : Nat, offset : Nat] /\ chunk_at.offset <= Cursor.offset
    BY <1>0, CursorAhead
  <2>3. bytes \in Nat
    BY ChainedAllocatorAssumption
  <2>4. chunk_at' = [chunk |-> Cursor.chunk, offset |-> Cursor.offset + bytes]
        /\ used' = used + bytes
    BY <2>1, <2>2 DEF HandOut
  <2>5. Room' = chunk_end.offset - (Cursor.offset + bytes)
    BY <1>0, <1>4, <2>1, <2>2, <2>3, <2>4 DEF Room
  <2>6. used' + Room' <= used + Room
    BY <1>0, <1>4, <2>2, <2>3, <2>4, <2>5 DEF Room
  <2>. QED
    BY <1>0, <2>1, <2>2, <2>3, <2>4, <2>5, <2>6 DEF SizeInv
<1>5. CASE realign
  <2>1. chunk_at' = Realigned(chunk_at) /\ UNCHANGED << chunk_end, used, allocated, block_size >>
    BY <1>5 DEF realign
  <2>2. /\ Realigned(chunk_at) \in [chunk : {chunk_at.chunk}, offset : Nat]
        /\ chunk_at.offset <= Realigned(chunk_at).offset
    BY <1>0, RealignedForward
  <2>3. Room' <= Room
    BY <1>0, <2>1, <2>2 DEF Room
  <2>. QED
    BY <1>0, <2>1, <2>2, <2>3 DEF SizeInv, Room
<1>6. CASE rewind
  <2>1. /\ used' = 0 /\ allocated' = 0 /\ chunk_at' = null /\ chunk_end' = null
        /\ block_size' = block_size
    BY <1>6 DEF rewind
  <2>. QED
    BY <1>0, <2>1 DEF SizeInv, Room, null, NULL
<1>7. CASE UNCHANGED vars
  BY <1>7, <1>1 DEF vars
<1>. QED
  BY <1>2, <1>3, <1>4, <1>5, <1>6, <1>7 DEF Next

(* size() never exceeds capacity(), whatever the requests, the build and  *)
(* the order of calls: realign()'s padding and the room left at the end of *)
(* a chunk are counted in capacity() but never in size().                  *)
THEOREM SizeWithinCapacityCorrect == Spec => []SizeWithinCapacity
<1>1. Init => SizeInv
  <2>. SUFFICES ASSUME Init PROVE SizeInv
    OBVIOUS
  <2>1. BlockSize \in Nat
    BY ChainedAllocatorAssumption
  <2>. QED
    BY <2>1 DEF Init, SizeInv, Room, null, NULL
<1>2. SizeInv /\ [Next]_vars => SizeInv'
  BY SizeInvStep
<1>3. SizeInv => SizeWithinCapacity
  BY DEF SizeInv, Room, SizeWithinCapacity, size, capacity
<1>. QED
  BY <1>1, <1>2, <1>3, PTL DEF Spec

=============================================================================
