--------------------------- MODULE AllocatorChained ---------------------------
(***************************************************************************)
(* The chained block allocator of src/source/allocator.h.  malloc(bytes)   *)
(* bumps chunk_at through the current chunk; when the request does not    *)
(* fit (chunk_at + bytes > chunk_end) add_chunk(bytes) gets a new chunk    *)
(* from the C++ free store and pushes it on the list of chunks, and when    *)
(* the free store has none left the process exits.  On ARM builds malloc   *)
(* realigns first.  rewind() hands every chunk back to the free store.     *)
(*                                                                         *)
(* Only the inline malloc and the accessors have bodies in src; the        *)
(* constructor, add_chunk, realign and rewind are modelled from the        *)
(* contracts their declarations document.                                  *)
(*                                                                         *)
(* A chunk is named by its position in the sequence chunk of chunks made   *)
(* so far (0 is NULL); a pointer into data[] is a chunk and an offset.     *)
(* live is the free store's state: the chunks handed out and not freed.    *)
(* blocks (the blocks returned since the last rewind) and rewinds (a       *)
(* bound) are not program state.                                           *)
(***************************************************************************)
EXTENDS Integers, Sequences, FiniteSetsExt

CONSTANTS
  BlockSize,   \* block_size_for_allocation, the constructor argument
  Header,      \* sizeof(allocator::chunk), allocated ahead of data[]
  WordSize,    \* the machine-word boundary realign() pads to
  FreeStore,   \* bytes the C++ free store can hand out
  Requests,    \* byte counts callers pass to malloc
  MaxRewinds   \* bound on rewind calls

ASSUME ChainedAllocatorAssumption ==
  /\ BlockSize \in Nat \ {0}
  /\ Header \in Nat
  /\ WordSize \in Nat \ {0}
  /\ FreeStore \in Nat
  /\ Requests \subseteq Nat
  /\ MaxRewinds \in Nat

(* Every request is for at least one byte.  malloc(0) on an allocator    *)
(* with no chunk yet hands back chunk_at, which is NULL: not a byte of any *)
(* chunk.  The proofs about blocks take this as a hypothesis.              *)
PositiveRequests == 0 \notin Requests

VARIABLES
  chunk,          \* the chunks made so far: [next_chunk, chunk_size] each
  live,           \* chunks ::malloc handed out and ::free did not take back
  current_chunk,  \* chunk *current_chunk, the head of the list
  chunk_at,       \* uint8_t *chunk_at, the next byte to hand out
  chunk_end,      \* uint8_t *chunk_end, the end of the current chunk
  used,           \* size_t used, bytes handed back to callers
  allocated,      \* size_t allocated, bytes of the chunks in the list
  block_size,     \* size_t block_size, the size of the next chunk
  arm,            \* the build defines __arm__
  blocks,         \* blocks returned since the last rewind
  exited,         \* malloc called exit() on running out of memory
  rewinds         \* rewind calls so far

NULL == 0

null == [chunk |-> NULL, offset |-> 0]

(* class chunk: the link to the previous chunk and the size of data[]. *)
Chunk == [next_chunk : Nat, chunk_size : Nat]

(* The members of class allocator. *)
fields == << current_chunk, chunk_at, chunk_end, used, allocated, block_size >>

vars == << fields, chunk, live, arm, blocks, exited, rewinds >>

(* capacity(): the bytes allocated to the object. *)
capacity == allocated

(* size(): the bytes handed back to callers. *)
size == used

(* A set of chunks the walk along next_chunk never leaves. *)
ChainClosed(S) ==
  \A c \in S : chunk[c].next_chunk # NULL => chunk[c].next_chunk \in S

(* The chunks on the list from current_chunk, following next_chunk (the   *)
(* walk of rewind()): the least set of chunks that holds current_chunk     *)
(* unless it is NULL and is closed under next_chunk.                        *)
Chain ==
  { c \in 1 .. Len(chunk) :
      \A S \in SUBSET (1 .. Len(chunk)) :
        (ChainClosed(S) /\ (current_chunk # NULL => current_chunk \in S)) => c \in S }

(* Bytes the free store has handed out: every live chunk with its header. *)
LiveBytes == MapThenSumSet(LAMBDA c : Header + chunk[c].chunk_size, live)

(* alloc(size) = ::malloc(size): NULL when the free store cannot serve it. *)
alloc(request_size) == LiveBytes + request_size <= FreeStore

(* dealloc(buffer) = ::free(buffer), for each chunk of a set. *)
dealloc(cs) == live' = live \ cs

(* The constructor: no chunk yet, both cursors NULL, so the first malloc  *)
(* adds a chunk.                                                          *)
Init ==
  /\ chunk = << >>
  /\ live = {}
  /\ current_chunk = NULL
  /\ chunk_at = null
  /\ chunk_end = null
  /\ used = 0
  /\ allocated = 0
  /\ block_size = BlockSize
  /\ arm \in BOOLEAN
  /\ blocks = {}
  /\ exited = FALSE
  /\ rewinds = 0

(* realign(): the least padding that puts chunk_at on a word boundary     *)
(* (data[] of a chunk from ::malloc starts on one).                       *)
Realigned(p) == [p EXCEPT !.offset = @ + ((WordSize - (@ % WordSize)) % WordSize)]

(* Mutant: the new chunk counted at block_size, not at its real size. *)
add_chunkCountsBlockSize(bytes) ==
  LET chunk_size == IF bytes > block_size THEN bytes ELSE block_size
      id == Len(chunk) + 1
  IN  /\ chunk' = Append(chunk, [next_chunk |-> current_chunk, chunk_size |-> chunk_size])
      /\ live' = live \cup {id}
      /\ current_chunk' = id
      /\ chunk_end' = [chunk |-> id, offset |-> chunk_size]
      /\ allocated' = allocated + block_size
      /\ block_size' = chunk_size

(* add_chunk(bytes), once alloc has succeeded: a chunk of at least bytes  *)
(* and at least block_size (a larger request becomes the new block_size),  *)
(* pushed on the list; chunk_end moves to its end.  malloc then hands out  *)
(* from its start.                                                         *)
add_chunk(bytes) ==
  LET chunk_size == IF bytes > block_size THEN bytes ELSE block_size
      id == Len(chunk) + 1
  IN  /\ chunk' = Append(chunk, [next_chunk |-> current_chunk, chunk_size |-> chunk_size])
      /\ live' = live \cup {id}
      /\ current_chunk' = id
      /\ chunk_end' = [chunk |-> id, offset |-> chunk_size]
      /\ allocated' = allocated + chunk_size
      /\ block_size' = chunk_size

(* The size add_chunk(bytes) asks alloc for. *)
ChunkRequest(bytes) == Header + (IF bytes > block_size THEN bytes ELSE block_size)

(* Mutant: chunk_at += bytes before answer = chunk_at. *)
HandOutAdvanceFirst(p, bytes) ==
  /\ blocks' = blocks \cup {[chunk |-> p.chunk, offset |-> p.offset + bytes, size |-> bytes]}
  /\ chunk_at' = [p EXCEPT !.offset = @ + bytes]
  /\ used' = used + bytes

(* answer = chunk_at; chunk_at += bytes; used += bytes, from p. *)
HandOut(p, bytes) ==
  /\ blocks' = blocks \cup {[chunk |-> p.chunk, offset |-> p.offset, size |-> bytes]}
  /\ chunk_at' = [p EXCEPT !.offset = @ + bytes]
  /\ used' = used + bytes

(* malloc(bytes): realign() on ARM; if the request does not fit in the     *)
(* current chunk add one, and if that fails exit(printf(...)) (return NULL *)
(* is never reached); then hand out chunk_at.                              *)
malloc(bytes) ==
  LET at == IF arm THEN Realigned(chunk_at) ELSE chunk_at
  IN  /\ ~exited
      /\ IF at.offset + bytes > chunk_end.offset
         THEN IF alloc(ChunkRequest(bytes))
              THEN /\ add_chunk(bytes)
                   /\ HandOut([chunk |-> current_chunk', offset |-> 0], bytes)
                   /\ UNCHANGED exited
              ELSE /\ exited' = TRUE
                   /\ UNCHANGED << chunk, live, fields, blocks >>
         ELSE /\ HandOut(at, bytes)
              /\ UNCHANGED << chunk, live, current_chunk, chunk_end, allocated, block_size >>
              /\ UNCHANGED exited
      /\ UNCHANGED << arm, rewinds >>

(* realign(), called by the user. *)
realign ==
  /\ ~exited
  /\ chunk_at' = Realigned(chunk_at)
  /\ UNCHANGED << chunk, live, current_chunk, chunk_end, used, allocated, block_size,
                 arm, blocks, exited, rewinds >>

(* Mutant: the chunks are freed but chunk_at and chunk_end still point     *)
(* into the last one.                                                      *)
rewindKeepCursor ==
  /\ ~exited
  /\ rewinds < MaxRewinds
  /\ dealloc(Chain)
  /\ current_chunk' = NULL
  /\ used' = 0
  /\ allocated' = 0
  /\ blocks' = {}
  /\ rewinds' = rewinds + 1
  /\ UNCHANGED << chunk, chunk_at, chunk_end, block_size, arm, exited >>

(* rewind(): every chunk on the list goes back to the free store and the   *)
(* object is empty again; the pointers handed out become invalid.          *)
rewind ==
  /\ ~exited
  /\ rewinds < MaxRewinds
  /\ dealloc(Chain)
  /\ current_chunk' = NULL
  /\ chunk_at' = null
  /\ chunk_end' = null
  /\ used' = 0
  /\ allocated' = 0
  /\ blocks' = {}
  /\ rewinds' = rewinds + 1
  /\ UNCHANGED << chunk, block_size, arm, exited >>

Next ==
  \/ \E bytes \in Requests : malloc(bytes)
  \/ realign
  \/ rewind

Spec == Init /\ [][Next]_vars

-----------------------------------------------------------------------------
(* Every block malloc returned since the last rewind lies inside data[] of *)
(* a chunk the free store still has handed out: the fit test, add_chunk's  *)
(* sizing for large requests, ARM's realign before the test and rewind's  *)
(* reset of the cursors together never hand out freed or foreign memory.  *)
BlocksInLiveChunk ==
  \A b \in blocks :
    /\ b.chunk \in live
    /\ b.offset + b.size <= chunk[b.chunk].chunk_size

(* Blocks returned since the last rewind never share a byte. *)
BlocksDisjoint ==
  \A b, c \in blocks :
    (b # c /\ b.chunk = c.chunk) =>
      (b.offset + b.size <= c.offset \/ c.offset + c.size <= b.offset)

(* size() never exceeds capacity(): the bytes handed back fit in the       *)
(* chunks, whatever realign() wastes at the end of each and however large  *)
(* the request that made a chunk.                                          *)
SizeWithinCapacity == size <= capacity

(* The inductive invariant behind BlocksInLiveChunk and BlocksDisjoint    *)
(* (proved in AllocatorChained_proofs for requests of at least one byte): *)
(* both cursors point into current_chunk, which is live with chunk_end at  *)
(* its end, and every block of the current chunk ends below chunk_at.      *)
ChainedInv ==
  /\ chunk \in Seq(Chunk)
  /\ live \subseteq 1 .. Len(chunk)
  /\ current_chunk \in 0 .. Len(chunk)
  /\ chunk_at \in [chunk : {current_chunk}, offset : Nat]
  /\ chunk_end \in [chunk : {current_chunk}, offset : Nat]
  /\ block_size \in Nat
  /\ current_chunk = NULL => chunk_end.offset = 0
  /\ current_chunk # NULL =>
       /\ current_chunk \in live
       /\ chunk_end.offset = chunk[current_chunk].chunk_size
  /\ blocks \subseteq [chunk : Nat, offset : Nat, size : Nat]
  /\ \A b \in blocks : b.chunk = current_chunk => b.offset + b.size <= chunk_at.offset
  /\ BlocksInLiveChunk
  /\ BlocksDisjoint


(* The bytes left between the cursor and the end of the current chunk   *)
(* (none once realign() has pushed the cursor past the end).              *)
Room == IF chunk_end.offset > chunk_at.offset
        THEN chunk_end.offset - chunk_at.offset ELSE 0

(* The inductive invariant behind SizeWithinCapacity (proved in           *)
(* AllocatorChained_proofs for every request size): what was handed out   *)
(* plus the room left in the current chunk is at most capacity().         *)
SizeInv ==
  /\ used \in Nat
  /\ allocated \in Nat
  /\ block_size \in Nat
  /\ chunk_at \in [chunk : Nat, offset : Nat]
  /\ chunk_end \in [chunk : Nat, offset : Nat]
  /\ used + Room <= allocated

=============================================================================
