# TLA+ models of the JASS ranking engine and its arenas

This directory holds the formal models of JASS's query-time machinery. It covers
the accumulator-and-heap engine `query_atire_global` and the fixed-buffer arena
`allocator_memory`, in its single-threaded and thread-safe versions, and the
chained block allocator `allocator`. Each module
is translated from the source files under `src/`. `PROJECT.json` maps every
modelling definition to the lines it stands for.

## The system

| part | source | what it does |
|---|---|---|
| query engine | `src/unnamed/part_000` | Process-wide arrays `accumulators[]`, `clean_flags[10]` and `accumulator_pointers[]` (P), the count `results_list_length` (L), and a heap `top_results` over P. The constructor computes the strip geometry and calls `rewind()`. `add_rsv(docid, score)` is called once per posting. `begin()` sorts P and returns the iterator. |
| accumulator table | same | Documents are cut into strips of `width = 2^shift` cells. `clean_flags[strip] == 0` means the strip is logically zero. The first `add_rsv` into a clean strip memsets it and sets the flag. `rewind()` clears only the flags. |
| heap, partial sort | `heap.h`, `top_k_qsort.h` (not in `src/`) | `make_heap`, `promote`, `push_back` and `top_k_qsort` act on P with `add_rsv_compare` (score first, then address). |
| older engine | `src/source/query_atire_global.h` | The same `add_rsv` control flow over `ANT_heap`, with a heap of `top_k` and `new`-allocated arrays. |
| arena | `src/source/allocator_memory.cpp` | A bump allocator over a caller's buffer: `malloc(bytes)`, `realign()` and `rewind()`. `exit()` on out of memory. |
| atomic arena | `src/unnamed/part_001` | `malloc(bytes, alignment)` is a compare-and-swap loop on an atomic `used`. |
| chained allocator | `src/source/allocator.h` | A bump allocator over a linked list of chunks from `::malloc`. Its inline `malloc` adds a chunk when the request does not fit and exits when none can be had. `add_chunk`, the constructor, `realign` and `rewind` are in `allocator.cpp`, which is not in the sources. |

The parts interact as follows. The posting decoder calls `add_rsv` for each
posting of a query, between a `rewind()` and a `begin()`. The engine's parser
draws its memory from an arena. That dependency is not modelled, because no
engine state depends on what the arena returns.

## Modules

* **`QueryAtireGlobal`** models the engine of `part_000`.
  * **State:** `accumulators` (cells `0 .. width*height-1`, values modulo
    `2^ScoreBits`, like `uint16_t`), `clean_flags`, `accumulator_pointers` (cells
    or `nullptr`, `-1`) and `results_list_length`.
  * **Ghost state:** `sums` holds the brute-force per-document total of the
    current query, in the same wrapped arithmetic. `adds` and `queries` bound
    the run. `phase` is the caller's protocol of spec 4.5. `AddAfterBegin` lets
    the caller go on with `add_rsv` after `begin()`, which spec line 113 allows
    for and line 115 forbids.
  * **Actions:** `add_rsv(d, s)` is the whole handler: the lazy strip clear
    (`Touch`), `*which += score`, and one of its three branches:
    * `PlonkIn`: not full. Append on `old_value == 0`, then `make_heap` once L
      reaches top_k.
    * `UpdateInHeap`: the in-heap test `cmp(which, P[0]) >= 0` on the old value,
      then `promote`.
    * `MaybeInsert`: the re-compare on the new value, then `push_back`.

    `rewind` sets L to 0 and clears the flags. `begin` is `sort()`.
  * **Iterator:** `Results` is what the iterator yields.
  * **Heap operators:** they are not in the sources, so they are modelled from
    the spec and marked `spec_modelled`.
    * `promote` and `push_back` are the sift-down of an implicit binary
      min-heap, given in closed form (`OnSiftPath`).
    * `make_heap` and `top_k_qsort` are given as the set of arrangements they
      may produce.
  * **Heap size:** `HeapSize` is the heap's size, a constant separate from
    `TopK` because the code fixes it at 10.
* **`QueryAtireGlobalAnt`** models the older engine of
  `source/query_atire_global.h`.
  * Its `add_rsv`, `rewind`, `begin` and iterator have the same statements as
    those of `part_000`, so they are those of `QueryAtireGlobal` with
    `HeapSize <- TopK`. The `ANT_heap` there is sized `top_k`. The instance is
    taken through `QueryAtireGlobal_proofs`, so that the lemmas proved there
    apply to its definitions.
  * Its constructor is its own. `accumulators` and `accumulator_pointers` come
    from `new[]` uninitialised, which is modelled as any values from `Garbage`
    and `GarbagePointers`. Only `clean_flags` is zeroed, and no `rewind()` is
    called.
  * `GarbageAssumption`: a garbage accumulator is some `uint16_t` value, and a
    garbage pointer slot is a cell or null, as every pointer of the model is.
* **`QueryAtireGlobal_proofs`** and **`QueryAtireGlobalAnt_proofs`** hold the
  TLAPS proofs about the two engines.
* **`AllocatorMemory`** models `source/allocator_memory.cpp`.
  * `malloc`, `realign` and `rewind` are actions. `size_t` arithmetic is modulo
    `2^WordBits`.
  * `exited` records the `exit()` the code calls on out of memory. The
    `return nullptr` after it is unreachable.
  * `blocks` is the ghost set of blocks handed out since the last rewind.
* **`AllocatorMemory_proofs`** holds the TLAPS proofs about it.
* **`AllocatorMemoryCAS`** models `part_001`. Each thread's `malloc` is split
  into three steps:
  * `call` chooses the arguments.
  * `load` reads `used` and computes the padding, the capacity test, `answer`
    and `new_used` from it. Only the load touches shared state, so the local
    computation belongs in the same step.
  * `cas` is `compare_exchange_strong`. On failure it goes back to `load`.

  `rewind` stores 0 at any point, in the middle of any thread's loop.
  `FairSpec` adds weak fairness on each thread's `load` and `cas`.
  `Linearizable` is `Arena!Spec` for `Arena == INSTANCE ArenaAllocator`; the
  mapping is the identity on `used`, `blocks`, `exited` and `rewinds`.
* **`ArenaAllocator`** is the abstract arena of spec 4.1: `Malloc` pads,
  tests and hands out the block in one atomic step with exact arithmetic, and
  `Rewind` resets it. It is what a caller of either arena may rely on.
* **`AllocatorMemoryCAS_proofs`** holds the TLAPS proofs about the CAS arena.
* **`AllocatorChained`** models `source/allocator.h`.
  * **State:** the class members `current_chunk`, `chunk_at`, `chunk_end`,
    `used`, `allocated` and `block_size`; `chunk`, the chunks made so far
    (`next_chunk`, `chunk_size`), named by position; and `live`, the chunks the
    free store has handed out and not taken back. A pointer is a chunk and an
    offset into its `data[]`. `arm` says whether the build defines `__arm__`.
  * **Actions:** `malloc(bytes)` is the inline body: `realign()` on ARM, the fit
    test `chunk_at + bytes > chunk_end`, then either `add_chunk` and the hand-out
    from the new chunk, or `exit()` when `alloc` (the free store) fails, or the
    hand-out from the current chunk. `realign` and `rewind` are the user calls.
  * **From the contracts:** `add_chunk` makes a chunk of `max(bytes,
    block_size)`, links it to the old head and counts it in `allocated`;
    `rewind` frees every chunk on the list and nulls the cursors. These and the
    constructor are marked `spec_modelled`.
  * `FreeStore` bounds the bytes `::malloc` can hand out, headers included, so
    out-of-memory is reached.
  * `Chain`, the chunks `rewind` walks from `current_chunk` along
    `next_chunk`, is defined without recursion: the least set of positions
    that holds the head and is closed under `next_chunk` (`ChainClosed`).
* **`AllocatorChained_proofs`** holds the TLAPS proofs about it.
* **`MC_*`** modules give the model values, and each `.cfg` is one run.

## Runs

| run | cfg | result | shows |
|---|---|---|---|
| engine_core | `MC_QueryAtireGlobal.cfg` | pass, 982,980 states | See below. |
| engine_wrap | `MC_QueryAtireGlobal_wrap.cfg` | violation of `ResultsDistinct` | Postings 1+1+2 wrap a 2-bit accumulator to 0. The next posting is then taken for a first one, and the document is appended to P twice. |
| engine_heap_fixed | `MC_QueryAtireGlobal_heap.cfg` | violation of `TrackedIsTopK` | With top_k = 3 and a heap of 2 (the code's fixed heap of 10 with top_k > 10), `push_back` overwrites the root with a document already held in the slot outside the heap. That document is duplicated and a top-k document is lost. |
| engine_ant | `MC_QueryAtireGlobalAnt.cfg` | pass, 104,448 states | The older engine, started from garbage accumulators (0 or 9) and garbage pointer slots, is correct from its first query on. The constructor's memset of `clean_flags` is what makes it so: without it `LazyClearSound` fails in the initial state. |
| allocator_core | `MC_AllocatorMemory.cfg` | pass | Blocks are disjoint and inside the buffer. `used` exceeds `allocated` by less than one alignment boundary (`TypeOK`), even though `realign` may push it past `allocated`. |
| allocator_wrap | `MC_AllocatorMemory_wrap.cfg` | violation of `BlocksInBuffer` | A request of `SIZE_MAX` bytes wraps `used + bytes` below `allocated` and gets a block past the end of the buffer. |
| allocator_cas | `MC_AllocatorMemoryCAS.cfg` | pass, 4.3M states | Three threads race `malloc` with a rewind landing anywhere. The blocks are disjoint (`BlocksDisjoint`) and inside the buffer. |
| allocator_cas_live | `MC_AllocatorMemoryCAS_live.cfg` | pass, 260,416 states | Two threads under `FairSpec`. Every `malloc` returns or the process exits (`MallocReturns`). The CAS loop implements the atomic arena (`Linearizable`). |
| chained_core | `MC_AllocatorChained.cfg` | pass, 4,505 states | On ARM and non-ARM builds, through growth, an oversized request, the out-of-memory exit and a rewind: blocks lie in live chunks and are disjoint, and `size()` never exceeds `capacity()`. |
| engine_flags | `MC_QueryAtireGlobal_flags.cfg` | violation of `CleanFlagsInBounds` | With the constructor's default of 1024 documents there are 33 strips, and `rewind`'s memset and `add_rsv` index `clean_flags[10]` past its end. |
| engine_add_after_begin | `MC_QueryAtireGlobal_after_begin.cfg` | violation of `TrackedIsTopK` | With `AddAfterBegin`, `add_rsv(0,1)` after `begin()` compares with `P[0]`, which the sort made the maximum. `push_back` replaces document 1 by document 0, which is already in P. |

engine_core checks `LazyClearSound`, `TrackedIsTopK`, `HeapOrdered` and
`ResultsMatchBruteForce` over every interleaving of postings and rewinds.

* the lazily zeroed accumulators always equal the brute-force sums;
* P holds exactly the brute-force top-k, each document once;
* the heap is a min-heap whenever it is in use;
* `begin()` yields the top-k in the spec's order, with their scores.

### Bounds

* **Engine:**
  * 5 documents give a width of 2 and 3 strips, so one strip holds two
    documents and lazy zeroing of a shared strip is exercised.
  * top_k = 3 and a heap of 3 are enough for the heap to fill and for every
    branch to fire: append, `make_heap`, `promote`, `push_back` and
    no-insert.
  * 5 postings of impact 1 or 2 reach ties (the address tie-break) and
    evictions.
  * One rewind, so a second query runs over the first query's stale
    accumulators and pointers.
* **Allocators:**
  * Buffers of 5 to 6 bytes with requests of 1 to 3 bytes fill up in several
    ways.
  * An alignment of 2 or 4 makes padding happen.
  * Three threads let a CAS fail more than once.
  * 4- or 5-bit `size_t` is enough to show the wrap when a request near
    `SIZE_MAX` is included.
  * Chained: a block size of 4, requests of 1, 3 and 5 bytes (5 is larger
    than a block), a 1-byte header and a free store of 14 bytes reach a third
    chunk, the growth of `block_size` and the out-of-memory exit; a word of 2
    makes `realign` pad; one rewind frees a chain of several chunks.
  * The liveness run uses two threads, which already makes a CAS fail and
    retry; it checks the temporal properties without symmetry.

### Fairness and deadlock

Only allocator_cas_live assumes fairness: weak fairness of each thread's
`load` and `cas`. A thread that is inside `malloc` is runnable and the
scheduler eventually runs it; nothing in the loop blocks. `call` and `rewind`
are the callers' choice and get no fairness. The engine is driven
single-threaded by its caller, so nothing in it makes progress on its own.

The allocator runs say `CHECK_DEADLOCK FALSE`. The reason is that `exit()` on
out of memory really ends the process, which leaves a state with no successor.

### Mutants

Every property of a passing run is broken by a mutant of the code it is about
(see `PROJECT.json`):

| mutated operator | mutant | property it breaks |
|---|---|---|
| `PlonkIn` | the not-full test off by one | `TypeOK` |
| `PlonkIn` | appends on every posting | `TrackedIsTopK` |
| `rewind` | keeps the flags | `LazyClearSound` |
| `InHeap` | `>` in place of `>=` | `HeapOrdered` |
| `begin` | without `sort()` | `ResultsMatchBruteForce` (both engines) |
| older engine's `Init` | without the memset of `clean_flags` | `LazyClearSound` |
| older engine's `add_rsv` | over a heap of one slot | `TrackedIsTopK` |
| `realign` (single-threaded) | rounds down, or pads when already aligned | `BlocksDisjoint`, `TypeOK` |
| `malloc` (single-threaded) | capacity test off by one | `BlocksInBuffer` |
| `cas` | a plain store | `BlocksDisjoint` |
| `load` | leaves the padding out of the capacity test | `BlocksInBuffer` |
| `cas` | a failed CAS does not reload `used` | `MallocReturns` |
| `cas` | a plain store | `Linearizable` |
| chained `HandOut` | advances `chunk_at` before taking the answer | `BlocksDisjoint` |
| chained `add_chunk` | counts `block_size` instead of the chunk's size | `SizeWithinCapacity` |
| chained `rewind` | frees the chunks but keeps the cursors | `BlocksInLiveChunk` |

## Proofs

`tlapm` checks five modules. Each result holds for every value of the
constants that satisfies the assumptions of the module that declares them,
and for some results a hypothesis stated in the theorem (`ASSUME ... PROVE`).

### The engine (`QueryAtireGlobal_proofs`)

Assumptions:

* `ConstantsAssumption`: positive documents and top_k, and heap size at most
  top_k.
* `PowerAssumption`: `2^ScoreBits` and the width are positive naturals. This is
  stated because the provers know nothing about `^`.

Results:

* **`TypeCorrect`: `Spec => []TypeOK`.** `TypeOK` is inductive, and
  `TypeStep` proves its step case. It rests on several lemmas:
  * `Geometry`: every document's strip is a strip, and the documents lie inside
    the cells.
  * One typing lemma per helper: `Touch`, `SiftDown`, `promote`, `push_back`,
    and via `ArrangeType` also `make_heap` and the sort.
* **`LazyClearCorrect`: `Spec => []LazyClearSound`.**
  * The inductive invariant is `LazyClearInv == TypeOK /\ LazyClearSound`
    (lemma `LazyClearInvariant`). The step that zeroes a whole strip on its
    first touch needs to know that no document of a clean strip has a score
    this query. That follows from `LazyClearSound` itself, because a clean
    strip reads as 0.
  * The model gives `clean_flags` one flag per strip. `part_000` declares
    `clean_flags[10]`, so the theorem describes the code only while
    `accumulators_height <= 10`: fewer than 40 documents, or 64 to 79.
    engine_flags shows the overflow beyond that.
  * The step lemma `LazyClearStep` rests on `TouchSameStrip` (after `Touch`, a
    cell of the touched strip holds the document's sum) and on
    `TouchOtherStrip` (other strips are untouched). Both use
    `StripCellsExact`: the memset's range is exactly the strip
    `docid >> shift`.

### The older engine (`QueryAtireGlobalAnt_proofs`)

* **`AntLazyClearCorrect`: `Spec => []LazyClearSound`**, for the constructor
  that leaves the accumulators and pointer slots as `new[]` returned them.
  * The steps are the engine's, so `LazyClearStep` is cited through the
    instance `E`. `EngineAssumption` gives the engine's assumptions for
    `HeapSize = TopK`.
  * Only the initial states need an argument of their own (`AntInitInv`).
    Every strip starts clean, so every document reads as 0, whatever the
    garbage. `GarbageAssumption` gives the garbage its type.

### The single-threaded arena (`AllocatorMemory_proofs`)

These results hold under the hypothesis `NoWrap`: allocated plus one
alignment boundary plus any request fits in `size_t`. allocator_wrap shows the
wrap breaks `BlocksInBuffer`, so the hypothesis is needed.

* **`MemorySafe`: `Spec => []MemInv`.** `MemInv` is the inductive invariant:
  * `TypeOK`;
  * `used` passes `allocated` only when it is a multiple of the boundary,
    i.e. right after `realign`;
  * every block ends at or below both `used` and `allocated`;
  * `BlocksDisjoint`.

  The second conjunct is what lets the step through `realign`. An aligned
  `used` gets no padding, so `realign` can push `used` past `allocated` at
  most once, by less than one boundary. `AlignUp` proves the padding
  `a - used % a` aligns `used`. `NoWrapMod` proves that a sum below
  `2^WordBits` is its own residue.
* **`TypeCorrect`**, **`BlocksInBufferCorrect`** and **`BlocksDisjointCorrect`**
  follow from it.

### The CAS arena (`AllocatorMemoryCAS_proofs`)

These results hold for every set of threads and every capacity, alignments and
requests under `CASAllocatorAssumption`, with the hypothesis `NoWrap`
(capacity + request + alignment fits in `size_t`, so no sum of the loop wraps).

* **`Linearizability`: `Spec => Linearizable`.** The refinement mapping is the
  identity.
  * `call`, a `load` that passes the test and a failed `cas` are stutters of
    the arena.
  * A `load` that fails the test is the arena's failing `Malloc`, and a
    successful `cas` is its succeeding `Malloc`.
  * The successful `cas` needs the inductive invariant `CASInv`. For a thread
    at `cas`, `answer` and `new_used` are what the arena would compute from
    `already_used` and the request, and `new_used` fits. With
    `used = already_used` (the CAS succeeds) they are then the arena's values
    for the current `used`.
  * `PaddingRange` shows that the code's padding is the arena's. `NoWrapSum`
    shows that the code's `% SizeMax` is the identity under `NoWrap`.
* **`CASBlocksInBuffer`** and **`CASBlocksDisjoint`** are proved on the arena and carried over through `Linearizability`.
  * On the arena they follow from `ArenaSafe` and the inductive `SafeInv`:
    every block ends at or below the cursor, the cursor stays in the buffer,
    and the blocks are disjoint and aligned.
  * `PaddingAligns` proves `(u + padding) % alignment = 0`, which `SafeInv`
    needs.
* **`CASTypeCorrect`** follows from `CASInv`.

### The chained allocator (`AllocatorChained_proofs`)

These results hold under the hypothesis `PositiveRequests` (no request of 0
bytes). `malloc(0)` before the first chunk returns `chunk_at`, which is NULL,
and TLC finds `BlocksInLiveChunk` violated when `0` is a request.

* **`ChainedSafe`: `Spec => []ChainedInv`.** `ChainedInv` is the inductive
  invariant:
  * the chain and the cursors are well typed;
  * `chunk_at` and `chunk_end` point into the current chunk, which is live, and
    `chunk_end` is its end (NULL cursors when there is no chunk);
  * every block of the current chunk ends at or below `chunk_at`;
  * `BlocksInLiveChunk` and `BlocksDisjoint`.

  `RealignedForward` and `CursorForward` prove that ARM's `realign()` only
  moves the cursor forward within the chunk. `GrowStep` covers the
  `add_chunk` branch: the new chunk is appended to `chunk` and the block is
  at its start. `FitStep` covers the hand-out from the current chunk.
* **`BlocksInLiveChunkCorrect`** and **`BlocksDisjointChained`** follow from
  it.

The next one holds for every request size, 0 included.

* **`SizeWithinCapacityCorrect`: `Spec => []SizeWithinCapacity`.** `size()`
  (`used`) never exceeds `capacity()` (`allocated`). `SizeInv` strengthens it
  to `used + Room <= allocated`, where `Room` is what is left between
  `chunk_at` and `chunk_end`. `CursorAhead` shows that ARM's `realign()` does
  not increase the room. `SizeInvStep` covers the rest:
  * a hand-out moves bytes from `Room` to `used`;
  * `add_chunk` adds the chunk's size to `allocated`, gives up the old room,
    and the hand-out from the new chunk leaves it `chunk_size - bytes`, with
    `chunk_size >= bytes`;
  * `rewind` zeroes `used`, `allocated` and the room.

### Only model-checked

The following are only model-checked, and why:

* The ranking properties (`TrackedIsTopK`, `HeapOrdered`,
  `ResultsMatchBruteForce`). They need the heap's order
  along sift paths, and cardinalities of sets of documents. These are
  statements about all inputs of a closed-form sift-down that would need
  induction over data.
* `MallocReturns`, which is liveness under fairness.

## Not modelled

* The query parser and `parse()`/`terms()`: no source.
* The chained allocator's destructor, and the overflow of the pointer sum
  `chunk_at + bytes` (offsets are exact integers there).
* Properties of the chunk list alone (that `rewind` frees every chunk, that
  `capacity()` is the sum of the chunk sizes). Only `add_chunk` and `rewind`
  change the list, and both are written from their contracts because
  `allocator.cpp` is not in the sources. Such a property would hold by how the
  model writes them, whatever the code does, so none is checked.
* The `unittest` functions.
* The CMake files.
* The passing engine runs keep the protocol of spec line 115 (no `add_rsv`
  after `begin()`; `AddAfterBegin = FALSE`) and small document counts, so
  `clean_flags` stays in bounds; the two violation runs show what happens
  otherwise.

## Plan

1. Check the closed-form sift-down against a recursive reference in a
   TLC-only module.
2. Prove `ResultsDistinct` (the non-wrapping case) and `HeapOrdered` as far as
   the provers allow.
3. Model the pointer overflow of `chunk_at + bytes` in the chained
   allocator's fit test (`allocator.h:232`).
