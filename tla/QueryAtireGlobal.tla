-------------------------- MODULE QueryAtireGlobal --------------------------
(***************************************************************************)
(* The accumulator-and-heap ranking engine of JASS (query_atire_global,    *)
(* src/unnamed/part_000).  One engine instance, driven by the term         *)
(* iterator: add_rsv(docid, score) for every posting, rewind() between     *)
(* queries, begin()/end() to read the top-k.                               *)
(*                                                                         *)
(* Cells are accumulator indices (the pointer accumulators + i is cell i,  *)
(* and pointer order is index order).  Accumulators are ACCUMULATOR_TYPE   *)
(* values of ScoreBits bits and wrap modulo 2^ScoreBits like uint16_t.     *)
(*                                                                         *)
(* heap.h and top_k_qsort.h are not among the sources: make_heap, promote, *)
(* push_back and top_k_qsort are modelled from the spec (section 4.3 and   *)
(* 4.4): promote and push_back as the sift-down of an implicit binary      *)
(* min-heap, make_heap and the sort by the arrangements they may produce.  *)
(*                                                                         *)
(* sums, adds, queries and phase are not program state: sums is the       *)
(* brute-force per-document total of the current query (summed in         *)
(* ACCUMULATOR_TYPE, i.e. modulo 2^ScoreBits), adds and queries           *)
(* bound the postings per query and the queries, phase records the        *)
(* caller's protocol (spec 4.5).                                           *)
(***************************************************************************)
EXTENDS Integers, FiniteSets, Functions

CONSTANTS
  Documents,  \* documents, the constructor argument
  TopK,       \* top_k, the constructor argument
  HeapSize,   \* the size given to the heap top_results (10 in the code)
  ScoreBits,  \* width in bits of ACCUMULATOR_TYPE (16 in the code)
  Scores,     \* impacts the posting-list decoder passes to add_rsv
  MaxAdds,    \* bound on add_rsv calls per query
  MaxQueries, \* bound on rewind calls
  AddAfterBegin  \* the caller may go on calling add_rsv after begin()

(* uint16_t accumulators[]: arithmetic is modulo 2^ScoreBits. *)
Modulus == 2 ^ ScoreBits

(* uint8_t clean_flags[10]: the dirty-flag array has a fixed size. *)
CleanFlagsSize == 10

(* The null pointer that fills accumulator_pointers before first use. *)
nullptr == -1

(* accumulators_shift = log2(sqrt(documents)), truncated. *)
accumulators_shift ==
  CHOOSE s \in 0 .. Documents : 4 ^ s <= Documents /\ Documents < 4 ^ (s + 1)

accumulators_width == 2 ^ accumulators_shift

accumulators_height == (Documents + accumulators_width) \div accumulators_width

ASSUME ConstantsAssumption ==
  /\ Documents \in Nat \ {0}
  /\ TopK \in Nat \ {0}
  /\ HeapSize \in 1 .. TopK
  /\ ScoreBits \in Nat \ {0}
  /\ Scores \subseteq 1 .. (Modulus - 1)
  /\ MaxAdds \in Nat
  /\ MaxQueries \in Nat
  /\ AddAfterBegin \in BOOLEAN

(* Modulus and width are powers of two of natural numbers, hence positive *)
(* naturals; stated here because the provers know no facts about ^.       *)
ASSUME PowerAssumption ==
  /\ Modulus \in Nat \ {0}
  /\ accumulators_width \in Nat \ {0}

Docs   == 0 .. (Documents - 1)
Cells  == 0 .. (accumulators_width * accumulators_height - 1)
Strips == 0 .. (accumulators_height - 1)
Slots  == 0 .. (TopK - 1)
HeapSlots == 0 .. (HeapSize - 1)

(* docid >> accumulators_shift *)
Strip(docid) == docid \div accumulators_width

(* The cells memset clears: accumulators + width * strip, width cells. *)
StripCells(s) ==
  (accumulators_width * s) .. (accumulators_width * s + accumulators_width - 1)

VARIABLES
  accumulators,          \* uint16_t accumulators[]
  clean_flags,           \* uint8_t clean_flags[], 1 = strip holds live values
  accumulator_pointers,  \* the heap's backing array P
  results_list_length,   \* L, the number of valid entries of P
  sums,                  \* brute-force totals of the current query (wrapped)
  adds,                  \* add_rsv calls in the current query
  phase,                 \* "ready", "accumulating" or "finalised"
  queries                \* rewind calls so far

vars == << accumulators, clean_flags, accumulator_pointers,
           results_list_length, sums, adds, phase, queries >>

(* add_rsv_compare: score first, then address (a - b). *)
add_rsv_compare(v, a, b) ==
  IF v[a] > v[b] THEN 1 ELSE IF v[a] < v[b] THEN -1 ELSE a - b

-----------------------------------------------------------------------------
(***************************************************************************)
(* The heap over accumulator pointers (heap.h, modelled from spec 4.3).    *)
(* Slot j has children 2j+1 and 2j+2 below HeapSize.                       *)
(***************************************************************************)

IsMinHeap(v, p) ==
  \A j \in HeapSlots \ {0} : add_rsv_compare(v, p[(j - 1) \div 2], p[j]) <= 0

(* make_heap: the first HeapSize slots rearranged into some min-heap. *)
make_heap(v, p) ==
  { q \in { [s \in Slots |-> IF s < HeapSize THEN p[f[s]] ELSE p[s]] :
              f \in Bijection(HeapSlots, HeapSlots) } :
      IsMinHeap(v, q) }

(* The smaller child of slot j (heap.h compares with add_rsv_compare). *)
MinChild(v, p, j) ==
  IF 2 * j + 2 < HeapSize /\ add_rsv_compare(v, p[2 * j + 2], p[2 * j + 1]) < 0
  THEN 2 * j + 2 ELSE 2 * j + 1

(* Sifting x down passes slot j: j has a child smaller than x. *)
SinksBelow(v, p, x, j) ==
  2 * j + 1 < HeapSize /\ add_rsv_compare(v, p[MinChild(v, p, j)], x) < 0

(* Slot j is on the path x follows when sifted down from slot i: every     *)
(* slot a above j on the way from i moves x on to the child towards j.     *)
(* a is an ancestor of j (or j) iff (j+1) div 2^k = a+1 for some k.        *)
OnSiftPath(v, p, i, x, j) ==
  LET Above(a, b) == \E k \in 0 .. HeapSize : (b + 1) \div 2 ^ k = a + 1
  IN  /\ Above(i, j)
      /\ \A a \in HeapSlots :
           (Above(i, a) /\ Above(a, j) /\ a # j) =>
              (SinksBelow(v, p, x, a) /\ Above(MinChild(v, p, a), j))

(* Sift x down from slot i: each slot on the path takes its smaller child, *)
(* the last one takes x.                                                   *)
SiftDown(v, p, i, x) ==
  [j \in Slots |->
     IF j < HeapSize /\ OnSiftPath(v, p, i, x, j)
     THEN IF SinksBelow(v, p, x, j) THEN p[MinChild(v, p, j)] ELSE x
     ELSE p[j]]

(* promote(which): which's key grew; find it and sift it down. *)
promote(v, p, x) ==
  IF \E i \in HeapSlots : p[i] = x
  THEN SiftDown(v, p, CHOOSE i \in HeapSlots : p[i] = x, x)
  ELSE p

(* push_back(which): replace the root by which and sift it down. *)
push_back(v, p, x) == SiftDown(v, p, 0, x)

(* Mutant: the sort's comparison reversed (ascending order). *)
top_k_qsort_ascending(v, p, n) ==
  { q \in { [s \in Slots |-> IF s < n THEN p[f[s]] ELSE p[s]] :
              f \in Bijection(0 .. (n - 1), 0 .. (n - 1)) } :
      \A i \in 0 .. (n - 2) : add_rsv_compare(v, q[i], q[i + 1]) <= 0 }

(* top_k_qsort(P, L, top_k) (spec 4.4): the first n slots in descending    *)
(* add_rsv_compare order, the others untouched.                            *)
top_k_qsort(v, p, n) ==
  { q \in { [s \in Slots |-> IF s < n THEN p[f[s]] ELSE p[s]] :
              f \in Bijection(0 .. (n - 1), 0 .. (n - 1)) } :
      \A i \in 0 .. (n - 2) : add_rsv_compare(v, q[i], q[i + 1]) >= 0 }

-----------------------------------------------------------------------------
(***************************************************************************)
(* The engine.                                                             *)
(***************************************************************************)

(* Constructor and static initialisation: the global arrays are zero,      *)
(* the constructor ends with rewind().                                     *)
Init ==
  /\ accumulators = [c \in Cells |-> 0]
  /\ clean_flags = [s \in Strips |-> 0]
  /\ accumulator_pointers = [s \in Slots |-> nullptr]
  /\ results_list_length = 0
  /\ sums = [d \in Docs |-> 0]
  /\ adds = 0
  /\ phase = "ready"
  /\ queries = 0

(* "Make sure the accumulator exists": zero the strip of docid if clean. *)
Touch(docid) ==
  IF clean_flags[Strip(docid)] = 0
  THEN [c \in Cells |-> IF c \in StripCells(Strip(docid)) THEN 0 ELSE accumulators[c]]
  ELSE accumulators

(* Mutant: the in-heap test with > instead of >=, so the root itself is  *)
(* taken for a document outside the heap.                                *)
InHeapStrict(v, docid) == add_rsv_compare(v, docid, accumulator_pointers[0]) > 0

(* The in-heap test, made before the update: which >= P[0]. *)
InHeap(v, docid) == add_rsv_compare(v, docid, accumulator_pointers[0]) >= 0

(* Mutant: the "not full" test off by one (results_list_length <= top_k). *)
PlonkInAtFull(touched, updated, docid) ==
  LET L        == results_list_length
      appended == IF touched[docid] = 0
                  THEN [accumulator_pointers EXCEPT ![L] = docid]
                  ELSE accumulator_pointers
      length   == IF touched[docid] = 0 THEN L + 1 ELSE L
  IN  /\ L <= TopK
      /\ results_list_length' = length
      /\ IF length = TopK
         THEN accumulator_pointers' \in make_heap(updated, appended)
         ELSE accumulator_pointers' = appended

(* Mutant: every posting is plonked in, not only a document's first one. *)
PlonkInAlways(touched, updated, docid) ==
  LET L == results_list_length
  IN  /\ L < TopK
      /\ results_list_length' = L + 1
      /\ IF L + 1 = TopK
         THEN accumulator_pointers' \in
                make_heap(updated, [accumulator_pointers EXCEPT ![L] = docid])
         ELSE accumulator_pointers' = [accumulator_pointers EXCEPT ![L] = docid]

(* Fewer than top_k results: a document seen for the first time (old      *)
(* value 0) is plonked in at P[L++]; the heap is built once L = top_k.    *)
PlonkIn(touched, updated, docid) ==
  LET L        == results_list_length
      appended == IF touched[docid] = 0
                  THEN [accumulator_pointers EXCEPT ![L] = docid]
                  ELSE accumulator_pointers
      length   == IF touched[docid] = 0 THEN L + 1 ELSE L
  IN  /\ L < TopK
      /\ results_list_length' = length
      /\ IF length = TopK
         THEN accumulator_pointers' \in make_heap(updated, appended)
         ELSE accumulator_pointers' = appended

(* Heap full and docid already in it: its key grew, promote it. *)
UpdateInHeap(touched, updated, docid) ==
  /\ results_list_length >= TopK
  /\ InHeap(touched, docid)
  /\ accumulator_pointers' = promote(updated, accumulator_pointers, docid)
  /\ UNCHANGED results_list_length

(* Heap full and docid not in it: it replaces the root if it now beats it. *)
MaybeInsert(touched, updated, docid) ==
  /\ results_list_length >= TopK
  /\ ~InHeap(touched, docid)
  /\ accumulator_pointers' =
       IF add_rsv_compare(updated, docid, accumulator_pointers[0]) > 0
       THEN push_back(updated, accumulator_pointers, docid)
       ELSE accumulator_pointers
  /\ UNCHANGED results_list_length

(* The caller's protocol (spec 4.5): add_rsv in READY and ACCUMULATING;    *)
(* the code itself has no guard, and a caller that reads the iterator and  *)
(* goes on adding (spec 4.5: the iterator "is invalidated by the next      *)
(* add_rsv") also adds in FINALISED.                                       *)
AddPhases ==
  IF AddAfterBegin THEN {"ready", "accumulating", "finalised"}
  ELSE {"ready", "accumulating"}

(* add_rsv(docid, score): lazy strip zeroing, *which += score (wrapping),  *)
(* then the heap maintenance.                                              *)
add_rsv(docid, score) ==
  /\ phase \in AddPhases
  /\ adds < MaxAdds
  /\ LET touched == Touch(docid)
         updated == [touched EXCEPT ![docid] = (touched[docid] + score) % Modulus]
     IN  /\ accumulators' = updated
         /\ clean_flags' = [clean_flags EXCEPT ![Strip(docid)] = 1]
         /\ \/ PlonkIn(touched, updated, docid)
            \/ UpdateInHeap(touched, updated, docid)
            \/ MaybeInsert(touched, updated, docid)
  /\ sums' = [sums EXCEPT ![docid] = (@ + score) % Modulus]
  /\ adds' = adds + 1
  /\ phase' = "accumulating"
  /\ UNCHANGED queries

(* Mutant: rewind without memset(clean_flags, 0, accumulators_height). *)
rewindKeepsFlags ==
  /\ queries < MaxQueries
  /\ queries' = queries + 1
  /\ results_list_length' = 0
  /\ sums' = [d \in Docs |-> 0]
  /\ adds' = 0
  /\ phase' = "ready"
  /\ UNCHANGED << accumulators, accumulator_pointers, clean_flags >>

(* rewind(): forget the results, mark every strip clean.  The parsed      *)
(* query it also recreates belongs to the query-text pipeline.            *)
rewind ==
  /\ queries < MaxQueries
  /\ queries' = queries + 1
  /\ results_list_length' = 0
  /\ clean_flags' = [s \in Strips |-> 0]
  /\ sums' = [d \in Docs |-> 0]
  /\ adds' = 0
  /\ phase' = "ready"
  /\ UNCHANGED << accumulators, accumulator_pointers >>

(* Mutant: begin() without the call of sort(). *)
beginNoSort ==
  /\ phase \in {"accumulating", "finalised"}
  /\ phase' = "finalised"
  /\ UNCHANGED << accumulators, clean_flags, accumulator_pointers,
                 results_list_length, sums, adds, queries >>

(* begin(): sort the results list; the iterator then reads it. *)
begin ==
  /\ phase \in {"accumulating", "finalised"}
  /\ accumulator_pointers' \in
       top_k_qsort(accumulators, accumulator_pointers, results_list_length)
  /\ phase' = "finalised"
  /\ UNCHANGED << accumulators, clean_flags, results_list_length, sums, adds,
                 queries >>

Next ==
  \/ \E d \in Docs, s \in Scores : add_rsv(d, s)
  \/ rewind
  \/ begin

Spec == Init /\ [][Next]_vars

(* What the iterator yields between begin() and end(). *)
Results ==
  [i \in 1 .. results_list_length |->
     [document_id |-> accumulator_pointers[i - 1],
      rsv         |-> accumulators[accumulator_pointers[i - 1]]]]

-----------------------------------------------------------------------------
(***************************************************************************)
(* Properties.                                                             *)
(***************************************************************************)

(* Type invariant.  Slots of P at or past L may hold stale pointers. *)
TypeOK ==
  /\ accumulators \in [Cells -> 0 .. (Modulus - 1)]
  /\ clean_flags \in [Strips -> {0, 1}]
  /\ accumulator_pointers \in [Slots -> Cells \cup {nullptr}]
  /\ results_list_length \in 0 .. TopK
  /\ sums \in [Docs -> 0 .. (Modulus - 1)]
  /\ adds \in Nat
  /\ queries \in Nat
  /\ phase \in {"ready", "accumulating", "finalised"}

(* The value add_rsv would see for a document: a clean strip reads as 0. *)
Logical(d) == IF clean_flags[Strip(d)] = 1 THEN accumulators[d] ELSE 0

(* The reference score: the brute-force sum in ACCUMULATOR_TYPE. *)
RefScore(d) == sums[d]

(* Lazy strip clearing is sound (spec 8.6): across rewinds, stale values   *)
(* left in the accumulator array and strips zeroed on first touch, every   *)
(* document reads as the sum of the scores added to it in this query.      *)
LazyClearSound == \A d \in Docs : Logical(d) = RefScore(d)

(* Every dirty flag rewind() clears (memset(clean_flags, 0, height)) and   *)
(* add_rsv sets (clean_flags[docid >> shift]) lies inside uint8_t          *)
(* clean_flags[10]; the spec sizes the vector at H flags.                  *)
CleanFlagsInBounds == \A s \in DOMAIN clean_flags : s < CleanFlagsSize

(* The spec's ranking order on brute-force scores: score, then doc id. *)
RefBefore(a, b) ==
  \/ RefScore(a) < RefScore(b)
  \/ RefScore(a) = RefScore(b) /\ a < b

Positive == {d \in Docs : RefScore(d) > 0}

RefRank(d) == Cardinality({e \in Positive : RefBefore(d, e)})

(* The brute-force top-k: positive documents with fewer than TopK above. *)
BruteTop == {d \in Positive : RefRank(d) < TopK}

Tracked == {accumulator_pointers[i] : i \in 0 .. (results_list_length - 1)}

(* The results list holds exactly the brute-force top-k, each once: the    *)
(* "not full" append on old_value = 0, the in-heap test                    *)
(* add_rsv_compare(which, P[0]) >= 0 taken before the update, promote and  *)
(* push_back together never lose, duplicate or wrongly keep a document.    *)
TrackedIsTopK ==
  /\ Cardinality(Tracked) = results_list_length
  /\ Tracked = BruteTop

(* The results list never holds a document twice (spec: the iterator      *)
(* yields the top_k documents), which rests on add_rsv appending a         *)
(* document only when its old accumulator value is 0, i.e. on its first    *)
(* posting of the query.                                                   *)
ResultsDistinct ==
  \A i, j \in 0 .. (results_list_length - 1) :
    i # j => accumulator_pointers[i] # accumulator_pointers[j]

(* While the heap is in use (full, not yet sorted by begin()), P[0 ..      *)
(* HeapSize) is a min-heap on (score, address) (spec invariant 5, 8.7):    *)
(* promote and push_back restore it after every add_rsv.                   *)
HeapOrdered ==
  (results_list_length = TopK /\ phase # "finalised") =>
    \A j \in HeapSlots \ {0} :
      LET parent == accumulator_pointers[(j - 1) \div 2]
          child  == accumulator_pointers[j]
      IN  \/ accumulators[parent] < accumulators[child]
          \/ accumulators[parent] = accumulators[child] /\ parent <= child

(* After begin() the iterator yields the brute-force top-k in descending   *)
(* order, equal scores by descending doc id, with their summed scores      *)
(* (spec 8.2, 8.3, 8.4).                                                   *)
ResultsMatchBruteForce ==
  phase = "finalised" =>
    /\ results_list_length = Cardinality(BruteTop)
    /\ \A i \in 1 .. results_list_length :
         /\ Results[i].document_id \in BruteTop
         /\ RefRank(Results[i].document_id) = i - 1
         /\ Results[i].rsv = RefScore(Results[i].document_id)

=============================================================================
