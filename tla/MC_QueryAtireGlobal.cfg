\* Engine with top_k = 3 and a heap of 3 (the code's heap of 10 used with
\* top_k = 10, scaled down); 4-bit accumulators and at most 5 postings of
\* impact <= 2 per query, so totals (<= 10) never wrap; one rewind, so a
\* second query runs over the stale accumulators and pointers of the first.
CONSTANTS
  Documents <- MC_Documents
  TopK = 3
  HeapSize = 3
  ScoreBits = 4
  Scores <- MC_Scores
  MaxAdds = 5
  MaxQueries = 1
  AddAfterBegin = FALSE
SPECIFICATION Spec
INVARIANTS
  TypeOK
  LazyClearSound
  TrackedIsTopK
  HeapOrdered
  ResultsMatchBruteForce
