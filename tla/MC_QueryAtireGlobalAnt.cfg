\* The older engine over 4 documents (two per strip) with top_k = 2,
\* 4-bit accumulators (at most 4 postings of impact <= 2 per query: no
\* wrap), uninitialised cells holding 0 or 9, uninitialised pointer slots
\* holding null or cell 1, and one rewind.
CONSTANTS
  Documents <- MC_Documents
  TopK = 2
  ScoreBits = 4
  Scores <- MC_Scores
  MaxAdds = 4
  MaxQueries = 1
  Garbage <- MC_Garbage
  GarbagePointers <- MC_GarbagePointers
SPECIFICATION Spec
INVARIANTS
  LazyClearSound
  TrackedIsTopK
  ResultsMatchBruteForce
