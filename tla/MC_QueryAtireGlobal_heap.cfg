\* top_k = 3 with a heap of 2: the code's heap top_results has a fixed size
\* of 10 whatever top_k the constructor is given, scaled down.
CONSTANTS
  Documents <- MC_Documents
  TopK = 3
  HeapSize = 2
  ScoreBits = 4
  Scores <- MC_Scores
  MaxAdds = 5
  MaxQueries = 0
  AddAfterBegin = FALSE
SPECIFICATION Spec
INVARIANT
  TrackedIsTopK
