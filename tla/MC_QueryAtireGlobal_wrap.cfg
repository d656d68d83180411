\* 2-bit accumulators, top_k = 2: three postings to document 0 (1 + 1 + 2)
\* wrap its accumulator to 0, so its next posting looks like a first one.
CONSTANTS
  Documents <- MC_Documents
  TopK = 2
  HeapSize = 2
  ScoreBits = 2
  Scores <- MC_Scores
  MaxAdds = 4
  MaxQueries = 0
  AddAfterBegin = FALSE
SPECIFICATION Spec
INVARIANT
  ResultsDistinct
