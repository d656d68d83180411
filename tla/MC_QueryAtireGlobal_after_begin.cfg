\* A caller that reads the results with begin() and goes on with add_rsv
\* before the next rewind(), as the iterator's "invalidated by the next
\* add_rsv" allows.
CONSTANTS
  Documents <- MC_Documents
  TopK = 2
  HeapSize = 2
  ScoreBits = 4
  Scores <- MC_Scores
  MaxAdds = 4
  MaxQueries = 0
  AddAfterBegin = TRUE
SPECIFICATION Spec
INVARIANT
  TrackedIsTopK
