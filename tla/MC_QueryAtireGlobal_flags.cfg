\* The constructor's default of 1024 documents: 33 strips and 33 dirty flags
\* against the 10 of clean_flags.  No posting is needed to get there.
CONSTANTS
  Documents <- MC_DefaultDocuments
  TopK = 10
  HeapSize = 10
  ScoreBits = 16
  Scores <- MC_Scores
  MaxAdds = 0
  MaxQueries = 0
  AddAfterBegin = FALSE
SPECIFICATION Spec
INVARIANT
  CleanFlagsInBounds
