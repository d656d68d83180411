\* Two threads, each weakly fair, without symmetry reduction: the temporal
\* properties are checked on the full state graph.
CONSTANTS
  t1 = t1
  t2 = t2
  t3 = t3
  Threads <- MC_TwoThreads
  Capacity = 5
  Alignments <- MC_Alignments
  Requests <- MC_Requests
  WordBits = 4
  MaxRewinds = 1
SPECIFICATION FairSpec
PROPERTIES
  MallocReturns
  Linearizable
\* After exit() the process has ended: the final states have no successor.
CHECK_DEADLOCK FALSE
