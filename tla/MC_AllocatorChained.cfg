CONSTANTS
  BlockSize = 4
  Header = 1
  WordSize = 2
  FreeStore = 14
  Requests <- MC_Requests
  MaxRewinds = 1
INIT Init
NEXT Next
INVARIANTS
  BlocksInLiveChunk
  BlocksDisjoint
  SizeWithinCapacity
\* After exit() the process has ended: the final states have no successor.
CHECK_DEADLOCK FALSE
