\* A 6-byte buffer with a 4-byte alignment boundary (so realign can push
\* used to 8, past allocated), requests of 1 to 3 bytes, 5-bit size_t (no
\* sum of these values wraps) and one rewind.  exit() on out of memory
\* ends the process, so a state with no successor is expected.
CONSTANTS
  Capacity = 6
  AlignmentBoundary = 4
  Requests <- MC_Requests
  WordBits = 5
  MaxRewinds = 1
SPECIFICATION Spec
INVARIANTS
  TypeOK
  BlocksInBuffer
  BlocksDisjoint
CHECK_DEADLOCK FALSE
