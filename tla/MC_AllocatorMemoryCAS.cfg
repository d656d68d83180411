\* Three threads racing malloc on a 5-byte buffer, requests of 1 or 2
\* bytes with alignment 1 or 2, 4-bit size_t (no sum of these values
\* wraps), one rewind that may land in the middle of any malloc.
\* exit() on out of memory ends the process, so a state with no
\* successor is expected.
CONSTANTS
  t1 = t1
  t2 = t2
  t3 = t3
  Threads <- MC_Threads
  Capacity = 5
  Alignments <- MC_Alignments
  Requests <- MC_Requests
  WordBits = 4
  MaxRewinds = 1
SYMMETRY MC_Symmetry
SPECIFICATION Spec
INVARIANTS
  TypeOK
  BlocksInBuffer
  BlocksDisjoint
CHECK_DEADLOCK FALSE
