\* The same arena with a request of SIZE_MAX bytes on a 4-bit size_t:
\* used + bytes wraps below allocated and the capacity test passes.
CONSTANTS
  Capacity = 6
  AlignmentBoundary = 4
  Requests <- MC_WrapRequests
  WordBits = 4
  MaxRewinds = 0
SPECIFICATION Spec
INVARIANT
  BlocksInBuffer
CHECK_DEADLOCK FALSE
