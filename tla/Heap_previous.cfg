\* The search wraps around the head of the list and has no entry to start from.
SPECIFICATION Spec
CONSTANTS
  BaseAddress = 4096
  HeapSizeMaximum = 400
  AllocationSizes = {4, 28, 300}
  Alignments = {16, 64}
INVARIANTS AlwaysHasPrevious
CHECK_DEADLOCK FALSE
