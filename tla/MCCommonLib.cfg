\* Heap: entries of two sizes and two alignments, up to eight of them, and a size that
\* never fits; it stops where a search goes wrong. Table: two buckets. Search: up to
\* five elements, and a DWORD of one byte.
SPECIFICATION MCSpec
CONSTANTS
  BaseAddress = 4096
  HeapSizeMaximum = 400
  AllocationSizes = {4, 28, 300}
  Alignments = {16, 64}
  e1 = e1
  e2 = e2
  e3 = e3
  e4 = e4
  Elements = {e1, e2, e3, e4}
  KeyOf <- MCKeyOf
  MaxKeys = 2
  NoElement = NoElement
  MaxDword = 255
  Values = {0, 1, 2, 3}
  MaxElements = 5
  BitCount = 6
INVARIANTS OrderedByAddress Accounted IterationIsComplete SearchIsRight RunsAreApart
PROPERTIES ImplementsAllocator ImplementsDictionary
CHECK_DEADLOCK FALSE
