------------------------------ MODULE Allocator ------------------------------
(***************************************************************************)
(* What the users of a heap rely on (cl_heap.h): a block that has been     *)
(* handed out lies inside the heap, is aligned as asked for, and shares no *)
(* byte with any other block until it is freed.                            *)
(***************************************************************************)
EXTENDS Integers

CONSTANTS
  FirstByte, LastByte,         (* the heap                                 *)
  AllocationSizes, Alignments

VARIABLE blocks                (* the blocks handed out                    *)

Block == [ start : FirstByte..LastByte, size : AllocationSizes ]

Apart(a, b) == \/ a.start + a.size <= b.start
               \/ b.start + b.size <= a.start

Init == blocks = {}

Allocate(b, alignment) ==
  /\ b.start + b.size - 1 <= LastByte
  /\ b.start % alignment = 0
  /\ \A other \in blocks : Apart(b, other)
  /\ blocks' = blocks \cup {b}

Free(b) == blocks' = blocks \ {b}

Next ==
  \/ \E b \in blocks' \ blocks :
       b \in Block /\ \E alignment \in Alignments : Allocate(b, alignment)
  \/ \E b \in blocks : Free(b)

Spec == Init /\ [][Next]_blocks

=============================================================================
