-------------------------------- MODULE Heap --------------------------------
(***************************************************************************)
(* The heap of CommonLib/src/cl_heap.c, which minihvex/hv_heap.c calls     *)
(* with HeapLock held: every call is one step.  Addresses and sizes are    *)
(* bytes and have the code's values; only the heap is smaller than the     *)
(* HEAP_MINIMUM_SIZE of 64 KB.                                             *)
(*                                                                         *)
(* A new entry goes to FreeAddress, behind all others.  Once it does not   *)
(* fit there the list is searched for a gap, from the entry behind         *)
(* EntryToRestartSearch.                                                   *)
(***************************************************************************)
EXTENDS Integers, Sequences, SequencesExt, FiniteSetsExt

CONSTANTS
  BaseAddress, HeapSizeMaximum,
  AllocationSizes,  (* what the callers ask for; 0 is refused at once      *)
  Alignments        (* powers of two, HEAP_DEFAULT_ALIGNMENT for a 0       *)

sizeofHEADER == 72          (* HEAP_HEADER *)
sizeofENTRY  == 32          (* HEAP_ENTRY  *)
sizeofTAIL   == 4           (* HEAP_TAIL   *)

ASSUME HeapAssumption ==
  /\ BaseAddress \in Nat \ {0}
  /\ HeapSizeMaximum \in Nat /\ HeapSizeMaximum > sizeofHEADER + sizeofENTRY
  /\ AllocationSizes \subseteq Nat \ {0}
  /\ Alignments \subseteq Nat \ {0}

VARIABLES
  HeapAllocations,          (* the list: where each HEAP_ENTRY is, its Size *)
  HeapSizeRemaining, HeapNumberOfAllocations, FreeAddress,
  EntryToRestartSearch,     (* HEAD, or where that HEAP_ENTRY was           *)
  outcome                   (* "ok", or what the last call stopped in       *)

vars == << HeapAllocations, HeapSizeRemaining, HeapNumberOfAllocations,
           FreeAddress, EntryToRestartSearch, outcome >>

HEAD      == BaseAddress
FirstByte == BaseAddress + sizeofHEADER
LastByte  == BaseAddress + HeapSizeMaximum - 1

Entry == [ addr : FirstByte..LastByte, Size : AllocationSizes ]
Data(e) == e.addr + sizeofENTRY
Footprint(Size) == Size + sizeofENTRY + sizeofTAIL
EndOf(e) == e.addr + Footprint(e.Size)

AlignAddressUpper(addr, alignment) ==
  ((addr + alignment - 1) \div alignment) * alignment

(* ClHeapInit                                                              *)
Init ==
  /\ HeapAllocations = << >>
  /\ HeapSizeRemaining = HeapSizeMaximum - sizeofHEADER
  /\ HeapNumberOfAllocations = 0
  /\ FreeAddress = FirstByte
  /\ EntryToRestartSearch = HEAD
  /\ outcome = "ok"

-----------------------------------------------------------------------------
(* _InitHeapEntry: the entry moves up until its data are aligned.          *)
Placed(addr, Size, alignment) ==
  [ addr |-> AlignAddressUpper(addr + sizeofENTRY, alignment) - sizeofENTRY,
    Size |-> Size ]

(* Mutant: the bytes lost to the alignment are not counted.                *)
FitsUnaligned(addr, Size, alignment, available) == available >= Footprint(Size)

Fits(addr, Size, alignment, available) ==
  available >= EndOf(Placed(addr, Size, alignment)) - addr

(* Mutant: the entry and its tail are not paid for.                        *)
CountData(Size) ==
  /\ HeapSizeRemaining' = HeapSizeRemaining - Size
  /\ HeapNumberOfAllocations' = HeapNumberOfAllocations + 1

Count(Size) ==
  /\ HeapSizeRemaining' = HeapSizeRemaining - Footprint(Size)
  /\ HeapNumberOfAllocations' = HeapNumberOfAllocations + 1

(* What is left behind FreeAddress, and what is left elsewhere.            *)
SizeUntilEnd == BaseAddress + HeapSizeMaximum - FreeAddress - sizeofENTRY
SizeBeforeCurrent == HeapSizeRemaining - SizeUntilEnd - sizeofENTRY

FitsAtEnd(Size, alignment) ==
  /\ Footprint(Size) <= SizeUntilEnd
  /\ Fits(FreeAddress, Size, alignment, SizeUntilEnd)

(* ClHeapAllocatePoolWithTag, "the easier case"                            *)
AllocateAtEnd(Size, alignment) ==
  /\ Footprint(Size) <= HeapSizeRemaining
  /\ FitsAtEnd(Size, alignment)
  /\ LET new == Placed(FreeAddress, Size, alignment)
     IN /\ HeapAllocations' = Append(HeapAllocations, new)
        /\ FreeAddress' = EndOf(new)
  /\ Count(Size)
  /\ UNCHANGED << EntryToRestartSearch, outcome >>

-----------------------------------------------------------------------------
(* The search for a gap.  The list is a ring of the head, 0, and of the    *)
(* entries; turn i of the loop looks at two neighbours in it.              *)

Ring == 0..Len(HeapAllocations)
IsLive(addr) == \E i \in DOMAIN HeapAllocations : HeapAllocations[i].addr = addr
Restart ==
  IF EntryToRestartSearch = HEAD THEN 0
  ELSE CHOOSE i \in DOMAIN HeapAllocations :
         HeapAllocations[i].addr = EntryToRestartSearch

Behind(i) == (Restart + i) % (Len(HeapAllocations) + 1)
PreviousEntry(turn) == Behind(turn)
CurEntry(turn)      == Behind(turn + 1)

(* The turns that look at a gap: "goto next_loop" takes the others.        *)
Turns == { turn \in 1..Len(HeapAllocations) - 1 :
             PreviousEntry(turn) # 0 /\ CurEntry(turn) # 0 }

(* pPreviousHeapEntry is the pCurHeapEntry of the turn before, which a     *)
(* skipped turn does not set; 0 stands for NULL.                           *)
PreviousHeapEntry(turn) ==
  LET before == { t \in Turns : t < turn }
  IN IF turn = 1 THEN PreviousEntry(turn)
     ELSE IF before = {} THEN 0 ELSE CurEntry(Max(before))

StartAddress(turn) == EndOf(HeapAllocations[PreviousHeapEntry(turn)])
SizeBetween(turn) == HeapAllocations[CurEntry(turn)].addr - StartAddress(turn)

FitsAt(turn, Size, alignment) ==
  /\ SizeBetween(turn) >= Footprint(Size)
  /\ Fits(StartAddress(turn), Size, alignment, SizeBetween(turn))

(* The turn that ends the loop: with an ASSERT or with a gap.              *)
LastTurn(Size, alignment) ==
  { turn \in Turns :
      /\ \/ PreviousHeapEntry(turn) = 0
         \/ FitsAt(turn, Size, alignment)
      /\ \A t \in Turns : t < turn =>
           PreviousHeapEntry(t) # 0 /\ ~FitsAt(t, Size, alignment) }

(* The list is searched.                                                   *)
Searches(Size, alignment) ==
  /\ Footprint(Size) <= HeapSizeRemaining
  /\ ~FitsAtEnd(Size, alignment)
  /\ Footprint(Size) <= SizeBeforeCurrent

RestartsInList == EntryToRestartSearch = HEAD \/ IsLive(EntryToRestartSearch)

AllocateInGap(Size, alignment) ==
  /\ Searches(Size, alignment)
  /\ RestartsInList
  /\ \E turn \in LastTurn(Size, alignment) :
       /\ PreviousHeapEntry(turn) # 0
       /\ LET new == Placed(StartAddress(turn), Size, alignment)
          IN /\ HeapAllocations' =
                  InsertAt(HeapAllocations, PreviousEntry(turn) + 1, new)
             /\ EntryToRestartSearch' = new.addr
  /\ Count(Size)
  /\ UNCHANGED << FreeAddress, outcome >>

(* What else ends a search: ASSERT(!IsListEmpty(&HeapAllocations));        *)
(* ASSERT(NULL != pPreviousHeapEntry); or the Flink of an entry that has   *)
(* been freed, which holds the free pattern or what somebody has stored    *)
(* there since: nothing is said of what comes after that.                  *)
Mishap(Size, alignment) ==
  IF HeapAllocations = << >> THEN {"listEmpty"}
  ELSE IF ~RestartsInList THEN {"undefined"}
  ELSE { "noPrevious" : turn \in
           { t \in LastTurn(Size, alignment) : PreviousHeapEntry(t) = 0 } }

SearchStops(Size, alignment) ==
  /\ Searches(Size, alignment)
  /\ outcome' \in Mishap(Size, alignment)
  /\ UNCHANGED << HeapAllocations, HeapSizeRemaining, HeapNumberOfAllocations,
                  FreeAddress, EntryToRestartSearch >>

-----------------------------------------------------------------------------
(* Mutant: the next entry goes behind the entry that is gone.              *)
KeepFreeAddress(i) == UNCHANGED FreeAddress

(* "we hand the staff to the previous entry"                               *)
HandStaff(i) ==
  FreeAddress' =
    IF EndOf(HeapAllocations[i]) # FreeAddress THEN FreeAddress
    ELSE IF i = 1 THEN FirstByte ELSE EndOf(HeapAllocations[i - 1])

Uncount(e) ==
  /\ HeapSizeRemaining' = HeapSizeRemaining + Footprint(e.Size)
  /\ HeapNumberOfAllocations' = HeapNumberOfAllocations - 1

(* ClHeapFreePoolWithTag                                                   *)
Free(i) ==
  /\ Uncount(HeapAllocations[i])
  /\ HandStaff(i)
  /\ HeapAllocations' = RemoveAt(HeapAllocations, i)
  /\ UNCHANGED << EntryToRestartSearch, outcome >>

-----------------------------------------------------------------------------
(* A call that returns NULL changes nothing.                               *)

Allocate(Size, alignment) ==
  \/ AllocateAtEnd(Size, alignment)
  \/ AllocateInGap(Size, alignment)
  \/ SearchStops(Size, alignment)

Next ==
  /\ outcome = "ok"
  /\ \/ \E Size \in AllocationSizes, alignment \in Alignments :
          Allocate(Size, alignment)
     \/ \E i \in DOMAIN HeapAllocations : Free(i)

Spec == Init /\ [][Next]_vars

-----------------------------------------------------------------------------

(* "this list is always ordered by address" (cl_heap.h:28), and no entry,  *)
(* its data and its tail included, reaches into the next one or past the   *)
(* end: entries that were put behind the last one and entries squeezed     *)
(* into a gap, in any order, with frees in between.  FreeAddress is where  *)
(* the last entry ends (the first byte when there is none), so that no     *)
(* entry is put over another and nothing is lost at the end once the last  *)
(* entries are freed (cl_heap.c:379-384).                                  *)
OrderedByAddress ==
  /\ HeapAllocations \in Seq(Entry)
  /\ \A i, j \in DOMAIN HeapAllocations :
       i < j => EndOf(HeapAllocations[i]) <= HeapAllocations[j].addr
  /\ FreeAddress = IF HeapAllocations = << >> THEN FirstByte
                   ELSE EndOf(Last(HeapAllocations))
  /\ FreeAddress <= LastByte + 1

(* What the entries of a list take, their headers and tails included.      *)
UsedBytes(list) ==
  LET used[n \in 0..Len(list)] ==
        IF n = 0 THEN 0 ELSE used[n - 1] + Footprint(list[n].Size)
  IN used[Len(list)]

(* The header's count and size agree with the list, whatever was lost to   *)
(* alignment and gaps (cl_heap.c:374-376, 445-446), so that "there is no   *)
(* way the list can be empty and we still don't have nay memory remaining" *)
(* (cl_heap.c:230).                                                        *)
Accounted ==
  /\ HeapNumberOfAllocations = Len(HeapAllocations)
  /\ HeapSizeRemaining =
       HeapSizeMaximum - sizeofHEADER - UsedBytes(HeapAllocations)
  /\ outcome # "listEmpty"

(* ASSERT(NULL != pPreviousHeapEntry) (cl_heap.c:245)                      *)
AlwaysHasPrevious == outcome # "noPrevious"

(* The heap hands out blocks as Allocator describes.                       *)
Blocks == { [ start |-> Data(e), size |-> e.Size ] : e \in ToSet(HeapAllocations) }
Abstract == INSTANCE Allocator WITH blocks <- Blocks
ImplementsAllocator == Abstract!Spec

=============================================================================
