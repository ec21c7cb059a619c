------------------------------- MODULE MemoryMap -------------------------------
(* The memory map the guest is told of. The loader asks the firmware for its
   map (lower_mem.yasm), Init64 measures it, copies it to a list, takes the
   memory of the hypervisor out of it (int15_memory.c, vmmemory.c), maps the
   memory around the hypervisor for the guest (ept.c), and from then on answers
   INT 15h E820 of the guest from that list.

   Addresses count megabytes. The firmware is external: it returns any entries,
   of which no two that are valid overlap. Calls of INT 15h come from programs
   on the one CPU the guest has in real mode, so that one is over before the
   next begins; the programs follow each other or take turns. MapMemory of
   SimulateInt15h never returns NULL, as its size is not 0. The CPU has MTRRs;
   the memory types they give are left out of the EPT entries. *)
EXTENDS Integers, Sequences

CONSTANTS Programs,        \* what calls INT 15h in the guest: BIOS, loader, kernel
          HighestAddress,  \* end of the physical address space
          KernelBase,      \* KernelPhysicalBaseAddress
          FixedLength,     \* KernelSize + MINIHV_ADDITIONAL_SIZE
          HeapDivisor,     \* the heap gets this fraction of the memory, 1/100
          MaxEntries       \* MAX_NO_OF_MEMORY_MAP_ENTRIES

ASSUME MemoryMapAssumption ==
    {HighestAddress, KernelBase, FixedLength, HeapDivisor, MaxEntries} \subseteq Nat \ {0}

UsableRAM == "UsableRAM"
Reserved  == "Reserved"

VARIABLES firmwareMap,      \* the entries at Parameters->MemoryMapAddress
          AvailableSystemMemory, HighestAvailablePhysicalAddress,
          MemoryMap,        \* the list gGlobalData.SystemInformation.MemoryMap
          eptPages,         \* the guest addresses the EPT maps, each to itself
          phase,            \* how far the boot is
          entryIndex,       \* the counter of the loop the boot is in
          lastContinuation, \* static of SimulateInt15h
          currentEntry,     \* static of SimulateInt15h, as an index; 0 is NULL
          walk,             \* the entries each program has been given, in order
          done              \* the programs whose last answer was continuation 0

vars == <<firmwareMap, AvailableSystemMemory, HighestAvailablePhysicalAddress,
          MemoryMap, eptPages, phase, entryIndex,
          lastContinuation, currentEntry, walk, done>>
boot  == <<firmwareMap, AvailableSystemMemory, HighestAvailablePhysicalAddress,
           MemoryMap, eptPages, phase, entryIndex>>
guest == <<lastContinuation, currentEntry, walk, done>>

Addresses == 0..(HighestAddress - 1)
Area      == [base : 0..HighestAddress, length : 0..HighestAddress,
              type : {UsableRAM, Reserved}]
End(e)    == e.base + e.length
Covers(e, a)    == e.base <= a /\ a < End(e)
Disjoint(e, f)  == \A a \in Addresses : ~(Covers(e, a) /\ Covers(f, a))
FirmwareEntry   == {[area |-> e, valid |-> v] :
                        e \in {f \in Area : f.length > 0 /\ End(f) <= HighestAddress},
                        v \in BOOLEAN}

Init ==
    /\ firmwareMap = <<>> /\ MemoryMap = <<>> /\ eptPages = {}
    /\ AvailableSystemMemory = 0 /\ HighestAvailablePhysicalAddress = 0
    /\ phase = "retrieve" /\ entryIndex = 1
    /\ lastContinuation = 0 /\ currentEntry = 0
    /\ walk = [p \in Programs |-> <<>>]
    /\ done = {}

-------------------------------------------------------------------------------
(* RetrieveInt15Map: one call of the firmware. The count is compared with the
   room after it was incremented and before the continuation is looked at. *)
RetrieveInt15Map ==
    /\ phase = "retrieve"
    /\ \E e \in FirmwareEntry, continuation \in BOOLEAN :
        /\ e.valid => \A i \in DOMAIN firmwareMap :
                          firmwareMap[i].valid => Disjoint(e.area, firmwareMap[i].area)
        /\ firmwareMap' = Append(firmwareMap, e)
        /\ phase' = IF Len(firmwareMap') >= MaxEntries THEN "halted"
                    ELSE IF continuation THEN "retrieve" ELSE "determine"
    /\ UNCHANGED <<AvailableSystemMemory, HighestAvailablePhysicalAddress, MemoryMap,
                   eptPages, entryIndex, guest>>

\* An answer without SMAP or with too small an entry stops the machine, and so
\* does the carry flag before there is an entry; later it ends the map.
RetrieveEnds ==
    /\ phase = "retrieve"
    /\ phase' \in {"halted"} \union (IF firmwareMap = <<>> THEN {} ELSE {"determine"})
    /\ UNCHANGED <<firmwareMap, AvailableSystemMemory, HighestAvailablePhysicalAddress,
                   MemoryMap, eptPages, entryIndex, guest>>

\* The loops of int15_memory.c over the entries of the firmware.
InLoop(label) == phase = label /\ entryIndex <= Len(firmwareMap)
LoopEnds(label, after) ==
    /\ phase = label /\ entryIndex > Len(firmwareMap)
    /\ phase' = after
    /\ entryIndex' = 1

\* Int15DetermineMemoryMapParameters: the end of every entry, the bytes of the
\* valid usable ones.
DetermineEntry ==
    /\ InLoop("determine")
    /\ LET e == firmwareMap[entryIndex]
       IN  /\ HighestAvailablePhysicalAddress' =
                  IF End(e.area) > HighestAvailablePhysicalAddress
                  THEN End(e.area) ELSE HighestAvailablePhysicalAddress
           /\ AvailableSystemMemory' =
                  IF e.valid /\ e.area.type = UsableRAM
                  THEN AvailableSystemMemory + e.area.length ELSE AvailableSystemMemory
    /\ entryIndex' = entryIndex + 1
    /\ UNCHANGED <<firmwareMap, MemoryMap, eptPages, phase, guest>>

DetermineEnds ==
    /\ LoopEnds("determine", "normalize")
    /\ UNCHANGED <<firmwareMap, AvailableSystemMemory, HighestAvailablePhysicalAddress,
                   MemoryMap, eptPages, guest>>

Int15DetermineMemoryMapParameters == DetermineEntry \/ DetermineEnds

\* MiniHvInformation.TotalLength: the code, and a heap that grows with the memory.
TotalLength == FixedLength + (AvailableSystemMemory + HeapDivisor - 1) \div HeapDivisor
HvArea      == [base |-> KernelBase, length |-> TotalLength, type |-> Reserved]

\* Int15NormalizeMemoryMap: the valid entries, in their order.
NormalizeEntry ==
    /\ InLoop("normalize")
    /\ MemoryMap' = IF firmwareMap[entryIndex].valid
                    THEN Append(MemoryMap, firmwareMap[entryIndex].area) ELSE MemoryMap
    /\ entryIndex' = entryIndex + 1
    /\ UNCHANGED <<firmwareMap, AvailableSystemMemory, HighestAvailablePhysicalAddress,
                   eptPages, phase, guest>>

NormalizeEnds ==
    /\ LoopEnds("normalize", "patch")
    /\ UNCHANGED <<firmwareMap, AvailableSystemMemory, HighestAvailablePhysicalAddress,
                   MemoryMap, eptPages, guest>>

Int15NormalizeMemoryMap == NormalizeEntry \/ NormalizeEnds

CutFront(e, cut) == [e EXCEPT !.base = @ + cut.length, !.length = @ - cut.length]
CutEnd(e, cut) == [e EXCEPT !.length = @ - cut.length]

\* Mutant: the back begins where the front ends.
BackAtStart(e, cut) == [e EXCEPT !.base = cut.base, !.length = End(e) - End(cut)]

KeptFront(e, cut) == [e EXCEPT !.length = cut.base - e.base]
KeptBack(e, cut) == [e EXCEPT !.base = End(cut), !.length = End(e) - End(cut)]

\* The three cases of PatchMemoryMap for the entry the cut lies in. The reserved
\* entry goes behind one whose front is cut off, and before one whose end is.
Split(e, cut) ==
    IF e.base = cut.base THEN <<CutFront(e, cut), cut>>
    ELSE IF End(e) = End(cut) THEN <<cut, CutEnd(e, cut)>>
    ELSE <<KeptFront(e, cut), cut, KeptBack(e, cut)>>

\* PatchMemoryMap takes the first usable entry that has room for all of the cut;
\* without one, or without heap, the ASSERT of Init64 fails.
Fits(e) == e.type = UsableRAM /\ e.base <= HvArea.base /\ End(e) >= End(HvArea)
PatchMemoryMap ==
    /\ phase = "patch"
    /\ \/ \E i \in DOMAIN MemoryMap :
            /\ Fits(MemoryMap[i]) /\ \A j \in 1..(i - 1) : ~Fits(MemoryMap[j])
            /\ MemoryMap' = SubSeq(MemoryMap, 1, i - 1) \o Split(MemoryMap[i], HvArea)
                            \o SubSeq(MemoryMap, i + 1, Len(MemoryMap))
            /\ phase' = "mapLow"
       \/ /\ \A i \in DOMAIN MemoryMap : ~Fits(MemoryMap[i])
          /\ phase' = "halted"
          /\ UNCHANGED MemoryMap
    /\ UNCHANGED <<firmwareMap, AvailableSystemMemory, HighestAvailablePhysicalAddress,
                   eptPages, entryIndex, guest>>

\* Mutant: the memory behind the code is mapped, where the heap is.
HighBaseAtHeap == KernelBase + FixedLength

HighBase == KernelBase + TotalLength

\* GuestMapMemoryRange(start, size): the pages that are mapped.
GuestMapMemoryRange(start, size) == eptPages' = eptPages \union start..(start + size - 1)

\* The two calls of Init64. The second passes the end of the memory as a size.
MapMemoryBeforeHv ==
    /\ phase = "mapLow"
    /\ GuestMapMemoryRange(0, KernelBase)
    /\ phase' = "mapHigh"
    /\ UNCHANGED <<firmwareMap, AvailableSystemMemory, HighestAvailablePhysicalAddress,
                   MemoryMap, entryIndex, guest>>
MapMemoryAfterHv ==
    /\ phase = "mapHigh"
    /\ GuestMapMemoryRange(HighBase, HighestAvailablePhysicalAddress)
    /\ phase' = "guest"
    /\ UNCHANGED <<firmwareMap, AvailableSystemMemory, HighestAvailablePhysicalAddress,
                   MemoryMap, entryIndex, guest>>

\* An allocation for the list or the EPT fails, which ends the boot.
AllocationFails ==
    /\ phase \in {"normalize", "patch", "mapLow", "mapHigh"}
    /\ phase' = "halted"
    /\ UNCHANGED <<firmwareMap, AvailableSystemMemory, HighestAvailablePhysicalAddress,
                   MemoryMap, eptPages, entryIndex, guest>>

-------------------------------------------------------------------------------
(* SimulateInt15h for a program that asks with ebx. Continuation 0 begins again;
   so does any other once lastContinuation is 0, but it is not answered. *)
Continuation(ebx) == IF ebx = 0 THEN 0 ELSE lastContinuation

\* Mutant: the list is set back before the new continuation is looked at.
EntryBeforeReset(ebx) == IF lastContinuation = 0 THEN 1 ELSE currentEntry

Entry(ebx) == IF Continuation(ebx) = 0 THEN 1 ELSE currentEntry

\* The entry takes the place of what p was given from ebx on.
Answer(p, ebx) ==
    LET atEnd == Entry(ebx) = Len(MemoryMap)
    IN  /\ currentEntry' = Entry(ebx) + 1
        /\ lastContinuation' = IF atEnd THEN 0 ELSE Continuation(ebx) + 1
        /\ walk' = [walk EXCEPT ![p] = Append(SubSeq(@, 1, ebx), MemoryMap[Entry(ebx)])]
        /\ done' = IF atEnd THEN done \union {p} ELSE done \ {p}

\* label fail: carry is set, the enumeration of whoever had one is over.
Fail(ebx) ==
    /\ lastContinuation' = 0
    /\ currentEntry' = Entry(ebx)
    /\ UNCHANGED <<walk, done>>

\* A buffer that is too small or a wrong signature fails as well.
SimulateInt15h(p, ebx) ==
    \/ Continuation(ebx) = ebx /\ Answer(p, ebx)
    \/ Fail(ebx)

\* VmExitSolveVmCall with E820 in rax, from the code in the IVT. A program may
\* begin again, go on, or repeat a call.
VmExitSolveVmCall(p) ==
    /\ phase = "guest"
    /\ \E ebx \in 0..Len(walk[p]) : SimulateInt15h(p, ebx)
    /\ UNCHANGED boot

Next ==
    \/ RetrieveInt15Map \/ RetrieveEnds \/ Int15DetermineMemoryMapParameters
    \/ Int15NormalizeMemoryMap \/ PatchMemoryMap
    \/ MapMemoryBeforeHv \/ MapMemoryAfterHv \/ AllocationFails
    \/ \E p \in Programs : VmExitSolveVmCall(p)

Spec == Init /\ [][Next]_vars

-------------------------------------------------------------------------------
TypesIn(map, a) == {map[i].type : i \in {j \in DOMAIN map : Covers(map[j], a)}}
FirmwareTypes(a) ==
    {firmwareMap[i].area.type : i \in {j \in DOMAIN firmwareMap :
        firmwareMap[j].valid /\ Covers(firmwareMap[j].area, a)}}

\* Every byte of the hypervisor, heap included, is reserved in the map the guest
\* is told of, and was usable RAM of the firmware; of every other byte the guest
\* is told what the firmware said (PatchMemoryMap, all three cases).
GuestIsToldTheTruth ==
    phase = "guest" =>
        \A a \in Addresses :
            IF Covers(HvArea, a)
            THEN TypesIn(MemoryMap, a) = {Reserved} /\ FirmwareTypes(a) = {UsableRAM}
            ELSE TypesIn(MemoryMap, a) = FirmwareTypes(a)

\* The map and the EPT agree: the guest reaches all memory it is told it may use,
\* and no byte of the hypervisor, at whatever end of an entry that lies.
EptMatchesTheMap ==
    phase = "guest" =>
        \A a \in Addresses :
            /\ UsableRAM \in TypesIn(MemoryMap, a) => a \in eptPages
            /\ Covers(HvArea, a) => a \notin eptPages

\* The two statics of SimulateInt15h serve all programs: whoever is answered,
\* with whatever calls of others and failed calls in between, gets the entry its
\* continuation stands for, and continuation 0 only with the whole map.
EveryWalkFollowsTheMap ==
    \A p \in Programs :
        /\ walk[p] = SubSeq(MemoryMap, 1, Len(walk[p]))
        /\ p \in done => walk[p] = MemoryMap
===============================================================================
