---------------------------------- MODULE Mtrr ----------------------------------
(* The memory types of the physical memory (mtrr.c) and of the guest's pages.
   The BSP reads the MTRRs at boot, entry by entry, into lists of ranges, one list
   for each memory type, and joins neighbours as it goes. GuestMapMemoryRange
   (vmguest.c) looks every page up in them and passes the type to the EPT (ept.c).

   Addresses count pages. The registers are the processor's; firmware has enabled
   them, and the fixed ones where the processor has them. A list is the set of its
   entries: a search takes any that covers the address, and those of one list have
   one type. *)
EXTENDS Integers

MEMORY_TYPE_STRONG_UNCACHEABLE == 0
MEMORY_TYPE_WRITECOMBINE == 1
MEMORY_TYPE_WRITETHROUGH == 4
MEMORY_TYPE_WRITEPROTECT == 5
MEMORY_TYPE_WRITEBACK == 6

CONSTANTS MemoryTypes,        \* the types the firmware uses
          FixedEntries,       \* how many bytes of types the fixed registers hold
          RegionSize,         \* RegionSize[k]: the size of what byte k is the type of
          FixedBase,          \* FixedBase[k]: where byte k + 1 begins
          VariableRegisters,  \* NumberOfVariableLengthRegisters
          VariableContents,   \* what PHYSBASE and PHYSMASK of a register may say
          MtrrTop,            \* end of the memory the guest is given
          MapCalls            \* the [base, end] of the calls of Init64

ASSUME MtrrAssumption ==
    /\ MemoryTypes \subseteq
           {MEMORY_TYPE_STRONG_UNCACHEABLE, MEMORY_TYPE_WRITECOMBINE, MEMORY_TYPE_WRITETHROUGH,
            MEMORY_TYPE_WRITEPROTECT, MEMORY_TYPE_WRITEBACK}
    /\ FixedEntries \in Nat /\ VariableRegisters \in Nat /\ MtrrTop \in Nat
    /\ RegionSize \in [1..FixedEntries -> Nat \ {0}]
    /\ FixedBase \in [0..FixedEntries -> Nat]
    /\ FixedBase[0] = 0
    /\ \A k \in 1..FixedEntries : FixedBase[k] = FixedBase[k - 1] + RegionSize[k]
    /\ \A a \in 0..(FixedBase[FixedEntries] - 1) :
           \E k \in 1..FixedEntries : FixedBase[k - 1] <= a /\ a < FixedBase[k]
    /\ \A k \in 1..FixedEntries : FixedBase[k] <= FixedBase[FixedEntries]
    /\ \A r \in VariableContents :
           /\ r \in [valid : BOOLEAN, base : Nat, end : Nat, type : MemoryTypes]
           /\ r.base < r.end
    /\ \A c \in MapCalls : c \in [base : Nat, end : Nat]

VARIABLES FixedRegistersSupport, fixedType, variable, DefaultMemoryType,  \* the MSRs
          MtrrRegions,     \* the entries in the lists
          pNewEntry,       \* the entry not yet in a list
          currentAddress,  \* of MtrrRetrieveFixedRegisters
          next,            \* the byte or register that is read next
          mtrrPhase,
          eptType          \* what the EPT has for each page of the guest

msrs == <<FixedRegistersSupport, fixedType, variable, DefaultMemoryType>>
mtrrVars == <<msrs, MtrrRegions, pNewEntry, currentAddress, next, mtrrPhase, eptType>>

NoEntry == [BaseAddress |-> 0, EndAddress |-> 0, MemoryType |-> -1]
MtrrEntry == [BaseAddress : Nat, EndAddress : Nat, MemoryType : MemoryTypes]
NewEntry(base, end, type) == [BaseAddress |-> base, EndAddress |-> end, MemoryType |-> type]
InRange(e, a) == e.BaseAddress <= a /\ a < e.EndAddress
NotMapped == -1
Pages == 0..(MtrrTop - 1)

MtrrInit ==
    /\ FixedRegistersSupport \in BOOLEAN
    /\ fixedType \in [1..FixedEntries -> MemoryTypes]
    /\ variable \in [1..VariableRegisters -> VariableContents]
    /\ DefaultMemoryType \in MemoryTypes
    /\ MtrrRegions = {} /\ pNewEntry = NoEntry /\ currentAddress = 0 /\ next = 1
    /\ mtrrPhase = IF FixedRegistersSupport /\ FixedEntries > 0 THEN "fixed" ELSE "variable"
    /\ eptType = [p \in Pages |-> NotMapped]

-------------------------------------------------------------------------------
\* The entry of the bytes before, or the empty one the first byte begins with.
CurrentEntry(type) == IF pNewEntry = NoEntry THEN NewEntry(0, 0, type) ELSE pNewEntry

\* Mutant: neighbours are joined whatever their types.
JoinsAny(e, base, type) == e.EndAddress = base

Joins(e, base, type) == e.MemoryType = type /\ e.EndAddress = base

\* MtrrTraverseFixedRegister: one byte of a fixed register.
TraverseFixed ==
    /\ mtrrPhase = "fixed" /\ next <= FixedEntries
    /\ LET type == fixedType[next]
           e    == CurrentEntry(type)
           end  == currentAddress + RegionSize[next]
       IN  /\ IF Joins(e, currentAddress, type)
              THEN /\ pNewEntry' = [e EXCEPT !.EndAddress = @ + RegionSize[next]]
                   /\ UNCHANGED MtrrRegions
              ELSE /\ MtrrRegions' = MtrrRegions \union {e}
                   /\ pNewEntry' = NewEntry(currentAddress, end, type)
           /\ currentAddress' = end
    /\ next' = next + 1
    /\ UNCHANGED <<msrs, mtrrPhase, eptType>>

\* The end of MtrrRetrieveFixedRegisters puts the last entry in its list.
FixedRetrieved ==
    /\ mtrrPhase = "fixed" /\ next > FixedEntries
    /\ MtrrRegions' = MtrrRegions \union {pNewEntry}
    /\ pNewEntry' = NoEntry
    /\ next' = 1
    /\ mtrrPhase' = "variable"
    /\ UNCHANGED <<msrs, currentAddress, eptType>>

SkipInvalid ==
    /\ mtrrPhase = "variable" /\ next <= VariableRegisters
    /\ ~variable[next].valid
    /\ next' = next + 1
    /\ UNCHANGED <<msrs, MtrrRegions, pNewEntry, currentAddress, mtrrPhase, eptType>>

\* One valid register. The first one is not a neighbour of itself: its entry goes
\* to the list and a second one like it is begun.
RetrieveVariable ==
    /\ mtrrPhase = "variable" /\ next <= VariableRegisters
    /\ variable[next].valid
    /\ LET r    == variable[next]
           base == r.base
           end  == r.end
           e    == IF pNewEntry = NoEntry THEN NewEntry(base, end, r.type) ELSE pNewEntry
       IN  \/ /\ Joins(e, base, r.type)
              /\ pNewEntry' = [e EXCEPT !.EndAddress = end]
              /\ UNCHANGED MtrrRegions
           \/ /\ ~Joins(e, base, r.type)
              /\ e.MemoryType = r.type /\ e.BaseAddress = end
              /\ pNewEntry' = [e EXCEPT !.BaseAddress = base]
              /\ UNCHANGED MtrrRegions
           \/ /\ ~Joins(e, base, r.type)
              /\ ~(e.MemoryType = r.type /\ e.BaseAddress = end)
              /\ MtrrRegions' = MtrrRegions \union {e}
              /\ pNewEntry' = NewEntry(base, end, r.type)
    /\ next' = next + 1
    /\ UNCHANGED <<msrs, currentAddress, mtrrPhase, eptType>>

\* The end of MtrrRetrieveVariableRegisters, with its ASSERT. No register at all
\* is an error, which fails the ASSERT of Init64.
VariableRetrieved ==
    /\ mtrrPhase = "variable" /\ next > VariableRegisters
    /\ IF pNewEntry = NoEntry
       THEN /\ mtrrPhase' = IF VariableRegisters = 0 THEN "initFailed" ELSE "assertFailed"
            /\ UNCHANGED MtrrRegions
       ELSE /\ MtrrRegions' = MtrrRegions \union {pNewEntry}
            /\ mtrrPhase' = "map"
    /\ pNewEntry' = NoEntry
    /\ UNCHANGED <<msrs, currentAddress, next, eptType>>

\* HvAllocPoolWithTag returns NULL: an ASSERT fails here or in Init64.
EntryAllocationFails ==
    /\ mtrrPhase \in {"fixed", "variable"}
    /\ mtrrPhase' = "initFailed"
    /\ UNCHANGED <<msrs, MtrrRegions, pNewEntry, currentAddress, next, eptType>>

-------------------------------------------------------------------------------
\* Mutant: the lists are searched from write-back down.
HighestTypeAt(a) ==
    LET types == {e.MemoryType : e \in {r \in MtrrRegions : InRange(r, a)}}
    IN  IF types = {} THEN DefaultMemoryType
        ELSE CHOOSE t \in types : \A u \in types : t >= u

\* MtrrFindPhysicalAddressMemoryType searches the lists in the order of the types.
MtrrFindPhysicalAddressMemoryType(a) ==
    LET types == {e.MemoryType : e \in {r \in MtrrRegions : InRange(r, a)}}
    IN  IF types = {} THEN DefaultMemoryType
        ELSE CHOOSE t \in types : \A u \in types : t <= u

\* A page that is mapped already keeps what it has: Overwrite is FALSE.
MapPage(p) ==
    IF eptType[p] # NotMapped THEN eptType[p]
    ELSE IF MtrrFindPhysicalAddressMemoryType(p) = MEMORY_TYPE_WRITEBACK
         THEN MEMORY_TYPE_WRITEBACK
         ELSE MEMORY_TYPE_STRONG_UNCACHEABLE

GuestMapMemoryRangeTyped(call) ==
    /\ mtrrPhase = "map"
    /\ eptType' = [p \in DOMAIN eptType |->
                      IF call.base <= p /\ p < call.end THEN MapPage(p) ELSE eptType[p]]
    /\ UNCHANGED <<msrs, MtrrRegions, pNewEntry, currentAddress, next, mtrrPhase>>

MtrrNext ==
    \/ TraverseFixed \/ FixedRetrieved \/ SkipInvalid \/ RetrieveVariable
    \/ VariableRetrieved \/ EntryAllocationFails
    \/ \E call \in MapCalls : GuestMapMemoryRangeTyped(call)

MtrrSpec == MtrrInit /\ [][MtrrNext]_mtrrVars

-------------------------------------------------------------------------------
MtrrTypeOK ==
    /\ FixedRegistersSupport \in BOOLEAN
    /\ fixedType \in [1..FixedEntries -> MemoryTypes]
    /\ variable \in [1..VariableRegisters -> VariableContents]
    /\ DefaultMemoryType \in MemoryTypes
    /\ MtrrRegions \subseteq MtrrEntry
    /\ pNewEntry \in MtrrEntry \union {NoEntry}
    /\ currentAddress \in Nat /\ next \in Nat \ {0}
    /\ mtrrPhase \in {"fixed", "variable", "map", "initFailed", "assertFailed"}
    /\ eptType \in [Pages -> {MEMORY_TYPE_STRONG_UNCACHEABLE, MEMORY_TYPE_WRITEBACK, NotMapped}]

\* What has been read of the registers so far, byte by byte and range by range.
FixedRead == IF mtrrPhase = "fixed" THEN 1..(next - 1)
             ELSE IF FixedRegistersSupport THEN 1..FixedEntries ELSE {}
VariableRead == IF mtrrPhase = "fixed" THEN {} ELSE 1..(next - 1)
FixedSays(a, t) == \E k \in FixedRead :
    FixedBase[k - 1] <= a /\ a < FixedBase[k] /\ fixedType[k] = t
VariableSays(a, t) == \E i \in VariableRead :
    /\ variable[i].valid
    /\ variable[i].base <= a /\ a < variable[i].end /\ variable[i].type = t
Listed(a, t) == \E e \in MtrrRegions \union {pNewEntry} : InRange(e, a) /\ e.MemoryType = t

\* Where the loops are, and the shape of the entry they hold.
LoopInv ==
    /\ mtrrPhase = "fixed" =>
        /\ FixedRegistersSupport /\ FixedEntries > 0
        /\ next \in 1..(FixedEntries + 1)
        /\ currentAddress = FixedBase[next - 1]
        /\ next = 1 <=> pNewEntry = NoEntry
        /\ next > 1 => pNewEntry.EndAddress = currentAddress
    /\ mtrrPhase = "variable" => next \in 1..(VariableRegisters + 1)
    /\ mtrrPhase = "map" => pNewEntry = NoEntry /\ next = VariableRegisters + 1
    /\ pNewEntry # NoEntry => pNewEntry.BaseAddress < pNewEntry.EndAddress

\* Nothing of the registers is lost and nothing invented while neighbours are
\* joined, on either side, and entries begun and put away: at every turn of the
\* loops an address is listed with a type if and only if a register that has been
\* read gives it that type (mtrr.c:240-300, 347-373).
TypesFollowRegisters ==
    mtrrPhase \in {"fixed", "variable", "map"} =>
        \A a \in Pages, t \in MemoryTypes : Listed(a, t) <=> FixedSays(a, t) \/ VariableSays(a, t)

\* The type the processor itself gives an address: the fixed registers first, then
\* the variable ones, of which the least cacheable of two rules; other overlaps are
\* undefined.
VariableTypes(a) == {t \in MemoryTypes : \E i \in 1..VariableRegisters :
    /\ variable[i].valid /\ variable[i].type = t
    /\ variable[i].base <= a /\ a < variable[i].end}
ProcessorTypes(a) ==
    IF FixedRegistersSupport /\ a < FixedBase[FixedEntries]
    THEN {t \in MemoryTypes : \E k \in 1..FixedEntries :
              FixedBase[k - 1] <= a /\ a < FixedBase[k] /\ fixedType[k] = t}
    ELSE IF VariableTypes(a) = {} THEN {DefaultMemoryType}
    ELSE IF MEMORY_TYPE_STRONG_UNCACHEABLE \in VariableTypes(a)
    THEN {MEMORY_TYPE_STRONG_UNCACHEABLE}
    ELSE IF VariableTypes(a) = {MEMORY_TYPE_WRITETHROUGH, MEMORY_TYPE_WRITEBACK}
    THEN {MEMORY_TYPE_WRITETHROUGH}
    ELSE VariableTypes(a)

\* The EPT caches a page of the guest, whatever the guest's own tables say of PAT,
\* only where the processor's registers let it be cached: no device memory below
\* 1 MB or in a range that overlaps another becomes write-back (vmguest.c:621-624).
WriteBackIsWriteBack ==
    \A p \in Pages :
        eptType[p] = MEMORY_TYPE_WRITEBACK => ProcessorTypes(p) = {MEMORY_TYPE_WRITEBACK}

MtrrInv == MtrrTypeOK /\ LoopInv /\ TypesFollowRegisters
===============================================================================
