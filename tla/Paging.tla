---------------------------------- MODULE Paging ----------------------------------
(* The page tables of the hypervisor (paging_tables.c). One set of tables serves all
   processors. A physical page has one entry, reached at PA2VA of its address and,
   until UnmapPML4Entry(0), at the address itself, as the first PML4 entry points to
   the same tables (_init32.yasm:107). MapMemory and UnmapMemory change the entries
   page by page, with PagingLock held once a processor is counted in ActiveCpus. Each
   processor keeps translations in a TLB; UnmapMemory invalidates that of its own
   processor only, and a page that was mapped twice is gone after one unmap.

   What a processor is going to do is a script, a sequence of the calls and accesses
   of its code; the modules that use the tables write the scripts. Levels above the
   last are one: Region gives the table a page has its entry in. A heap that is empty
   panics, which is left to Panic. *)
EXTENDS Integers, Sequences

CONSTANTS CPUs, NoCpu,
          Frames,        \* the physical pages
          Region(_),     \* the table the entry of a page is in
          BootTables,    \* tables made by _init32.yasm
          BootMapped     \* pages it maps

ASSUME PagingAssumption == NoCpu \notin CPUs /\ BootMapped \subseteq Frames

Absent == "Absent"
WriteBack == "WriteBack"
Uncacheable == "Uncacheable"

VARIABLES pte,         \* the last-level entry of every page
          tables,      \* the tables that are linked
          identity,    \* is PML4 entry 0 present
          ActiveCpus, PagingLock,
          tlb,         \* the translations of PA2VA(page) a processor has cached
          script,      \* what is left to do
          at,          \* where a processor is in the first call of its script
          left,        \* pages that call has still to do
          fault        \* the pages whose access stopped a processor, or failed ASSERTs

pagingVars == <<pte, tables, identity, ActiveCpus, PagingLock, tlb, script, at, left, fault>>

MapMemoryInvalidate(pages, type, invalidate) ==
    [op |-> "map", pages |-> pages, type |-> type, invalidate |-> invalidate]
MapMemory(pages) == MapMemoryInvalidate(pages, WriteBack, FALSE)
\* UnmapMemory of an address in the 1 TB area, and of a physical address.
UnmapVa(pages) == [op |-> "unmap", pages |-> pages, physical |-> FALSE]
UnmapPa(pages) == [op |-> "unmap", pages |-> pages, physical |-> TRUE]
\* An access to a page the code has mapped for it, and one by an index that may lead
\* past the memory that was mapped.
Access(page) == [op |-> "access", page |-> page]
AccessPast(page) == [op |-> "accessPast", page |-> page]

PagingInit ==
    /\ pte = [p \in Frames |-> IF p \in BootMapped THEN WriteBack ELSE Absent]
    /\ tables = BootTables
    /\ identity = TRUE /\ ActiveCpus = 0 /\ PagingLock = NoCpu
    /\ tlb = [c \in CPUs |-> [p \in Frames |-> Absent]]
    /\ at = [c \in CPUs |-> "start"]
    /\ left = [c \in CPUs |-> {}]
    /\ fault = [c \in CPUs |-> {}]

Does(c, op) == script[c] # <<>> /\ Head(script[c]).op = op
Ends(c) == script' = [script EXCEPT ![c] = Tail(@)]
Stops(c, what) == /\ fault' = [fault EXCEPT ![c] = {what}]
                  /\ script' = [script EXCEPT ![c] = <<>>]

-------------------------------------------------------------------------------
(* One call of MapMemoryInvalidate or UnmapMemory. *)

\* Mutant: the lock is never taken.
NoLockNeeded == FALSE

NeedsLock == ActiveCpus # 0

EnterCall(c) ==
    /\ Does(c, "map") \/ Does(c, "unmap")
    /\ at[c] = "start"
    /\ IF NeedsLock THEN PagingLock = NoCpu /\ PagingLock' = c ELSE UNCHANGED PagingLock
    /\ at' = [at EXCEPT ![c] = "pages"]
    /\ left' = [left EXCEPT ![c] = Head(script[c]).pages]
    /\ UNCHANGED <<pte, tables, identity, ActiveCpus, tlb, script, fault>>

NextPage(c) == CHOOSE p \in left[c] : TRUE
PageDone(c) == left' = [left EXCEPT ![c] = @ \ {NextPage(c)}]

\* The table of the page is not there: the processor is about to allocate one.
FindTable(c) ==
    /\ Does(c, "map") /\ at[c] = "pages" /\ left[c] # {}
    /\ Region(NextPage(c)) \notin tables
    /\ at' = [at EXCEPT ![c] = "table"]
    /\ UNCHANGED <<pte, tables, identity, ActiveCpus, PagingLock, tlb, script, left, fault>>

\* InitAndAllocStructure for a table: a new one takes the place of what is there,
\* with all of its entries zero.
LinkTable(c) ==
    /\ at[c] = "table"
    /\ LET table == Region(NextPage(c))
       IN  /\ tables' = tables \union {table}
           /\ pte' = [p \in Frames |-> IF Region(p) = table THEN Absent ELSE pte[p]]
    /\ at' = [at EXCEPT ![c] = "pages"]
    /\ UNCHANGED <<identity, ActiveCpus, PagingLock, tlb, script, left, fault>>

\* InitAndAllocStructure for the page itself, which it invalidates in its own TLB.
MapPage(c) ==
    /\ Does(c, "map") /\ at[c] = "pages" /\ left[c] # {}
    /\ LET p == NextPage(c)
           call == Head(script[c])
       IN  /\ Region(p) \in tables
           /\ IF call.invalidate \/ pte[p] = Absent
              THEN /\ pte' = [pte EXCEPT ![p] = call.type]
                   /\ tlb' = [tlb EXCEPT ![c][p] = Absent]
              ELSE UNCHANGED <<pte, tlb>>
    /\ PageDone(c)
    /\ UNCHANGED <<tables, identity, ActiveCpus, PagingLock, script, at, fault>>

\* A physical address is reached through PML4 entry 0 only.
Reaches(call) == call.physical => identity

\* Mutant: the entry is cleared and the TLB left as it is.
InvalidatesNothing(call) == FALSE

\* PageInvalidateTlb is given the address the caller has passed.
Invalidates(call) == ~call.physical

UnmapPage(c) ==
    /\ Does(c, "unmap") /\ at[c] = "pages" /\ left[c] # {}
    /\ LET p == NextPage(c)
           call == Head(script[c])
       IN  IF Reaches(call) /\ pte[p] # Absent
           THEN /\ pte' = [pte EXCEPT ![p] = Absent]
                /\ tlb' = IF Invalidates(call) THEN [tlb EXCEPT ![c][p] = Absent] ELSE tlb
           ELSE UNCHANGED <<pte, tlb>>
    /\ PageDone(c)
    /\ UNCHANGED <<tables, identity, ActiveCpus, PagingLock, script, at, fault>>

\* Mutant: the lock is not given back.
LockIsKept(c) == c

\* Who holds the lock when a call has ended.
LockAfter(c) == IF NeedsLock THEN NoCpu ELSE PagingLock

\* ReleaseLock asserts that its caller holds the lock.
LeaveCall(c) ==
    /\ Does(c, "map") \/ Does(c, "unmap")
    /\ at[c] = "pages" /\ left[c] = {}
    /\ at' = [at EXCEPT ![c] = "start"]
    /\ IF NeedsLock /\ PagingLock # c
       THEN Stops(c, "assert") /\ UNCHANGED PagingLock
       ELSE /\ Ends(c)
            /\ PagingLock' = LockAfter(c)
            /\ UNCHANGED fault
    /\ UNCHANGED <<pte, tables, identity, ActiveCpus, tlb, left>>

\* UnmapPML4Entry(0), in its critical section. The address it invalidates is that of
\* the entry.
UnmapPML4Entry(c) ==
    /\ Does(c, "unmapPml4") /\ PagingLock = NoCpu
    /\ identity' = FALSE
    /\ Ends(c)
    /\ UNCHANGED <<pte, tables, ActiveCpus, PagingLock, tlb, at, left, fault>>

-------------------------------------------------------------------------------
\* An access through PA2VA(page): by the entry, which the TLB then keeps, or by what
\* it has kept although the entry is gone. Without either the processor faults.
AccessPage(c) ==
    /\ Does(c, "access") \/ Does(c, "accessPast")
    /\ LET p == Head(script[c]).page
       IN  \/ /\ pte[p] # Absent
              /\ tlb' = IF tlb[c][p] = Absent THEN [tlb EXCEPT ![c][p] = pte[p]] ELSE tlb
              /\ Ends(c) /\ UNCHANGED fault
           \/ /\ pte[p] = Absent /\ tlb[c][p] # Absent
              /\ Ends(c) /\ UNCHANGED <<tlb, fault>>
           \/ /\ pte[p] = Absent
              /\ Stops(c, p) /\ UNCHANGED tlb
    /\ UNCHANGED <<pte, tables, identity, ActiveCpus, PagingLock, at, left>>

PagingStep(c) ==
    \/ EnterCall(c) \/ FindTable(c) \/ LinkTable(c) \/ MapPage(c) \/ UnmapPage(c)
    \/ LeaveCall(c) \/ UnmapPML4Entry(c) \/ AccessPage(c)

===============================================================================
