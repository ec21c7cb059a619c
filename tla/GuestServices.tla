------------------------------- MODULE GuestServices -------------------------------
(* Who uses the page tables of the hypervisor: Init64 on the BSP, which maps what it
   needs, wakes the application processors and then takes low memory out of the
   tables; the application processors, which come up meanwhile; and the exit handler,
   which maps pages of the guest for INT 15h, for the introspection call and for the
   search for the kernel (vmexit.c, vmmemory.c, vmguest.c, intro.c, mzpe.c).

   A script holds the calls of a piece of that code in order. A walk of the guest's
   page tables reads one page of them. What the introspection comes to is in the memory
   of the guest: a layout of it says where everything is, how long the lists are and
   which index leads past what was mapped. A span is the page, or the two pages, that
   PAGE_SIZE bytes from an address of the guest touch. *)
EXTENDS Paging, SequencesExt

CONSTANTS Bsp, Aps,           \* the processors; Aps in the order they are woken
          Lapic,              \* the page of the local APIC
          Page0, Page1,       \* the first two pages: IVT, BIOS data, INT 15h patch
          Screen,             \* video memory, 0xB8000
          OtherLow,           \* the rest of the memory before MiniHV
          Vmcs(_),            \* the VMCS region of a processor
          GuestTables,        \* page tables of the guest
          GuestPages,         \* memory of the guest's operating system
          Layouts,            \* what the introspection may find there
          SearchPages,        \* bound: the pages IntFindKernelBase reads
          GuestCalls          \* bound: the exits of one processor, before osRuns and after

VARIABLES osRuns,      \* the guest's operating system has replaced its BIOS
          calls        \* exits a processor has had that use the tables

servicesVars == <<pagingVars, osRuns, calls>>

LowPages == {Page0, Page1, Screen} \union OtherLow
VmcsPages == {Vmcs(c) : c \in CPUs}

Spans == {span \in Seq(GuestPages) : Len(span) \in 1..2}

\* An index into a span stays in it, or leads anywhere.
Index(span) == {Access(p) : p \in Range(span)} \union {AccessPast(p) : p \in Frames}

\* Where an export is looked for: the entry of the name table that is read, the name,
\* <<>> when its page is not there, and when it is the name that is looked for the
\* entries of the ordinals and the functions.
NamesOf(e) ==
    LET n == Len(e.tables)
    IN  [entry : Index(e.tables[n - 2]), span : Spans \union {<<>>},
         function : {<<>>} \union (Index(e.tables[n - 1]) \X Index(e.tables[n]))]

\* A process of the list: its page, and what it writes to the number of processes and
\* to the buffer, which is nothing for process 0.
ProcessesOf(e) ==
    [span : Spans, written : {<<>>} \union {<<use>> : use \in Index(e.buffer)}]

\* The headers of the image are where its first bytes say. The tables of names, ordinals
\* and functions have e.pages pages each, in tables in the order they are mapped. The
\* loop over the names ends where the name is found.
IsLayout(e) ==
    /\ e.table \in GuestTables
    /\ {e.buffer, e.image, e.exportDir, e.symbol} \subseteq Spans
    /\ e.headers \in Index(e.image)
    /\ e.context \in Seq(Spans) /\ Len(e.context) <= 1
    /\ e.pages \in Nat \ {0} /\ e.tables \in Seq(Spans) /\ Len(e.tables) = 3 * e.pages
    /\ e.names \in Seq(NamesOf(e))
    /\ \A i \in DOMAIN e.names : e.names[i].function # <<>> => i = Len(e.names)
    /\ e.processes \in Seq(ProcessesOf(e))

\* Every page has one use; the guest has no memory of the hypervisor, but its tables
\* and pages may be anything else. _init32.yasm links the tables of what it maps.
ASSUME ServicesAssumption ==
    /\ Bsp \in CPUs /\ Aps \in Seq(CPUs \ {Bsp}) /\ IsInjective(Aps)
    /\ LowPages \union VmcsPages \union {Lapic} \union GuestTables \union GuestPages \subseteq Frames
    /\ Screen \notin {Page0, Page1} \union OtherLow
    /\ Lapic \notin LowPages \union VmcsPages /\ LowPages \intersect VmcsPages = {}
    /\ \A c, d \in CPUs : c # d => Vmcs(c) # Vmcs(d)
    /\ (GuestTables \union GuestPages) \intersect VmcsPages = {}
    /\ Screen \in BootMapped
    /\ \A p \in BootMapped : Region(p) \in BootTables
    /\ \A e \in Layouts : IsLayout(e)
    /\ SearchPages \in Nat \ {0}

Read(p) == <<MapMemory({p}), Access(p)>>

SerialInitialize == Read(Page0) \o <<UnmapVa({Page0})>>

\* The two pointers are not those of a page: PAGE_SIZE bytes from them are two pages.
PatchInt15 ==
    Read(Page0) \o Read(Page0) \o <<UnmapVa({Page0, Page1}), UnmapVa({Page0, Page1})>>

\* VmxStartVmxOn says on the screen that it is done; VmxSetupVmcsStructures then
\* takes the region out of the tables.
SetUpVmx(c) == <<Access(Screen), Access(Vmcs(c)), UnmapVa({Vmcs(c)})>>

WakeUp(c) == <<Access(Lapic), [op |-> "wake", cpu |-> c], [op |-> "awaitSignal"]>>

\* Init64 until the guest is launched.
BspBoot ==
    <<MapMemoryInvalidate({Lapic}, Uncacheable, TRUE)>>
    \o SerialInitialize
    \o <<MapMemoryInvalidate(VmcsPages, WriteBack, TRUE)>>
    \o PatchInt15
    \o <<Access(Vmcs(Bsp))>> \o [i \in DOMAIN Aps |-> Access(Vmcs(Aps[i]))]
    \o <<[op |-> "count"]>>
    \o SetUpVmx(Bsp)
    \o FlattenSeq([i \in DOMAIN Aps |-> WakeUp(Aps[i])])
    \o <<Access(Screen), [op |-> "unmapPml4"], UnmapVa(LowPages), MapMemory({Screen})>>

\* ApicInitAPCpu: the BSP goes on as soon as the processor is counted.
ApBoot(c) == <<[op |-> "count"], Access(Screen)>> \o SetUpVmx(c)

-------------------------------------------------------------------------------
(* What the exit handler does with the tables. *)

\* Mutant: the buffers are unmapped by their physical address.
Int15hByPa(buffer, stack) ==
    Read(buffer) \o <<UnmapPa({buffer})>> \o Read(stack) \o <<UnmapPa({stack})>>

\* SimulateInt15h, then the flags on the guest's stack.
Int15h(buffer, stack) ==
    Read(buffer) \o <<UnmapVa({buffer})>> \o Read(stack) \o <<UnmapVa({stack})>>

\* SimulateInt15h refuses what it is asked.
Int15hFails(stack) == Read(stack) \o <<UnmapVa({stack})>>

\* The walk of the guest's tables fails, or what the code looks for is not there: what
\* is left of the exit is rest.
OrElse(rest) == [op |-> "orElse", rest |-> rest]

\* GuestVAToHostVA: the guest's table is mapped, read and never unmapped.
GuestVAToHostVA(table, span, rest) ==
    Read(table) \o <<OrElse(rest), MapMemory(Range(span))>>

Use(span) == [i \in DOMAIN span |-> Access(span[i])]
GiveBack(spans) == [i \in DOMAIN spans |-> UnmapPa(Range(spans[i]))]

\* GuestReadWord, GuestReadDword, GuestReadQword.
GuestRead(table, span, rest) ==
    GuestVAToHostVA(table, span, rest) \o Use(span) \o GiveBack(<<span>>)

\* The cleanup of MzpeFindExport with n of the table pages mapped: once for each page
\* of a table, what the three pointers have been set to last. (The addresses count up
\* from there; none is reached.)
Cleanup(e, n) ==
    FlattenSeq([i \in 1..e.pages |-> GiveBack(SubSeq(e.tables, IF n < 3 THEN 1 ELSE n - 2, n))])
    \o GiveBack(<<e.exportDir, e.image>>)

\* One page of the names, the ordinals or the functions, for which the export
\* directory is read again.
MapTable(e, n, quit) ==
    Use(e.exportDir) \o GuestVAToHostVA(e.table, e.tables[n], Cleanup(e, n - 1) \o quit)

\* One name of the export table; the loop goes on when its page is not there.
Lookup(e, name) ==
    <<name.entry>> \o Read(e.table)
    \o IF name.span = <<>> THEN <<>>
       ELSE <<MapMemory(Range(name.span))>> \o Use(name.span) \o name.function
            \o GiveBack(<<name.span>>)

\* An image need not have an export directory. The test of mzpe.c:97 is never true: the
\* loop before it has set both pointers.
MzpeFindExport(e, quit) ==
    GuestVAToHostVA(e.table, e.image, quit) \o Use(e.image)
    \o <<e.headers, OrElse(GiveBack(<<e.image>>) \o quit)>>
    \o GuestVAToHostVA(e.table, e.exportDir, GiveBack(<<e.image>>) \o quit) \o Use(e.exportDir)
    \o FlattenSeq([n \in DOMAIN e.tables |-> MapTable(e, n, quit)])
    \o FlattenSeq([i \in DOMAIN e.names |-> Lookup(e, e.names[i])])
    \o Cleanup(e, Len(e.tables))

Found(e) == \E i \in DOMAIN e.names : e.names[i].function # <<>>

\* One process of the list: it is counted and written to the buffer.
Process(e, process, quit) ==
    GuestVAToHostVA(e.table, process.span, quit) \o Use(process.span)
    \o (IF process.written = <<>> THEN <<>>
        ELSE FlattenSeq([i \in DOMAIN e.context |-> Use(e.context[i])]) \o process.written)
    \o GiveBack(<<process.span>>)

\* The introspection call: the buffer, the number of processes when the caller wants
\* it, and the list. Intro.KernelBase may not be known yet.
ActiveProcessesList(e) ==
    LET quit == GiveBack(<<e.buffer>> \o e.context)
    IN  GuestVAToHostVA(e.table, e.buffer, <<>>)
        \o FlattenSeq([i \in DOMAIN e.context |-> GuestVAToHostVA(e.table, e.context[i], <<>>)])
        \o <<OrElse(quit)>>
        \o MzpeFindExport(e, quit)
        \o (IF Found(e)
             THEN GuestRead(e.table, e.symbol, quit)
                  \o FlattenSeq([i \in DOMAIN e.processes |-> Process(e, e.processes[i], quit)])
             ELSE <<>>)
        \o quit

\* IntFindKernelBase, which ends where it finds the image.
FindKernelBase(table, pages) ==
    FlattenSeq([i \in DOMAIN pages |-> GuestRead(table, <<pages[i]>>, <<>>) \o <<OrElse(<<>>)>>])

-------------------------------------------------------------------------------
ServicesInit ==
    /\ PagingInit
    /\ script = [c \in CPUs |-> IF c = Bsp THEN BspBoot ELSE <<>>]
    /\ osRuns = FALSE
    /\ calls = [c \in CPUs |-> 0]

\* ApicSendIpi: the processor starts.
WakeCpu(c) ==
    /\ Does(c, "wake")
    /\ LET ap == Head(script[c]).cpu
       IN script' = [script EXCEPT ![c] = Tail(@), ![ap] = ApBoot(ap)]
    /\ UNCHANGED <<pte, tables, identity, ActiveCpus, PagingLock, tlb, at, left, fault, osRuns, calls>>

\* ActiveCpus is incremented and WakeupLock signalled.
CountCpu(c) ==
    /\ Does(c, "count")
    /\ ActiveCpus' = ActiveCpus + 1
    /\ Ends(c)
    /\ UNCHANGED <<pte, tables, identity, PagingLock, tlb, at, left, fault, osRuns, calls>>

\* EvtWaitForSignal: until the processor that was woken is counted.
Signalled == \A i \in DOMAIN Aps : [op |-> "count"] \notin Range(script[Aps[i]])

AwaitSignal(c) ==
    /\ Does(c, "awaitSignal")
    /\ Signalled
    /\ Ends(c)
    /\ UNCHANGED <<pte, tables, identity, ActiveCpus, PagingLock, tlb, at, left, fault, osRuns, calls>>

Asleep(c) == c # Bsp /\ ActiveCpus # Cardinality(CPUs)
InGuest(c) == script[c] = <<>> /\ fault[c] = {} /\ ~Asleep(c)

\* The operating system takes over on the BSP and wakes the other processors.
OsStarts ==
    /\ InGuest(Bsp) /\ ~osRuns
    /\ osRuns' = TRUE
    /\ calls' = [c \in CPUs |-> 0]
    /\ UNCHANGED pagingVars

Exit(c, services) ==
    /\ InGuest(c) /\ calls[c] < GuestCalls
    /\ script' = [script EXCEPT ![c] = services]
    /\ calls' = [calls EXCEPT ![c] = @ + 1]
    /\ UNCHANGED <<pte, tables, identity, ActiveCpus, PagingLock, tlb, at, left, fault, osRuns>>

\* VMCALL with INT15_E820: only from the patched handler, RIP in the IVT.
VmCallInt15h(c) ==
    /\ c = Bsp /\ ~osRuns
    /\ \E buffer, stack \in {Page0, Page1} \union OtherLow :
          Exit(c, Int15h(buffer, stack)) \/ Exit(c, Int15hFails(stack))

\* VMCALL of the introspection.
VmCallIntrospection(c) ==
    /\ osRuns
    /\ \E e \in Layouts : Exit(c, ActiveProcessesList(e))

\* WRMSR of SYSENTER_EIP: IntFindKernelBase reads page after page.
WrMsr(c) ==
    /\ osRuns
    /\ \E table \in GuestTables, pages \in [1..SearchPages -> GuestPages] :
          Exit(c, FindKernelBase(table, pages))

\* The script goes on, or what is left is rest.
GoOnOrElse(c) ==
    /\ Does(c, "orElse")
    /\ Ends(c) \/ script' = [script EXCEPT ![c] = Head(@).rest]
    /\ UNCHANGED <<pte, tables, identity, ActiveCpus, PagingLock, tlb, at, left, fault, osRuns, calls>>

BootStep(c) == WakeCpu(c) \/ CountCpu(c) \/ AwaitSignal(c) \/ GoOnOrElse(c)
GuestStep(c) == VmCallInt15h(c) \/ VmCallIntrospection(c) \/ WrMsr(c)

ServicesNext ==
    \/ \E c \in CPUs : (PagingStep(c) /\ UNCHANGED <<osRuns, calls>>) \/ BootStep(c) \/ GuestStep(c)
    \/ OsStarts

ServicesSpec == ServicesInit /\ [][ServicesNext]_servicesVars

\* A processor goes on with what it has begun. PagingLock is a spin lock without
\* order: with GuestCalls exits the others cannot take it for ever.
ServicesFair ==
    \A c \in CPUs : WF_servicesVars((PagingStep(c) /\ UNCHANGED <<osRuns, calls>>) \/ BootStep(c))

FairServicesSpec == ServicesSpec /\ ServicesFair

-------------------------------------------------------------------------------
(* Properties *)

\* The BSP is between UnmapMemory of low memory and MapMemory of the screen.
ScreenWindow ==
    /\ ~identity
    /\ \E i \in DOMAIN script[Bsp] : script[Bsp][i] = MapMemory({Screen})

\* A processor finds every page it has mapped until it is done with it, although the
\* others map and unmap the same pages and nobody counts the mappings, and no lock
\* ASSERT fails. The exceptions are the code's own: an application processor that says
\* hello on the screen while Init64 has low memory unmapped (init64.c:245 to 248), and
\* an index that leads past the page mapped for it (mzpe.c:44, 104, 115, intro.c:125).
MappedPagesAreFound ==
    [][\A c \in CPUs : fault'[c] # fault[c] =>
          \/ c # Bsp /\ fault'[c] = {Screen} /\ ScreenWindow
          \/ script[c] # <<>> /\ \E p \in Frames : /\ Head(script[c]) = AccessPast(p)
                                                  /\ fault'[c] = {p}]_servicesVars

\* UnmapMemory tells no other processor, so one may keep a translation of a page that
\* is gone (paging_tables.c:262). The only pages that happens to are the screen and the
\* VMCS regions: never a page of the guest or of low memory that is mapped again for
\* another use.
StaleTranslationsAreHarmless ==
    \A c \in CPUs, p \in Frames :
        tlb[c][p] # Absent /\ pte[p] = Absent => p = Screen \/ p \in VmcsPages

\* Once the BSP is in the guest and until the operating system runs, nothing of the
\* memory before MiniHV is left in the tables but the screen: the INT 15h calls of the
\* guest's BIOS give back all they map.
LowMemoryIsGivenBack ==
    InGuest(Bsp) /\ ~osRuns => {p \in LowPages : pte[p] # Absent} = {Screen}

\* Nobody waits for PagingLock for ever: what a processor begins in the boot or in an
\* exit ends.
ServicesEnd == \A c \in CPUs : script[c] # <<>> ~> script[c] = <<>>
===============================================================================
