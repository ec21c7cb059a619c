# A verification development for MiniHV

MiniHV is a 64-bit Intel VT-x hypervisor: a boot loader starts it on the bare
machine, it puts every processor under VMX, and it then boots an operating
system from disk as its guest. This directory holds TLA+ models of the parts of
it in which order or arithmetic matters (locks, processor start-up, event injection,
panic, paging, heap, hash table and searches, the guest's memory map, memory types
and VMX controls), the TLC configurations that check them on small
instances, and proofs, checked by TLAPS, that hold for every instance.

The repository has no documentation and no tests. What the code is *supposed*
to do is taken from its header comments, its ASSERTs and the comments next to
the code; each property quotes or names the lines it is about. In this text
`file.c:12` means a file of `src/src/CommonLib/src`, `src/src/CommonLib/inc`,
`src/src/minihvex` or `src/src/minihvex/headers`.

Contents: [inventory](#1-inventory) · [modules](#2-modules-and-how-they-correspond-to-the-code) ·
[runs](#3-the-runs) · [fairness](#4-fairness) · [proofs](#5-what-is-proved) ·
[findings](#6-where-the-code-and-its-own-claims-differ) ·
[limits](#7-what-is-not-modelled) · [plan](#8-plan) · [how to run](#9-how-to-run)

## 1. Inventory

State is what a component keeps; "M" marks what a module models now, "P" what
the plan has next.

| Component | State | Operations | Talks to | What is hard | What makes it correct | |
|---|---|---|---|---|---|---|
| LOCK: spinlock, monitor lock (`spinlock.c`, `monlock.c`, `lock.c`) | `State`, `Holder`, `FunctionWhichTookLock` | Acquire, TryAcquire, Release | everything that logs, maps, allocates | stores after the CAS and before the release are seen by others; monitor/mwait may miss a release | one owner, ASSERTs hold, interrupts off inside, lock not lost | M |
| Readers-writer lock (`rw_spinlock.c`) | three WORDs | acquire/release shared or exclusive | recursive lock | readers pose as writers; two CAS words of three | writer alone, writers first, no starvation of writers | M |
| Recursive readers-writer lock (`rec_rw_spinlock.c`) | depth, holder, the lock above | nested acquire/release | dump code | holder and depth are read without the lock | depth is what is outstanding; interrupts restored once | M |
| SMP start-up (`apic.c`, `init64.c`, `event.c`, trampoline) | `ActiveCpus`, `WakeupLock`, the shared stack, identity map | INIT/SIPI/SIPI per AP, signal, launch; guest's INIT and SIPIs | LAPIC, VMX, guest | shared initial stack; late second SIPI; guest starts APs meanwhile | one CPU on the stack, map removed in time, AP starts where the guest says | M |
| Event injection, NMI handler (`idt_handlers.c`, `vmguest.c`, `vmx_operations.c`, `log.h`) | `PendingEventForInjection`, VM-entry field, `SerialLock` | inject, LOG, resume, NMI | locks, guest | the NMI interrupts every instruction and releases a lock its CPU holds | NMI delivered, lock survives | M |
| Panic (`assert.c`, `hv_assert.c`) | HALTED flag, two locks | ASSERT, INIT to all, checks around the guest | all | flag, INIT and VM entry race; several CPUs panic | every guest stops, every panic halts | M |
| Heap (`cl_heap.c`, `hv_heap.c`) | ordered list, sizes, `FreeAddress`, `EntryToRestartSearch` | init, allocate, free | all | gaps, alignment, restart of the search | blocks disjoint and aligned, sizes exact | M |
| Guest memory map (`lower_mem.yasm`, `int15_memory.c`, `vmmemory.c`, `ept.c`, E820 part of `vmexit.c`) | the list, two statics of the enumeration, EPT | retrieve, measure, normalise, cut, map, answer INT 15h | firmware, guest, heap | boundaries of the cut; enumerations that interleave | guest told the truth, hypervisor hidden | M |
| VM exit dispatch (`vmexit.c`) | guest registers, VMCS | one handler per exit reason | guest, all of the above | each exit must advance RIP once or inject | INIT, SIPI, INT 15h, the introspection call and MSR writes do what their callers rely on | partly M, P |
| VMX set-up (`vmx_capability.c`, `vmx_operations.c`, `vmcs.c`) | `m_vmxCapabilities`, chosen values, VMCS control fields | read the MSRs, assert, adjust, write | processor | two masks per field; the pin field decides on the exit field; one check for all CPUs | what is written is allowed and has what MiniHV needs | control fields M |
| Paging (`paging_tables.c`) | page tables, `PagingLock`, TLBs | map, unmap, remove PML4 entry 0 | heap, every map user | no TLB shootdown, no counting of mappings, unlocked until the APs are counted | nobody loses a page it uses, no stale use | M |
| MTRR (`mtrr.c`) | ranges per memory type | read registers, join, look up an address | EPT | merging of ranges, precedence | no device memory is cached | M |
| Introspection (`intro.c`, `mzpe.c`, VMCALL of the driver) | kernel base | find kernel, list processes | guest memory, paging | loops over guest data, pages mapped and not unmapped, indices taken from the guest | uses only what it has mapped | M |
| Lists, hash table (`list.c`, `hash_table.c`) | the links, `NumberOfElements`, the iterator | insert, remove, lookup, iterate, clear | lists: all; the table: no caller in MiniHV | removing the element just returned; the same key twice | as a dictionary; iteration complete | M |
| Binary search, bitmap (`cl_algorithm.c`, `bitmap.c`) | - / bits | search; scan and flip a run | no caller in MiniHV | DWORD arithmetic at 0; runs at the end | found if and only if there; runs apart | M |
| Stack, reference counter, bit helpers (`CommonLib`) | the structure | push, pop, last reference | no caller in MiniHV | - | - | left out |
| ACPI glue, PCI, serial, display, PIT/PIC/RTC/CMOS, GDT/IDT/TSS, dumps, strings | tables, registers | I/O and formatting | hardware | none that a model reaches | - | left out |

How they interact. Every component logs through `LOG`, which takes `SerialLock`; allocation
takes `HeapLock`, mapping takes `PagingLock` and allocates under it, always in that order;
`SerialLock` is innermost, taken under the dump lock (`dmp_common.c`) or whatever lock the
caller that logs holds. There are no threads: each processor runs either its guest or the VM
exit handler, with interrupts off, so that the only things that interleave are the
processors, NMIs, and what the guest does. Nothing is persisted and there are no timeouts:
the BSP spins for each AP without limit.

## 2. Modules and how they correspond to the code

Variables and actions have the source's names where TLA+ allows. A definition
marked *Mutant* is a plausible mistake next to the definition it would replace;
no specification uses it. Its run shows that the property is violated with it.

* **Mutex**, **SpinLock** (`LOCK`). `Mutex` is the promise: one owner, gained
  when free, given up by the owner. `SpinLock` has the words of the lock and one
  action per access to them, for both implementations (`LockAcquire` is the
  function pointer that selects one). `armed` is the set of CPUs whose monitor
  hardware is armed; every store to the lock's line triggers it (`Trigger`).
  A failed ASSERT ends in `panic` or, for a `Release` after a `TryAcquire`, in
  `panicAfterTry`, and that CPU stops.
* **ReadersWriter**, **RwSpinLock**. `ReadersWriter` is the promise,
  `RwSpinLock` the three 16-bit words; the double-word CAS of a writer compares
  (ActiveWriter, ActiveReaders), that of a reader (WaitingWriters,
  ActiveWriter), each as one atomic step. A reader is active writer for the
  moment between its CAS and the decrement, which is why the labels distinguish
  CPUs that *are* writers from those that *pose as* one.
* **RecRwSpinLock** is composed with RwSpinLock, which it extends: the inner lock's
  own actions run while the outer code is inside of it, so that one run checks both. `outer`
  is the interrupt state each outstanding Acquire returned to its caller.
* **SmpBoot** (with **MCSmpBoot** for the list of processors). One action per
  step of `ApicWakeUpCpus`, the trampoline, `ApicInitAPCpu`, `VmxStartGuest`, and
  the INIT and SIPI exits. Processor, LAPIC and guest are external: what an INIT
  or SIPI does depends on the mode the processor is in (ignored, starts it,
  pending until VM entry, VM exit).
* **NmiInjection**. A CPU between a VM exit and the next entry (`pc`) and, on top
  of it, its NMI handler (`nmi`). `owed` is a history variable: the events handed
  to `GuestInjectEvent` since the last entry. `SerialLock` is its owner and
  Holder, changed in the order the lock code changes them.
* **Panic**. `AssertInfo` and `MiniHVAssert`, the checks of the HALTED flag at
  exit and resume, the INIT that is blocked in VMX root operation until entry.
  Both locks are their owners: what those words do is SpinLock's concern.
* **Allocator**, **Heap**. `Allocator` promises disjoint blocks of the size asked
  for. `Heap` is `cl_heap.c` with real sizes of its structures (72, 32, 4 bytes):
  the easy case at the end, the search from `EntryToRestartSearch` with its
  skipped turns, `pPreviousHeapEntry` that stays NULL in some of them, and free.
  `HeapLock` makes each call one step. A search that begins at an entry that was
  freed ends in `undefined`: what the code does then depends on freed memory.
* **MemoryMap**. From the firmware's entries to the guest:
  `RetrieveInt15Map`, the two functions of `int15_memory.c`, `PatchMemoryMap` with
  its three cases (`Split`), the two EPT ranges of `Init64`, and `SimulateInt15h`
  with its two statics. A loop over the entries is one step per entry, with
  `entryIndex` for its i. Addresses count megabytes. `walk[p]` is a history
  variable: the entries program p has been given.
* **Mtrr**. `MtrrInit` fixes the registers, which stay as they are; the actions read the fixed bytes
  and the variable registers one by one and join neighbours of one type as
  `mtrr.c` does (`TraverseFixed`, `RetrieveVariable`), then make the calls of `GuestMapMemoryRange`
  page by page. A list is the set of its ranges.
* **VmxControls**. The BSP retrieves field after field and asserts
  (`VmxRetrieveCapabilities`), then every processor adjusts and writes its fields in
  the order of `vmcs.c` (`WriteControls`). A DWORD is the set of its bits that are 1.
* **MCGuestSetup** puts MemoryMap, Mtrr and VmxControls in one run: a behaviour is one
  of one of the three (`part`), which share no state.
* **Paging**. One entry per page, the tables they are in, one TLB per
  processor, `PagingLock`. `MapMemory` and `UnmapMemory` go through their pages one
  at a time, with the lock only once `ActiveCpus` is not 0, as `paging_tables.c`
  decides it. A *script* is the sequence of calls and accesses a piece of code makes.
* **GuestServices** (with **MCGuestServices**) is composed with Paging: it writes
  the scripts of `Init64`, of an AP that comes up, of `SimulateInt15h`, of the
  introspection call and of `IntFindKernelBase`, and decides when each can begin.
  What the introspection meets in the guest's memory is a *layout* (`IsLayout`): where
  the image, its export directory, the three tables, the names and the processes are,
  how many there are, and which page an index leads to. From it `MzpeFindExport` and
  `IntGetActiveProcessesList` are written loop by loop (`MapTable`, `Lookup`, `Process`,
  `Cleanup`). At each point where a walk of the guest's tables may fail or a check may
  send the code to its cleanup, the script has an `OrElse` with what is left to do then;
  `GoOnOrElse` takes either way. `Access` is a use of memory the code has mapped for it,
  `AccessPast` one by an index that is not checked against the page it was mapped with.
* **Dictionary**, **HashTable**. `Dictionary` promises a function from keys to elements
  and its size; `HashTable` has the forward and backward links of bucket heads and
  elements, and the iterator with its bucket and next entry.
* **Search**. `BinarySearch` turn by turn, with the arithmetic of a DWORD; the scan for a
  run of clear bits and the flip.
* **MCCommonLib** puts Heap, HashTable and Search in one run, as MCGuestSetup does.
* **SpinLock_proofs**, **RecRwSpinLock_proofs** (RwSpinLock and RecRwSpinLock),
  **Panic_proofs**, **NmiInjection_proofs**, **SmpBoot_proofs**, **GuestSetup_proofs**
  (MemoryMap, Mtrr, VmxControls), **GuestServices_proofs** (with Paging),
  **CommonLib_proofs** (Search, Heap, HashTable): section 5.

## 3. The runs

Twelve runs: eight that hold and four that show a claim of the code violated
(section 6).

| Run | Instance | States | What it shows |
|---|---|---|---|
| `lock` | 3 CPUs, both lock kinds, any mix of Acquire and TryAcquire | 50 157 | mutual exclusion, no ASSERT of Acquire/Release fails, interrupts off, no missed wake-up, refinement of Mutex |
| `rec_rw` | 3 CPUs, each reader or writer, depth 2 (the value `dmp_common.c` uses) | 55 649 | inner lock: the inductive invariant (from which a writer is alone), writer priority, some waiting writer gets in, refinement of ReadersWriter; outer lock: holder and depth are what is outstanding, interrupts restored by the outermost release only |
| `smp` | BSP and 2 APs, not nested | 618 | one CPU on the initial stack, identity map kept while needed, ASSERT on the count holds, AP starts at the guest's vector and does start, the BSP boots |
| `nmi` | 2 CPUs, 2 NMIs each, reflected faults | 86 430 | an NMI at any instruction: lock survives, NMI is delivered, LOG goes on |
| `panic` | 3 CPUs, 1 NMI to a halted CPU | 6 275 | no guest runs after the INIT, a panic stops every guest, each panic halts |
| `commonlib` | 400-byte heap, sizes 4, 28 and 300, alignments 16 and 64; 2 buckets, 4 elements, 2 of them with one key; arrays of up to 5 in a DWORD of 8 bits; a bitmap of 6 | 24 570 | heap entries ordered and disjoint, sizes exact, refinement of Allocator; the table is a Dictionary, iteration returns every element once; the search finds what is there; runs of bits do not overlap |
| `guest_setup` | 5 MB, up to 3 firmware entries, 2 programs; 3 fixed bytes, 2 variable registers, 3 types, 12 pages; 480 contents of the MSRs, 2 processors | 430 142 | hypervisor reserved and unmapped, rest unchanged, every enumeration follows the map; lists follow the registers, no page is cached that the processor would not cache; fields written are allowed and sufficient |
| `guest_services` | BSP and 1 AP, 2 guest pages, one of them a page table too, 3 layouts, 1 exit each before and after the operating system starts | 196 501 | a page that a processor has mapped stays until it is done, on every path of the introspection; stale translations only of screen and VMCS regions; low memory is given back; what a processor begins ends |

The deeper properties, and why they are not restatements of a line:

* `NoAssertFails` of the lock relates the order of four stores in Release with
  the checks of another CPU's Acquire; it takes two CPUs and a store out of order
  to break it.
* `IInv` and the refinement say that a writer is alone, which depends on a third
  word neither CAS looks at.
* `StartsAtGuestVector` needs a SIPI of the BSP, one of the guest and the AP's
  own launch to be in an order nobody waits for.
* `NmiIsDelivered` relates everything handed to the guest since the last entry
  to the one field the entry reads.
* `NoGuestAfterIpi` must hold for a CPU that has passed its check already.
* `OrderedByAddress` and the refinement quantify over every history of
  allocations and frees, with bytes lost to alignment.
* `MappedPagesAreFound` needs two processors that map and unmap the same pages
  with nobody counting, and `StaleTranslationsAreHarmless` a third use of the page
  afterwards; both hold because of who maps what when, which is nowhere written down.
* `WriteBackIsWriteBack` compares the lists, after joining and with the order in
  which they are searched, with what the processor makes of the same registers.
* `GuestCanStart` covers processors that force bits MiniHV does not want, lack
  bits it wants, and whose pin controls change the exit controls.
* `IterationIsComplete` holds while the caller removes the element just returned.
* `EveryWalkFollowsTheMap` covers programs that restart, repeat and fail
  calls in turn, on statics that know of one program.

Bounds, and why they are enough. *CPUs*: three is the least number with a holder, a waiter
and a newcomer; two suffice for NMIs, which only meet the CPU they strike and one competitor
for the lock, and for paging, where one processor's unmap meets the other's use. The proofs
remove this bound for the locks, the panic, the memory types and the VMX controls. *NMIs*:
two per CPU let one interrupt the handling of another's event; the handler itself is not
interrupted by NMIs, so that a third would repeat the second. *Heap*: 400 bytes hold up to
seven entries of the least size, enough for a gap in front of, between and behind live
entries with the search starting at each of them; 300 never fits beside another and forces
the failing path. *Memory map*: 5 MB with the hypervisor at 1 MB gives each of the three
cases of the cut, two sizes of the heap, entries that are too small, reserved or invalid
before the one that fits, and maps of up to four entries; `MAX_NO_OF_MEMORY_MAP_ENTRIES` is
3, so that its check is met too. *Types*: two variable registers are disjoint, adjacent,
nested or off, below, across and above the fixed range; three types give one that wins
(uncacheable), one that loses (write-back) and one in between; the proof removes the bound.
*Controls*: per field, the bits MiniHV wants and one that a processor may force. *Paging*:
the guest's two pages and its table are enough for two processors to share one and differ in
another; one exit per processor while the BIOS runs, and one after, let every pair of
scripts overlap, since the scripts are begun at any time. Of the three layouts one has
everything in its place, one has tables of two pages, a name whose page is missing, no such
export, and an index past the names to a page that may not be mapped, one has an image over
two pages and indices past the functions and past the buffer to a page of the hypervisor;
each walk may fail besides. `SearchPages` is 2, the least that has a page searched after one
given up. *Table*: a bucket with two keys and one with one, and two elements that compete
for a key. *Search*: up to five elements take three turns, and a miss at either end takes
`left` and `right` past each other; a DWORD of one byte wraps like one of four.

Deadlock is checked for `rec_rw`; elsewhere the system really may stop: a CPU that fails
an ASSERT stays stopped and others wait for its lock, all CPUs have halted after a panic,
all are in their guests for good once booted or have had all their exits, a heap search has
ended in an ASSERT, an array has been searched, the boot has been refused for lack of
memory, all fields have been written.

## 4. Fairness

* `lock`, `rec_rw`: weak fairness of each CPU's next instruction inside of the lock's
  code, and of leaving the critical section. Each CPU of the model is a
  processor; interrupts are off and nothing preempts it. Nobody is obliged to
  ask for the lock. No fairness is assumed of the CAS: that *some* CPU gets the
  lock is shown, that a given one does is not true of this code.
* `smp`: weak fairness of the BSP and of every AP, and of the guest's second and
  third IPI to an AP once it has sent the first: a guest that has sent INIT
  follows the start-up protocol. Without the last one nothing is owed.
* `nmi`: weak fairness of each CPU's instructions, handler included; NMIs need
  not come.
* `panic`: weak fairness of a CPU in the host. A guest may run forever without
  an exit; it is the INIT that ends it.
* `guest_services`: weak fairness of each processor's steps in what it has begun;
  exits need not come. `PagingLock` has no order, so in general a processor could
  wait while the others take the lock again and again; with `GuestCalls` exits they
  do not. `ServicesEnd` takes the loops over guest data to end, as long as the layout says: it
  does not cover a guest for which `IntFindKernelBase` never ends (section 6).
* `commonlib`, `guest_setup`: none, they check safety only.

There is no strong fairness anywhere.

## 5. What is proved

TLAPS checks all of the following for every value of the constants that
satisfies the named assumptions (`SpinLockAssumption`: NoCpu is not a CPU;
`RwAssumption`: in addition CPUs is finite and smaller than 65536, so that a
WORD can count them; `RecAssumption`: the depth is a positive BYTE; `PanicAssumption`; `MtrrAssumption`: the
fixed registers cover the memory before their end without a gap; `ControlsAssumption`: MiniHV
asks for the bits it cannot do without; `ServicesAssumption`: every page has one use, see below;
`HashTableAssumption`: the elements are finitely many and none is the head of a bucket).

**SpinLock_proofs** — `TypeCorrect`, `MutualExclusionHolds`,
`NoAssertEverFails`, `IntrStaysOff`, `LockImplementsMutex`.
Mutual exclusion alone is not inductive: nothing in it says that the lock word
is taken while a CPU owns it. `MutexInv` adds `OwnerKeepsTaken` (who is between
CAS and final store has State = LOCK_TAKEN), so that a second CAS fails.
For the ASSERTs, `AssertInv` adds that Holder and FunctionWhichTookLock are
*exactly* what the label of the owner says (`HolderIsExact`,
`FunctionIsExact`): set after the CAS, cleared before the release, and clear
when there is no owner. The refinement follows since the owner is unique: every
step leaves it, gains it from nobody, or gives it up.

**RecRwSpinLock_proofs**, the readers-writer lock — `InvariantHolds`, `WriterIsAloneHolds`,
`WriterPriority`, `LockImplementsReadersWriter`. The invariant `IInv` says what the three
words count: WaitingWriters is the number of CPUs at the labels of announced writers,
ActiveReaders that of counted readers, ActiveWriter is 1 exactly if somebody is or poses as
the writer, and who does is alone. It is stated with cardinalities of label sets, so every
step needs how a cardinality changes when one CPU moves (`CountersFollow`, from
`CountAfterMove`, from the library's theorems on finite sets) and that no 16-bit counter
wraps (`WordArithmetic`). `WriterIsAlone` is then immediate, and `WriterPriority` follows
from the reader's CAS, which compares WaitingWriters with 0. For the refinement every step
of the code is reduced to one CPU that moves from a label to another and what the words were
when it did (`MoveIsLegal`): a move into the writer's labels happens when the words say that
nobody is or poses as a writer and nobody is counted, hence when the abstract lock is free;
a reader that poses as writer is a reader of the abstract lock from its CAS on.

**RecRwSpinLock_proofs**, the recursive lock — `InnerInvariantHolds`, `RecInvariantHolds`,
`DepthHolds`, `IntrRestoredHolds`, `RecWriterPriority`, `RecImplementsReadersWriter`. `IInv`
of the inner lock survives because every step of the composition is an inner step or leaves
the inner words alone (`InnerKept`, `OuterKept`), so the lemmas about RwSpinLock are used as
they are. `RecIInv` ties the two layers together: where the inner lock may be at each outer
label (`InnerFollows`), that `Holder` is exactly the CPU that is between its stores
(`HolderFollows`), the depth (`DepthFollows`) and the saved interrupt state
(`OuterFollows`). That `Holder` is read without the lock does no harm as a CPU finds
*itself* there or not, and only that CPU writes itself there. The refinement composes: a
step of the outer code is a step of the inner lock, which implements ReadersWriter, or moves
no CPU in it.

**Panic_proofs** — `TypeCorrect`, `NoGuestRunsAfterIpi`.
`NoGuestAfterIpi` is not inductive, as a CPU may be past its check. `PanicInv`
adds that the flag is set before the INIT (`FlagBeforeIpi`) and that every CPU
that is still on its way to an entry has the INIT pending (`InitAwaitsEntry`).
It holds with and without ASSERTs that fail inside of LOG.

**NmiInjection_proofs** — `TypeCorrect`, `LockAssertAlwaysHolds`,
`NmiIsAlwaysDelivered`, for any CPUs and any bound on NMIs, with and without exceptions
that are reflected. For the ASSERT, `LockInv` says what each CPU has of
SerialLock at each place (`Has`: nothing, the lock, the lock with its Holder), that a
handler that gave the lock away interrupted one who had it and runs on top of it
(`HandlerIsOnTop`, `HandlerKnows`), and that the recorded owner is that CPU
(`OwnerIsRecorded`). For delivery, `DeliveryInv` says that the counter counts what is
owed (`OwedIsCounted`), that an exception is injected only as the first event
(`ExceptionFirst`), and that an owed NMI is in the VMCS unless its handler is
just about to write it (`OwedIsWritten`): the counter makes the second injection fail its
ASSERT, and whoever gets past it finds nothing to overwrite.

**SmpBoot_proofs** — `InitialStackIsShared`, `AssertsHold`,
`IdentityMapIsNotMissed` for any finite list of processors, nested or not, and whether
or not the sleep between the SIPIs is long enough; `ApsStartAtGuestVector` from the two
conditions it needs (`~RunningNested`, `SipiSleepSuffices`; `smp_nested` shows what happens
without the first). None of the four is inductive. `BootInv` describes the loop of
the BSP: where it may be for each position in the list (`BspInLoop`), that the processors
it has passed have signalled, those ahead are off, and one at most is on its way
(`OneAtATime`), that a signal is that of the processor awaited, given after it was counted
(`SignalIsItsOwn`), and that ActiveCpus is the position (`CountIsExact`). `VectorInv`
adds what the VCPU of every AP says until the guest's SIPI and from then on.

**GuestSetup_proofs**, the map — `TheTruthIsTold`, `EptFollowsTheMap`,
`WalksFollowTheMap`, for any map of the firmware, any sizes and any number of programs.
Of firmware, only that valid entries do not overlap is used (`FirmwareIsSane`).
`MapInv` says at every turn of the loops what they have done: the highest end of the
entries seen (`HighestIsHighest`), and that the list so far has, byte for byte, the types of
the valid entries seen (`Copied`). PatchMemoryMap keeps that for every byte outside of
the hypervisor, by `SplitIsExact` for the entry it cuts and since entries do not overlap for
the others, hence `ToldTheTruth`. The EPT follows, as memory the guest may use lies below
the highest end (`EptIsRight`). For `EveryWalkFollowsTheMap`, `WalkInv` ties the two
statics together: an enumeration that is under way has `currentEntry` one behind its
continuation (`PlaceIsRight`), and whatever a program was given is a beginning of the list
(`WalkIsRight`), although the statics are shared.

**GuestSetup_proofs**, memory types — `ListsFollowRegisters`, `EptCachesNoDevice`, for any number of
registers and any contents the processor accepts. `MtrrInv` says, at every turn of
the loops, that an address is listed with a type exactly if one of the registers
read so far, or the entry that is being extended, says so (`TypesFollowRegisters`,
`LoopInv`); joining neighbours keeps the union because only entries of one type
whose ends meet are joined. A page found to be write-back is then listed as nothing else
(`FoundWriteBack`, from the order of the search), hence no register gives it another
type, hence neither the fixed nor the variable rules of the processor do.

**GuestSetup_proofs**, controls — `ControlsAreAccepted`: `GuestCanStart` for any number of
processors and any MSRs. The strengthening says which capabilities have been read
(`CapabilitiesRead`), that those asserted hold (`Asserted`), that every field already
written has its final value (`FieldsWritten`), and that the pin field is chosen
before the exit field needs it (`PinIsChosen`). The lemma `ChecksAreRight` is the
arithmetic of the two masks: must-be-one, may-be-one, and what is flexible.

**GuestServices_proofs** — `TranslationsAreHarmless`, `BiosGivesBackLowMemory`,
`PagesAreFoundMapped`, for any number of processors, any pages and any number of exits.
`ServicesAssumption` is the layout: low memory, the LAPIC and the VMCS regions are different
pages, each processor has a VMCS region of its own, none of these regions is the guest's,
and `_init32.yasm` maps the screen and links the tables of what it maps. The tables and
pages of the guest may be anything else, low memory included. Nothing is assumed of the
order in which the processors run. None of the three is inductive, as all depend on the
calls still to come. `ServicesInv` reads them off the scripts: a page that a call needs is
mapped now or by an earlier call of the same script, and nothing unmaps it in between
(`Covered`); a page of low memory that is mapped before the operating system runs is going
to be unmapped by the BSP (`Goes`); the screen, when it is gone, is about to come back, and
the boot processor is who brings it (`ScreenStays`). Two processors are never in the middle
of `MapMemory` or `UnmapMemory` together (`OneCallAtATime`): until `ActiveCpus` is counted
the BSP is alone, from then on it is `PagingLock` that each waits for, and the BSP is not in
such a call when it counts. `CachedPages` adds that until the operating system runs the
other processors have translations of the screen and of VMCS regions only. Three things have
to be shown for that. What Init64 does is found place by place in a script whose middle has
four calls for each application processor (`BootCall`). An exit begins a script of one of
two shapes (`OsScript`, `BiosScript`), whatever the layout of the guest's memory and however
many pages, names and processes it has. For the introspection this is shown piece by piece:
`Piece(s, B, M)` says that s needs the pages B mapped before it and has those of M mapped
after it, `PieceJoin` puts two together, and `PieceFlatten` the turns of a loop (by the
smallest counterexample, as `FlattenSeq` is recursive). What is left to do after an `OrElse`
unmaps physical addresses only (`CleanupIs`), so that any such script may take the place of
any other (`OsScriptKeeps`). An `AccessPast` needs nothing; that is all that is said of it.
And a step shortens one script by its first call and leaves the others, so that what they
said of later places carries over.

**CommonLib_proofs**, searches — `SearchIsAlwaysRight`, `RunsStayApart`. The first holds
for sorted arrays of any values and any width of the bounds, up to the size the assumption
allows. `SearchInv` keeps the element between the bounds as long as they are in order
(`Narrows`); the unsigned `right` wraps below 0 only when there is nothing to the left
of the first element, and the loop ends or goes on accordingly (`Wrapped`).

**CommonLib_proofs**, the heap — `AlwaysOrderedByAddress`, `HeapImplementsAllocator`, for
any heap, sizes and alignments. `OrderedByAddress` is inductive; what is hard is that
the search inserts where it has looked. The neighbours of a turn are found by counting
modulo the length of the list from wherever `EntryToRestartSearch` is (`RingTurns`), while
`pPreviousHeapEntry` is the entry of the last turn that was not skipped:
`GapIsBetweenNeighbours` shows that a turn that reaches the test with a previous
entry has two entries next to each other in the list, whether it is the first turn, follows
one that was not skipped, or follows the head. `PlacedFits` is what aligning costs:
the new entry lies in the gap with its tail, because the bytes lost to alignment are part
of what must fit. The refinement then maps one new entry at whatever place of the list
to one block allocated (`NewEntryIsAllocated`), aligned and apart from all
others, and a free to that block's removal; a search that stops changes none.

**CommonLib_proofs**, the books of the heap — `AlwaysAccounted`. What the list takes is a sum,
written as a recursive function (`UsedBytes`). That one exists for every list and that two agree
is shown by the smallest counterexample (`SumsExist`, `SumsAgree`, from `SmallestNumber`:
a non-empty set of naturals has a least element), which needs no induction over an
operator; an entry more at any place of the list adds its footprint and no other
(`NewEntryIsUsed`), and a free is that read backwards (`FreedEntryIsUnused`). The free of an entry
is exact because what was lost to its alignment was never counted as used. The
steps where a search stops need that the list is not empty when it is searched
(`EmptyListIsNotSearched`), the claim of the comment at `cl_heap.c:230`: with an empty
list, all that remains is at the end.

**CommonLib_proofs**, the hash table — `IterationsAreComplete`,
`HashTableImplementsDictionary`, for any number of buckets, any finite set of elements and any
keys. The buckets are ordered by key, so which node follows which needs no sequence: the
links of a ring lead from node to node with no key between, and back (`Linked`, `Adjacent`).
Three lemmas say what `list.c` does to that, without a table around it: a node put between two
neighbours (`LinkBetween`), a node taken out (`LinkAround`), and a replacement as one
after the other (`InsertIs`). `OneRingChanges` keeps the other buckets. A search ends
because keys ascend along the links and there are only so many nodes (`SearchEnds`,
by the pigeonhole principle), and it stops at the first key that is not smaller
(`SearchStopIs`), so that the placeholder is the neighbour an insert needs. For the iterator, `IterationInv`
says that what it has returned is, of all that was there at the start, what is in the
buckets it is done with or before its next entry, removed by now or not; the
entry looked up ahead is therefore never the one its user removes (`CurrentIsNew`). The
dictionary's size is right as keys and elements that are in are one to one (`TableLooksUp`).

Only model-checked, and why:

* liveness (`SomeCpuGetsIt`, `SomeWriterGetsIn`, `EveryGuestStarts`, `LogGoesOn`,
  `PanicStopsEveryGuest`, `EveryPanicHalts`, `ServicesEnd`): fairness and ENABLED are
  out of the reach of TLAPS. These seven are also all: every other property of a run
  that holds, invariants, action properties and refinements, is stated by a theorem;
* that a step the model allows can be taken (no deadlock), where the run looks for it.

## 6. Where the code and its own claims differ

Shown by a run that violates the quoted claim:

1. `try_release` — `spinlock.h:69-71` documents `SpinlockTryAcquire` followed by
   `SpinlockRelease`; TryAcquire sets no Holder, so Release fails its ASSERT
   (`spinlock.c:90`).
2. `nmi_counter` — the pending-event counter is cleared before the VM entry
   (`vmx_operations.c:284`). An NMI between the two is delivered but leaves the
   counter at 1, and the next single event fails
   `ASSERT(1 == _InterlockedIncrement(...))` (`vmguest.c:565`).
3. `heap_previous` — when the search for a gap starts near the end of the list,
   the turns at its head are skipped before a previous entry is known, and
   `ASSERT(NULL != pPreviousHeapEntry)` fails (`cl_heap.c:245`); five
   allocations and a free are enough.
4. `panic_log` — an ASSERT inside of LOG panics again in the LOGP of
   `MiniHVAssert` (`hv_assert.c:24`), before the INIT is sent.

Met while modelling, without a run of their own among the twelve:

* `NmiInjection_entry.cfg` violates `EntrySucceeds`: `EnteredVMX` is set before
  the launch (`vmx_operations.c:243`), so that an NMI in between injects into a
  guest that waits for a SIPI, and its entry fails (`vmexit.c:125`).
* `SmpBoot_nested.cfg` violates `StartsAtGuestVector`: under another hypervisor
  an AP starts at `__vector`, which only the LAPIC write handler sets, whose EPT
  hook is commented out (`init64.c:226`).
* The BSP waits for APs to launch only if the preemption timer is among its pin
  controls; it is not (`vmguest.h:146`), so that the BSP may enter VMX first,
  although `init64.c:250` says "we first wait for all the AP's to launch".
* The assumption that the boot processor is first in the MADT is not checked
  (`apic.c`); `SmpAssumption` names it.
* An NMI handler that gives `SerialLock` away lets another CPU overwrite
  `SerialBuffer` in the middle of a line. An exception (not an NMI) that is
  raised with `SerialLock` held resumes the guest with the lock held
  (`idt_handlers.c:343`).
* `ClHeapFreePoolWithTag` leaves `EntryToRestartSearch` pointing to a freed entry
  (`outcome = "undefined"` in Heap); a gap in front of the first entry is not
  reused before the list is empty.
* `Int15DetermineMemoryMapParameters` lets entries that are "to be ignored" count
  for the highest address; `GuestMapMemoryRange` gets an end address as a size
  (`init64.c:215`) and maps beyond the end of memory, which harms nothing;
  `NumberOfEntries` does not count the reserved entry; the reserved entry comes
  on the wrong side of a shortened one, so the list is no longer sorted; the
  heap is in use before the map is asked whether its memory is RAM.
* Between `UnmapMemory` of low memory and `MapMemory` of the screen
  (`init64.c:245-248`) an AP that prints on the screen faults, unless its TLB
  still has the page. `MappedPagesAreFound` allows this fault.
* `MzpeFindExport` and `IntGetActiveProcessesList` index with what they read from the guest
  and check no index against the page they have mapped: the headers by `e_lfanew`
  (`mzpe.c:44`), the tables by j, which counts functions and not names, and by the
  ordinal (`mzpe.c:104`, `115`), the buffer by `copiedSize` up to a size the caller gives
  (`intro.c:125`, `139`). Past the page is whatever happens to be mapped next to it, or a
  fault in the exit handler. `AccessPast` has both, and `MappedPagesAreFound` allows the fault.
* The test at `mzpe.c:97`, which would return with nothing unmapped, is never true: the loop
  before it runs once at least and sets both pointers.
* `UnmapMemory` takes a virtual address; callers that pass a physical one
  (`vmguest.c:341`, `390`, `439`, `488`, `543`, `intro.c:133`, `vmexit.c:663`, `mzpe.c`) unmap
  nothing, the identity map of physical addresses being gone by then. The pages of
  the guest stay mapped; `PatchInt15` unmaps two pages from pointers that are not
  those of a page.
* `IntFindKernelBase` compares `nrOfPages` with its limit and never increments it
  (`intro.c:26`), so that only the guest's memory ends the search.
* `BinarySearch` for less than the first element ends at index 0 with `middle - 1`,
  which wraps (`cl_algorithm.c:36`): the next turn reads far outside of the array.
  `SearchIsRight` allows exactly this.
* `HashTableIteratorNext` reads `Entries[MaxKeys]` after the last bucket, one past the
  end of the array; `ForEachElementExecute` returns the last status
  when not all must succeed.
* `CpusInVMXMode` is waited for (`init64.c:256`) but no AP increments it: with the
  preemption timer the BSP would wait forever.
* `mtrr.c:303` asserts an entry that does not exist when no variable
  register is valid.
* APs start in the wait-for-SIPI state whatever `WaitForSipiActivityState` of
  IA32_VMX_MISC says (`vmcs.c:330-352`), while the comment at `vmexit.c:141` speaks of
  processors without it.

The two configurations named first in this list are kept beside the others.

## 7. What is not modelled

Vendored code (ACPICA, distorm), build output and tools; formatting, dumps, display, PCI,
timers and the ACPI glue, which read or write device registers and keep no state that others
depend on; processor tables, and the VMCS fields other than the controls, which are data of
the processor; stack and reference counter, which nothing in MiniHV calls; the levels of
page tables and EPT above the last, whose creation is a loop over an index; the guest beyond
what it sends (INIT, SIPI, INT 15h, exits). Of the code that maps memory, `GuestServices`
has the boot and the exit handler; not in it are ACPI (`acpi_osl.c:254` maps tables and
never unmaps them, `acpi_interface.c:58` takes the guard page of each stack out before
another processor runs), the dumps of the VMCS and the LAPIC emulation. What an `AccessPast`
reads is not modelled, only whether its page is there; a layout stays as it is during an
exit, so that a guest that changes its tables meanwhile is covered only by what another
layout or an `OrElse` would have done. Memory is sequentially consistent in all models: the
code's shared words are accessed with LOCK-prefixed instructions, except the stores of
Holder, FunctionWhichTookLock and the final State, which x86 keeps in order. Most lines of
implementation in the repository are declarations of ACPICA and distorm (`src/acpi/inc`,
`src/distorm`), which MiniHV links and does not own; the share of MiniHV's and CommonLib's
own code that is modelled is accordingly much larger than that of the tree.

Assumptions on what is external: valid firmware entries do not overlap; INT 15h is called by
the boot processor, and not after the operating system has begun to run; the boot processor
is first in the MADT; the second SIPI of the BSP arrives before the AP has launched
(`SipiSleepSuffices`), which rests on 200 microseconds against several lines on a serial
port; callers of the heap free what they were given, once.

## 8. Plan

Done, in this order: locks (every other component rests on them), start-up,
event injection, panic, heap, memory map; then the recursive lock composed with the
inner one and proved, memory types, VMX controls, paging with its users, hash table and
searches.

Next, with the property each is for:

1. **VmExit** (`vmexit.c`): one action per exit reason over the few registers that
   matter; every exit advances RIP exactly once or injects one event; composed
   with the pending-event counter. Abstract: a processor that emulates. Exits
   that are known to do neither: a task switch, and the failures of E820 and XSETBV, which panic.
2. **EPT** (`ept.c`): the split of large pages with the types of Mtrr.
3. Compositions: MemoryMap with Heap (its first client), Paging with Heap (lock
   order), SmpBoot with Panic (a panic before all APs are up).

Theorems to come are those of the modules to come.

## 9. How to run

    tlc -workers 2 -config SpinLock.cfg SpinLock      # likewise the other modules
    tlc -workers 2 -config SmpBoot.cfg MCSmpBoot
    tlc -workers 2 -config GuestServices.cfg MCGuestServices
    tlc -workers 2 -config MCGuestSetup.cfg MCGuestSetup   # likewise MCCommonLib
    tlapm SpinLock_proofs.tla                          # likewise *_proofs.tla

`PROJECT.json` lists components, runs, mutants, the lines each definition
models, findings, hazards and theorems.
