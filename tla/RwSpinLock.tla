----------------------------- MODULE RwSpinLock -----------------------------
(***************************************************************************)
(* RW_SPINLOCK (CommonLib/src/rw_spinlock.c): three adjacent WORDs and two *)
(* overlapping DWORD compare-exchanges.  A writer announces itself in      *)
(* WaitingWriters and swaps (ActiveWriter, ActiveReaders) from 0; a reader *)
(* swaps (WaitingWriters, ActiveWriter) from 0, posing as the writer until *)
(* it has counted itself in ActiveReaders.                                 *)
(*                                                                         *)
(* Every interlocked access is an action of its own.                       *)
(***************************************************************************)
EXTENDS Integers, FiniteSets

CONSTANTS
  CPUs,   (* the CPUs that share the lock                                  *)
  NoCpu   (* nobody, in the abstract lock                                  *)

WordSize == 65536   (* the counters are WORDs                              *)

ASSUME RwAssumption ==
  /\ NoCpu \notin CPUs
  /\ IsFiniteSet(CPUs)
  /\ Cardinality(CPUs) < WordSize

VARIABLES
  WaitingWriters, ActiveWriter, ActiveReaders,  (* the three WORDs         *)
  Intr,       (* Intr[c]: the interrupt state of CPU c                     *)
  IntrState,  (* IntrState[c]: the state Acquire returned to c, then the   *)
              (* one c passes to Release                                   *)
  pc

words == << WaitingWriters, ActiveWriter, ActiveReaders >>
vars == << WaitingWriters, ActiveWriter, ActiveReaders, Intr, IntrState, pc >>

INTR_ON  == "on"
INTR_OFF == "off"

Increment16(w) == (w + 1) % WordSize
Decrement16(w) == (w - 1) % WordSize

Labels ==
  { "idle", "restore", "panic",
    "announce", "writerCas", "unannounce", "writing",
    "readerCas", "countReader", "confess", "reading" }

(* Where a CPU has announced itself in WaitingWriters, where it accounts   *)
(* for ActiveWriter = 1, and where it is counted in ActiveReaders.         *)
Announced  == { "writerCas", "unannounce" }
IsWriter   == { "unannounce", "writing" }
PosesAsWriter == { "countReader", "confess" }
Counted    == { "confess", "reading" }

At(c, label) == pc[c] = label
Goto(c, label) == pc' = [pc EXCEPT ![c] = label]
InPc(labels) == { c \in CPUs : pc[c] \in labels }

Init ==
  /\ WaitingWriters = 0
  /\ ActiveWriter = 0
  /\ ActiveReaders = 0
  /\ Intr \in [CPUs -> {INTR_ON, INTR_OFF}]
  /\ IntrState = [c \in CPUs |-> INTR_OFF]
  /\ pc = [c \in CPUs |-> "idle"]

-----------------------------------------------------------------------------
(* RwSpinlockAcquire                                                       *)

(* Interrupts off, then the branch on Exclusive.                           *)
Acquire(c, Exclusive) ==
  /\ At(c, "idle")
  /\ IntrState' = [IntrState EXCEPT ![c] = Intr[c]]
  /\ Intr' = [Intr EXCEPT ![c] = INTR_OFF]
  /\ Goto(c, IF Exclusive THEN "announce" ELSE "readerCas")
  /\ UNCHANGED words

Announce(c) ==
  /\ At(c, "announce")
  /\ WaitingWriters' = Increment16(WaitingWriters)
  /\ Goto(c, "writerCas")
  /\ UNCHANGED << ActiveWriter, ActiveReaders, Intr, IntrState >>

(* Mutant: the exchange covers ActiveWriter alone.                         *)
WriterCasAmongReaders(c) ==
  /\ At(c, "writerCas")
  /\ ActiveWriter = 0
  /\ ActiveWriter' = 1
  /\ Goto(c, "unannounce")
  /\ UNCHANGED << WaitingWriters, ActiveReaders, Intr, IntrState >>

(* The CAS on (ActiveWriter, ActiveReaders); a failed one only pauses.     *)
WriterCas(c) ==
  /\ At(c, "writerCas")
  /\ ActiveWriter = 0 /\ ActiveReaders = 0
  /\ ActiveWriter' = 1
  /\ Goto(c, "unannounce")
  /\ UNCHANGED << WaitingWriters, ActiveReaders, Intr, IntrState >>

Unannounce(c) ==
  /\ At(c, "unannounce")
  /\ WaitingWriters' = Decrement16(WaitingWriters)
  /\ Goto(c, "writing")
  /\ UNCHANGED << ActiveWriter, ActiveReaders, Intr, IntrState >>

(* Mutant: the exchange leaves WaitingWriters out.                         *)
ReaderCasPastWriters(c) ==
  /\ At(c, "readerCas")
  /\ ActiveWriter = 0
  /\ ActiveWriter' = 1
  /\ Goto(c, "countReader")
  /\ UNCHANGED << WaitingWriters, ActiveReaders, Intr, IntrState >>

(* The CAS on (WaitingWriters, ActiveWriter).                              *)
ReaderCas(c) ==
  /\ At(c, "readerCas")
  /\ WaitingWriters = 0 /\ ActiveWriter = 0
  /\ ActiveWriter' = 1
  /\ Goto(c, "countReader")
  /\ UNCHANGED << WaitingWriters, ActiveReaders, Intr, IntrState >>

CountReader(c) ==
  /\ At(c, "countReader")
  /\ ActiveReaders' = Increment16(ActiveReaders)
  /\ Goto(c, "confess")
  /\ UNCHANGED << WaitingWriters, ActiveWriter, Intr, IntrState >>

(* ASSERT(1 == ActiveWriter), then the decrement.                          *)
DropActiveWriter(c, to) ==
  /\ IF ActiveWriter = 1
     THEN /\ ActiveWriter' = Decrement16(ActiveWriter)
          /\ Goto(c, to)
     ELSE /\ Goto(c, "panic")
          /\ UNCHANGED ActiveWriter
  /\ UNCHANGED << WaitingWriters, ActiveReaders, Intr >>

Confess(c) ==
  /\ At(c, "confess")
  /\ DropActiveWriter(c, "reading")
  /\ UNCHANGED IntrState

-----------------------------------------------------------------------------
(* RwSpinlockRelease(Spinlock, OldIntrState, Exclusive)                    *)

Passes(c, OldIntrState) == IntrState' = [IntrState EXCEPT ![c] = OldIntrState]

ReleaseExclusive(c, OldIntrState) ==
  /\ At(c, "writing")
  /\ DropActiveWriter(c, "restore")
  /\ Passes(c, OldIntrState)

ReleaseShared(c, OldIntrState) ==
  /\ At(c, "reading")
  /\ ActiveReaders' = Decrement16(ActiveReaders)
  /\ Passes(c, OldIntrState)
  /\ Goto(c, "restore")
  /\ UNCHANGED << WaitingWriters, ActiveWriter, Intr >>

(* CpuIntrSetState(IntrState)                                              *)
RestoreIntr(c) ==
  /\ At(c, "restore")
  /\ Intr' = [Intr EXCEPT ![c] = IntrState[c]]
  /\ Goto(c, "idle")
  /\ UNCHANGED << words, IntrState >>

-----------------------------------------------------------------------------

(* What a CPU does inside RwSpinlockAcquire and RwSpinlockRelease.         *)
AcquireStep(c) ==
  \/ Announce(c) \/ WriterCas(c) \/ Unannounce(c)
  \/ ReaderCas(c) \/ CountReader(c) \/ Confess(c)

(* A caller passes the state it saved, which need not be the one this      *)
(* acquisition returned (RecRwSpinlockAcquire keeps its own).              *)
ReleaseStep(c) ==
  \/ \E OldIntrState \in {INTR_ON, INTR_OFF} :
       ReleaseExclusive(c, OldIntrState) \/ ReleaseShared(c, OldIntrState)
  \/ RestoreIntr(c)

Step(c) == AcquireStep(c) \/ ReleaseStep(c)

Next == \E c \in CPUs : (\E Exclusive \in BOOLEAN : Acquire(c, Exclusive)) \/ Step(c)

Spec == Init /\ [][Next]_vars

(* Each CPU executes its next instruction eventually and leaves its        *)
(* critical section; it need not ask for the lock.                         *)
FairSpec == Spec /\ \A c \in CPUs : WF_vars(Step(c))

-----------------------------------------------------------------------------

TypeOK ==
  /\ WaitingWriters \in 0..WordSize - 1
  /\ ActiveWriter \in 0..WordSize - 1
  /\ ActiveReaders \in 0..WordSize - 1
  /\ Intr \in [CPUs -> {INTR_ON, INTR_OFF}]
  /\ IntrState \in [CPUs -> {INTR_ON, INTR_OFF}]
  /\ pc \in [CPUs -> Labels]

(* A writer is alone: neither a second writer nor any reader is inside,    *)
(* although the two CASes look at different pairs of words                 *)
(* (rw_spinlock.c:36, 55).                                                 *)
WriterIsAlone ==
  \A c, d \in CPUs :
    /\ At(c, "writing")
    /\ pc[d] \in {"writing", "reading"}
    => c = d

(* The ASSERTs on ActiveWriter hold: between a reader's CAS and its        *)
(* decrement nobody else touches the word (rw_spinlock.c:63, 85).          *)
NoAssertFails == \A c \in CPUs : ~At(c, "panic")

(* "so writers will have priority" (rw_spinlock.c:54): no reader is        *)
(* admitted from the moment a writer has announced itself.                 *)
WritersHavePriority ==
  [][\A c, d \in CPUs :
       At(c, "readerCas") /\ ~(At(c, "readerCas"))' => pc[d] \notin Announced]_vars

(* A waiting writer is never held out for good by readers that keep        *)
(* coming: some writer gets in.                                            *)
SomeWriterGetsIn ==
  (\E c \in CPUs : At(c, "writerCas")) ~> (\E c \in CPUs : At(c, "writing"))

(* The lock's abstraction: from its CAS to its decrement.                  *)
Writer ==
  IF \E c \in CPUs : pc[c] \in IsWriter
  THEN CHOOSE c \in CPUs : pc[c] \in IsWriter
  ELSE NoCpu

Readers == InPc(PosesAsWriter \cup Counted)

Abstract == INSTANCE ReadersWriter WITH writer <- Writer, readers <- Readers

(* The three words implement the readers-writer lock.                      *)
ImplementsReadersWriter == Abstract!Spec

(* The words count the CPUs at the labels that account for them.           *)
WaitingIsCount   == WaitingWriters = Cardinality(InPc(Announced))
ReadersIsCount   == ActiveReaders = Cardinality(InPc(Counted))
ActiveWriterIsOne ==
  /\ ActiveWriter \in {0, 1}
  /\ ActiveWriter = 1 <=> InPc(IsWriter \cup PosesAsWriter) # {}
(* One CPU at a time accounts for ActiveWriter, and a true writer has no   *)
(* counted reader beside it.                                               *)
OneActiveWriter ==
  \A c, d \in CPUs :
    /\ pc[c] \in IsWriter \cup PosesAsWriter
    /\ \/ pc[d] \in IsWriter \cup PosesAsWriter
       \/ pc[c] \in IsWriter /\ pc[d] \in Counted
    => c = d

(* The inductive invariant of RecRwSpinLock_proofs, part one.              *)
IInv ==
  /\ TypeOK
  /\ WaitingIsCount /\ ReadersIsCount /\ ActiveWriterIsOne
  /\ OneActiveWriter
  /\ NoAssertFails

=============================================================================
