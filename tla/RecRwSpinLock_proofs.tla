------------------------ MODULE RecRwSpinLock_proofs ------------------------
(***************************************************************************)
(* Proofs about the readers-writer lock and the recursive lock built on    *)
(* it, for every finite set of CPUs smaller than the range of a WORD.      *)
(*                                                                         *)
(* The first part is about RwSpinLock alone: IInv ties the two words to    *)
(* the places of the CPUs.  The second is about RecRwSpinLock: IInv is     *)
(* kept because the outer lock only ever runs the inner lock's own steps   *)
(* (StepPreserves) or leaves its words and places alone.  RecIInv then     *)
(* follows one CPU at a time: what another CPU does to the shared Holder   *)
(* and depth is ruled out by the exclusion IInv gives.                     *)
(***************************************************************************)
EXTENDS RecRwSpinLock, FiniteSetTheorems, TLAPS

-----------------------------------------------------------------------------
(* Part one: the readers-writer lock                                       *)

(* The counters are used through these facts only: WordSize stays opaque.  *)
LEMMA WordSizeIsNat == WordSize \in Nat /\ WordSize > 1
  BY DEF WordSize

LEMMA WordArithmetic ==
  ASSUME NEW w \in Nat, w < WordSize
  PROVE  /\ w + 1 < WordSize => Increment16(w) = w + 1
         /\ w > 0 => Decrement16(w) = w - 1
  BY DEF WordSize, Increment16, Decrement16

-----------------------------------------------------------------------------
(* Counting CPUs by label                                                  *)

LEMMA SubsetCount ==
  ASSUME NEW S, S \subseteq CPUs
  PROVE  /\ IsFiniteSet(S)
         /\ Cardinality(S) \in Nat
         /\ Cardinality(S) < WordSize
         /\ Cardinality(S) = 0 => S = {}
<1>1. /\ IsFiniteSet(S)
      /\ Cardinality(S) <= Cardinality(CPUs)
  BY RwAssumption, FS_Subset
<1>2. Cardinality(S) \in Nat /\ Cardinality(CPUs) \in Nat
  BY <1>1, RwAssumption, FS_CardinalityType
<1>3. ASSUME NEW m \in Nat, NEW n \in Nat, m <= n, n < WordSize
      PROVE  m < WordSize
  BY <1>3, WordSizeIsNat
<1>4. QED
  BY <1>1, <1>2, <1>3, RwAssumption, FS_EmptySet

LEMMA JoinCounts ==
  ASSUME NEW S, IsFiniteSet(S), NEW T, IsFiniteSet(T), NEW c,
         c \notin S, T = S \cup {c}
  PROVE  Cardinality(T) = Cardinality(S) + 1
  BY FS_AddElement

LEMMA LeaveCounts ==
  ASSUME NEW S, IsFiniteSet(S), NEW T, IsFiniteSet(T), NEW c,
         c \in S, T = S \ {c}
  PROVE  Cardinality(T) = Cardinality(S) - 1
  BY FS_RemoveElement

(* What a move of one CPU between two labels adds to a count.              *)
Moved(labels, from, to) ==
  CASE from \notin labels /\ to \in labels -> 1
    [] from \in labels /\ to \notin labels -> -1
    [] OTHER -> 0

LEMMA CountAfterMove ==
  ASSUME NEW labels, NEW c \in CPUs, NEW to,
         pc \in [CPUs -> Labels], Goto(c, to)
  PROVE  Cardinality(InPc(labels))'
           = Cardinality(InPc(labels)) + Moved(labels, pc[c], to)
<1>1. pc' = [pc EXCEPT ![c] = to]
  BY DEF Goto
<1>2. /\ IsFiniteSet(InPc(labels)) /\ IsFiniteSet(InPc(labels)')
      /\ Cardinality(InPc(labels)) \in Nat
  <2>1. InPc(labels) \subseteq CPUs /\ InPc(labels)' \subseteq CPUs
    BY DEF InPc
  <2>2. QED
    BY <2>1, SubsetCount
<1>3. CASE pc[c] \notin labels /\ to \in labels
  <2>1. c \notin InPc(labels) /\ InPc(labels)' = InPc(labels) \cup {c}
    BY <1>1, <1>3 DEF InPc
  <2>2. QED
    BY <1>2, <1>3, <2>1, JoinCounts DEF Moved
<1>4. CASE pc[c] \in labels /\ to \notin labels
  <2>1. c \in InPc(labels) /\ InPc(labels)' = InPc(labels) \ {c}
    BY <1>1, <1>4 DEF InPc
  <2>2. Moved(labels, pc[c], to) = -1
    BY <1>4 DEF Moved
  <2>3. Cardinality(InPc(labels))' = Cardinality(InPc(labels)) - 1
    BY <1>2, <2>1, LeaveCounts
  <2>4. QED
    BY <1>2, <2>2, <2>3
<1>5. CASE pc[c] \in labels <=> to \in labels
  <2>1. InPc(labels)' = InPc(labels)
    BY <1>1, <1>5 DEF InPc
  <2>2. Moved(labels, pc[c], to) = 0
    BY <1>5 DEF Moved
  <2>3. QED
    BY <1>2, <2>1, <2>2
<1>6. QED
  BY <1>3, <1>4, <1>5

(* The two counters, moved along with pc, stay within a WORD and stay      *)
(* equal to the counts they stand for.                                     *)
LEMMA CountersFollow ==
  ASSUME WaitingIsCount, ReadersIsCount, pc \in [CPUs -> Labels],
         NEW c \in CPUs, NEW to, Goto(c, to),
         NEW w, w = WaitingWriters + Moved(Announced, pc[c], to),
         NEW r, r = ActiveReaders + Moved(Counted, pc[c], to)
  PROVE  /\ w \in Nat /\ w < WordSize /\ r \in Nat /\ r < WordSize
         /\ WaitingWriters' = w => WaitingIsCount'
         /\ ActiveReaders' = r => ReadersIsCount'
<1>1. /\ w = Cardinality(InPc(Announced))'
      /\ r = Cardinality(InPc(Counted))'
  BY CountAfterMove DEF WaitingIsCount, ReadersIsCount
<1>2. InPc(Announced)' \subseteq CPUs /\ InPc(Counted)' \subseteq CPUs
  BY DEF InPc
<1>3. /\ Cardinality(InPc(Announced)') \in Nat
      /\ Cardinality(InPc(Announced)') < WordSize
      /\ Cardinality(InPc(Counted)') \in Nat
      /\ Cardinality(InPc(Counted)') < WordSize
  BY <1>2, SubsetCount
<1>4. QED
  BY <1>1, <1>3 DEF WaitingIsCount, ReadersIsCount

-----------------------------------------------------------------------------

LEMMA InitHolds == Init => IInv
<1> SUFFICES ASSUME Init PROVE IInv
  OBVIOUS
<1>1. \A labels : "idle" \notin labels => InPc(labels) = {}
  BY DEF Init, InPc
<1>2. WaitingIsCount /\ ReadersIsCount
  BY <1>1, FS_EmptySet DEF Init, WaitingIsCount, ReadersIsCount, Announced,
     Counted
<1>3. ActiveWriterIsOne
  BY <1>1 DEF Init, ActiveWriterIsOne, IsWriter, PosesAsWriter
<1>4. TypeOK /\ OneActiveWriter /\ NoAssertFails
  BY WordSizeIsNat DEF Init, TypeOK, Labels, OneActiveWriter, NoAssertFails,
     At, IsWriter, PosesAsWriter, Counted
<1>5. QED
  BY <1>2, <1>3, <1>4 DEF IInv

(* A step of one CPU preserves the invariant.                              *)
LEMMA StepPreserves ==
  ASSUME IInv, NEW c \in CPUs,
         (\E excl \in BOOLEAN : Acquire(c, excl)) \/ Step(c)
  PROVE  IInv'
<1> USE DEF At
<1>a. /\ WaitingIsCount /\ ReadersIsCount
      /\ pc \in [CPUs -> Labels]
      /\ Intr \in [CPUs -> {INTR_ON, INTR_OFF}]
      /\ IntrState \in [CPUs -> {INTR_ON, INTR_OFF}]
  BY DEF IInv, TypeOK
<1>b. ActiveWriterIsOne /\ OneActiveWriter /\ NoAssertFails
  BY DEF IInv
<1>w. /\ WaitingWriters \in Nat /\ WaitingWriters < WordSize
      /\ ActiveReaders \in Nat /\ ActiveReaders < WordSize
  BY WordSizeIsNat DEF IInv, TypeOK
<1> DEFINE Rest == ActiveWriterIsOne /\ OneActiveWriter /\ NoAssertFails
           Flags == /\ Intr \in [CPUs -> {INTR_ON, INTR_OFF}]
                    /\ IntrState \in [CPUs -> {INTR_ON, INTR_OFF}]
(* It is enough to follow the counters and to check the rest.              *)
<1>t. ASSUME NEW to \in Labels, Goto(c, to),
             WaitingWriters' = WaitingWriters + Moved(Announced, pc[c], to),
             ActiveReaders' = ActiveReaders + Moved(Counted, pc[c], to),
             Rest', Flags'
      PROVE  IInv'
  <2>1. /\ WaitingWriters' \in Nat /\ WaitingWriters' < WordSize
        /\ ActiveReaders' \in Nat /\ ActiveReaders' < WordSize
        /\ WaitingIsCount' /\ ReadersIsCount'
    BY <1>a, <1>t, CountersFollow
  <2>2. ActiveWriter' \in {0, 1}
    BY <1>t DEF ActiveWriterIsOne
  <2>3. TypeOK'
    BY <1>a, <1>t, <2>1, <2>2, WordSizeIsNat DEF TypeOK, Goto
  <2>4. QED
    BY <1>t, <2>1, <2>3 DEF IInv
<1>1. CASE \E excl \in BOOLEAN : Acquire(c, excl)
  <2>1. PICK to \in {"announce", "readerCas"} :
          /\ pc[c] = "idle" /\ Goto(c, to) /\ UNCHANGED words
          /\ Intr' = [Intr EXCEPT ![c] = INTR_OFF]
          /\ IntrState' = [IntrState EXCEPT ![c] = Intr[c]]
    BY <1>1 DEF Acquire
  <2>2. Moved(Announced, pc[c], to) = 0 /\ Moved(Counted, pc[c], to) = 0
    BY <2>1 DEF Moved, Announced, Counted
  <2>3. Rest'
    BY <1>a, <1>b, <2>1
       DEF Goto, words, ActiveWriterIsOne, OneActiveWriter, NoAssertFails,
           InPc, IsWriter, PosesAsWriter, Counted
  <2>4. Flags'
    BY <1>a, <2>1
  <2>5. QED
    BY <1>t, <1>w, <2>1, <2>2, <2>3, <2>4 DEF Labels, words
<1>2. CASE Announce(c)
  <2>1. Goto(c, "writerCas") /\ pc[c] = "announce"
    BY <1>2 DEF Announce
  <2>2. /\ Moved(Announced, pc[c], "writerCas") = 1
        /\ Moved(Counted, pc[c], "writerCas") = 0
    BY <2>1 DEF Moved, Announced, Counted
  <2>3. WaitingWriters + 1 < WordSize
    BY <1>a, <2>1, <2>2, CountersFollow
  <2>4. WaitingWriters' = WaitingWriters + 1
    BY <1>2, <1>w, <2>3, WordArithmetic DEF Announce
  <2>5. Rest'
    BY <1>2, <1>a, <1>b, <2>1
       DEF Goto, Announce, ActiveWriterIsOne, OneActiveWriter, NoAssertFails,
           InPc, IsWriter, PosesAsWriter, Counted
  <2>6. QED
    BY <1>t, <1>2, <1>a, <1>w, <2>1, <2>2, <2>4, <2>5 DEF Labels, Announce
<1>3. CASE WriterCas(c)
  <2>1. /\ Goto(c, "unannounce") /\ pc[c] = "writerCas"
        /\ ActiveWriter = 0 /\ ActiveReaders = 0
    BY <1>3 DEF WriterCas
  <2>2. /\ Moved(Announced, pc[c], "unannounce") = 0
        /\ Moved(Counted, pc[c], "unannounce") = 0
    BY <2>1 DEF Moved, Announced, Counted
  <2>3. InPc(Counted) = {} /\ InPc(IsWriter \cup PosesAsWriter) = {}
    <3>1. InPc(Counted) \subseteq CPUs
      BY DEF InPc
    <3>2. Cardinality(InPc(Counted)) = 0
      BY <1>a, <2>1 DEF ReadersIsCount
    <3>3. InPc(Counted) = {}
      BY <3>1, <3>2, SubsetCount
    <3>4. InPc(IsWriter \cup PosesAsWriter) = {}
      BY <1>b, <2>1 DEF ActiveWriterIsOne
    <3>5. QED
      BY <3>3, <3>4
  <2>4. Rest'
    BY <1>3, <1>a, <1>b, <2>1, <2>3
       DEF Goto, WriterCas, ActiveWriterIsOne, OneActiveWriter,
           NoAssertFails, InPc, IsWriter, PosesAsWriter, Counted
  <2>5. QED
    BY <1>t, <1>3, <1>a, <1>w, <2>1, <2>2, <2>4 DEF Labels, WriterCas
<1>4. CASE Unannounce(c)
  <2>1. Goto(c, "writing") /\ pc[c] = "unannounce"
    BY <1>4 DEF Unannounce
  <2>2. /\ Moved(Announced, pc[c], "writing") = -1
        /\ Moved(Counted, pc[c], "writing") = 0
    BY <2>1 DEF Moved, Announced, Counted
  <2>3. WaitingWriters + -1 \in Nat
    BY <1>a, <2>1, <2>2, CountersFollow
  <2>4. WaitingWriters' = WaitingWriters + -1
    BY <1>4, <1>w, <2>3, WordArithmetic DEF Unannounce
  <2>5. Rest'
    BY <1>4, <1>a, <1>b, <2>1
       DEF Goto, Unannounce, ActiveWriterIsOne, OneActiveWriter,
           NoAssertFails, InPc, IsWriter, PosesAsWriter, Counted
  <2>6. QED
    BY <1>t, <1>4, <1>a, <1>w, <2>1, <2>2, <2>4, <2>5 DEF Labels, Unannounce
<1>5. CASE ReaderCas(c)
  <2>1. Goto(c, "countReader") /\ pc[c] = "readerCas" /\ ActiveWriter = 0
    BY <1>5 DEF ReaderCas
  <2>2. /\ Moved(Announced, pc[c], "countReader") = 0
        /\ Moved(Counted, pc[c], "countReader") = 0
    BY <2>1 DEF Moved, Announced, Counted
  <2>3. InPc(IsWriter \cup PosesAsWriter) = {}
    BY <1>b, <2>1 DEF ActiveWriterIsOne
  <2>4. Rest'
    BY <1>5, <1>a, <1>b, <2>1, <2>3
       DEF Goto, ReaderCas, ActiveWriterIsOne, OneActiveWriter,
           NoAssertFails, InPc, IsWriter, PosesAsWriter, Counted
  <2>5. QED
    BY <1>t, <1>5, <1>a, <1>w, <2>1, <2>2, <2>4 DEF Labels, ReaderCas
<1>6. CASE CountReader(c)
  <2>1. Goto(c, "confess") /\ pc[c] = "countReader"
    BY <1>6 DEF CountReader
  <2>2. /\ Moved(Announced, pc[c], "confess") = 0
        /\ Moved(Counted, pc[c], "confess") = 1
    BY <2>1 DEF Moved, Announced, Counted
  <2>3. ActiveReaders + 1 < WordSize
    BY <1>a, <2>1, <2>2, CountersFollow
  <2>4. ActiveReaders' = ActiveReaders + 1
    BY <1>6, <1>w, <2>3, WordArithmetic DEF CountReader
  <2>5. Rest'
    BY <1>6, <1>a, <1>b, <2>1
       DEF Goto, CountReader, ActiveWriterIsOne, OneActiveWriter,
           NoAssertFails, InPc, IsWriter, PosesAsWriter, Counted
  <2>6. QED
    BY <1>t, <1>6, <1>a, <1>w, <2>1, <2>2, <2>4, <2>5 DEF Labels, CountReader
<1>7. CASE Confess(c) \/ \E old \in {INTR_ON, INTR_OFF} : ReleaseExclusive(c, old)
  <2>1. PICK to \in {"reading", "restore"} :
          /\ to = "reading" <=> pc[c] = "confess"
          /\ to = "restore" <=> pc[c] = "writing"
          /\ DropActiveWriter(c, to)
          /\ \/ UNCHANGED IntrState
             \/ \E old \in {INTR_ON, INTR_OFF} : Passes(c, old)
    BY <1>7 DEF Confess, ReleaseExclusive
  <2>2. ActiveWriter = 1
    BY <1>a, <1>b, <2>1 DEF ActiveWriterIsOne, InPc, IsWriter, PosesAsWriter
  <2>3. /\ ActiveWriter' = 0 /\ Goto(c, to)
        /\ UNCHANGED << WaitingWriters, ActiveReaders, Intr >>
    <3>1. Decrement16(1) = 0
      BY DEF Decrement16, WordSize
    <3>2. QED
      BY <2>1, <2>2, <3>1 DEF DropActiveWriter
  <2>4. /\ Moved(Announced, pc[c], to) = 0
        /\ Moved(Counted, pc[c], to) = 0
    BY <2>1 DEF Moved, Announced, Counted
  <2>5. Rest'
    BY <1>a, <1>b, <2>1, <2>3
       DEF Goto, ActiveWriterIsOne, OneActiveWriter,
           NoAssertFails, InPc, IsWriter, PosesAsWriter, Counted
  <2>6. Flags'
    BY <1>a, <2>1, <2>3 DEF Passes
  <2>7. QED
    BY <1>t, <1>w, <2>1, <2>3, <2>4, <2>5, <2>6 DEF Labels
<1>8. CASE \E old \in {INTR_ON, INTR_OFF} : ReleaseShared(c, old)
  <2>1. Goto(c, "restore") /\ pc[c] = "reading"
    BY <1>8 DEF ReleaseShared
  <2>2. /\ Moved(Announced, pc[c], "restore") = 0
        /\ Moved(Counted, pc[c], "restore") = -1
    BY <2>1 DEF Moved, Announced, Counted
  <2>3. ActiveReaders + -1 \in Nat
    BY <1>a, <2>1, <2>2, CountersFollow
  <2>4. ActiveReaders' = ActiveReaders + -1
    BY <1>8, <1>w, <2>3, WordArithmetic DEF ReleaseShared
  <2>5. Rest'
    BY <1>8, <1>a, <1>b, <2>1
       DEF Goto, ReleaseShared, ActiveWriterIsOne, OneActiveWriter,
           NoAssertFails, InPc, IsWriter, PosesAsWriter, Counted
  <2>6. Flags'
    BY <1>8, <1>a DEF ReleaseShared, Passes
  <2>7. QED
    BY <1>t, <1>8, <1>w, <2>1, <2>2, <2>4, <2>5, <2>6
       DEF Labels, ReleaseShared
<1>9. CASE RestoreIntr(c)
  <2>1. Goto(c, "idle") /\ pc[c] = "restore"
    BY <1>9 DEF RestoreIntr
  <2>2. /\ Moved(Announced, pc[c], "idle") = 0
        /\ Moved(Counted, pc[c], "idle") = 0
    BY <2>1 DEF Moved, Announced, Counted
  <2>3. Rest'
    BY <1>9, <1>a, <1>b, <2>1
       DEF Goto, RestoreIntr, words, ActiveWriterIsOne, OneActiveWriter,
           NoAssertFails, InPc, IsWriter, PosesAsWriter, Counted
  <2>4. Flags'
    BY <1>9, <1>a DEF RestoreIntr
  <2>5. QED
    BY <1>t, <1>9, <1>w, <2>1, <2>2, <2>3, <2>4 DEF Labels, RestoreIntr, words
<1>10. QED
  BY <1>1, <1>2, <1>3, <1>4, <1>5, <1>6, <1>7, <1>8, <1>9
     DEF Step, AcquireStep, ReleaseStep

(* IInv is an invariant: the words of the lock always count the CPUs that  *)
(* account for them, and no ASSERT of the lock fails.                      *)
THEOREM InvariantHolds == Spec => []IInv
<1>1. IInv /\ [Next]_vars => IInv'
  <2> SUFFICES ASSUME IInv, [Next]_vars PROVE IInv'
    OBVIOUS
  <2>1. CASE UNCHANGED vars
    BY <2>1 DEF vars, IInv, TypeOK, WaitingIsCount, ReadersIsCount,
       ActiveWriterIsOne, OneActiveWriter, NoAssertFails, InPc, At
  <2>2. CASE Next
    BY <2>2, StepPreserves DEF Next
  <2>3. QED
    BY <2>1, <2>2
<1>2. QED
  BY <1>1, InitHolds, PTL DEF Spec

(* A writer inside excludes every other writer and every reader.           *)
THEOREM WriterIsAloneHolds == Spec => []WriterIsAlone
<1>1. IInv => WriterIsAlone
  BY DEF IInv, OneActiveWriter, WriterIsAlone, At, IsWriter, PosesAsWriter,
     Counted
<1>2. QED
  BY <1>1, InvariantHolds, PTL

(* A CPU that leaves readerCas does so by the CAS, which wants no writer   *)
(* announced.                                                              *)
LEMMA ReaderIsAdmitted ==
  ASSUME IInv, NEW e \in CPUs,
         (\E excl \in BOOLEAN : Acquire(e, excl)) \/ Step(e),
         NEW c \in CPUs, NEW d \in CPUs,
         At(c, "readerCas"), ~(At(c, "readerCas"))'
  PROVE  pc[d] \notin Announced
<1>1. e = c
  BY DEF IInv, TypeOK, Acquire, Step, AcquireStep, ReleaseStep,
     Announce, WriterCas, Unannounce, ReaderCas, CountReader, Confess,
     DropActiveWriter, ReleaseExclusive, ReleaseShared, RestoreIntr,
     Goto, At
<1>2. ReaderCas(c)
  BY <1>1 DEF Acquire, Step, AcquireStep, ReleaseStep,
     Announce, WriterCas, Unannounce, ReaderCas, CountReader, Confess,
     ReleaseExclusive, ReleaseShared, RestoreIntr, At
<1>3. Cardinality(InPc(Announced)) = 0
  BY <1>2 DEF ReaderCas, IInv, WaitingIsCount
<1>4. InPc(Announced) = {}
  BY <1>3, SubsetCount DEF InPc
<1>5. QED
  BY <1>4 DEF InPc

(* No reader is admitted once a writer has announced itself.               *)
THEOREM WriterPriority == Spec => WritersHavePriority
<1>1. IInv /\ [Next]_vars =>
        [\A c, d \in CPUs :
           At(c, "readerCas") /\ ~(At(c, "readerCas"))'
             => pc[d] \notin Announced]_vars
  BY ReaderIsAdmitted DEF Next
<1>2. QED
  BY <1>1, InvariantHolds, PTL DEF Spec, WritersHavePriority

-----------------------------------------------------------------------------
(* The refinement of ReadersWriter                                         *)

ReaderLabels == PosesAsWriter \cup Counted

LEMMA WriterOf ==
  ASSUME OneActiveWriter, NEW c \in CPUs, pc[c] \in IsWriter
  PROVE  Writer = c
  BY DEF OneActiveWriter, Writer

LEMMA NextWriterOf ==
  ASSUME OneActiveWriter', NEW c \in CPUs, pc'[c] \in IsWriter
  PROVE  Writer' = c
  BY DEF OneActiveWriter, Writer

LEMMA NoWriter ==
  /\ (\A c \in CPUs : pc[c] \notin IsWriter) => Writer = NoCpu
  /\ (\A c \in CPUs : pc'[c] \notin IsWriter) => Writer' = NoCpu
  BY DEF Writer

(* What the words tell a CAS: with ActiveWriter = 0 nobody accounts for    *)
(* it, and with ActiveReaders = 0 as well nobody reads.                    *)
LEMMA FreeWords ==
  ASSUME IInv, ActiveWriter = 0
  PROVE  /\ \A d \in CPUs : pc[d] \notin IsWriter \cup PosesAsWriter
         /\ Writer = NoCpu
         /\ ActiveReaders = 0 => Readers = {}
<1>1. \A d \in CPUs : pc[d] \notin IsWriter \cup PosesAsWriter
  BY DEF IInv, ActiveWriterIsOne, InPc
<1>2. Writer = NoCpu
  BY <1>1, NoWriter
<1>3. ASSUME ActiveReaders = 0 PROVE Readers = {}
  <2>1. Cardinality(InPc(Counted)) = 0
    BY <1>3 DEF IInv, ReadersIsCount
  <2>2. InPc(Counted) = {}
    BY <2>1, SubsetCount DEF InPc
  <2>3. QED
    BY <1>1, <2>2 DEF Readers, InPc
<1>4. QED
  BY <1>1, <1>2, <1>3

(* The role a CPU plays in the abstract lock before and after a move, and  *)
(* what the words say when it takes one on.                                *)
MoveIsLegal(c, to) ==
  \/ /\ pc[c] \in IsWriter <=> to \in IsWriter
     /\ pc[c] \in ReaderLabels <=> to \in ReaderLabels
  \/ /\ pc[c] \notin IsWriter \cup ReaderLabels
     /\ to \in IsWriter \ ReaderLabels
     /\ ActiveWriter = 0 /\ ActiveReaders = 0
  \/ /\ pc[c] \notin IsWriter \cup ReaderLabels
     /\ to \in ReaderLabels \ IsWriter
     /\ ActiveWriter = 0
  \/ /\ pc[c] \in IsWriter \cup ReaderLabels
     /\ to \notin IsWriter \cup ReaderLabels

LEMMA MoveRefines ==
  ASSUME IInv, IInv', NEW c \in CPUs, NEW to, Goto(c, to), MoveIsLegal(c, to)
  PROVE  [Abstract!Next]_(Abstract!vars)
<1>1. /\ pc'[c] = to
      /\ \A d \in CPUs : d # c => pc'[d] = pc[d]
      /\ NoCpu \notin CPUs
  BY RwAssumption DEF IInv, TypeOK, Goto
<1>2. OneActiveWriter /\ OneActiveWriter'
  BY DEF IInv
<1>3. IsWriter \cap ReaderLabels = {}
  BY DEF IsWriter, ReaderLabels, PosesAsWriter, Counted
<1> USE DEF Abstract!Next, Abstract!vars, Abstract!TakeExclusive, Abstract!LeaveExclusive,
        Abstract!TakeShared, Abstract!LeaveShared
<1>4. /\ Readers = InPc(ReaderLabels)
      /\ Readers' = { d \in CPUs : pc'[d] \in ReaderLabels }
  BY DEF Readers, ReaderLabels, InPc
<1>5. CASE /\ pc[c] \in IsWriter <=> to \in IsWriter
           /\ pc[c] \in ReaderLabels <=> to \in ReaderLabels
  <2>1. Readers' = Readers
    BY <1>1, <1>4, <1>5 DEF InPc
  <2>2. \A d \in CPUs : pc'[d] \in IsWriter <=> pc[d] \in IsWriter
    BY <1>1, <1>5
  <2>3. Writer' = Writer
    <3>1. CASE \E d \in CPUs : pc[d] \in IsWriter
      BY <1>2, <2>2, <3>1, WriterOf, NextWriterOf
    <3>2. CASE ~ \E d \in CPUs : pc[d] \in IsWriter
      BY <2>2, <3>2, NoWriter
    <3>3. QED
      BY <3>1, <3>2
  <2>4. QED
    BY <2>1, <2>3
<1>6. CASE /\ pc[c] \notin IsWriter \cup ReaderLabels
           /\ to \in IsWriter \ ReaderLabels
           /\ ActiveWriter = 0 /\ ActiveReaders = 0
  <2>1. Writer = NoCpu /\ Readers = {}
    BY <1>6, FreeWords
  <2>2. Writer' = c
    BY <1>1, <1>2, <1>6, NextWriterOf
  <2>3. Readers' = Readers
    BY <1>1, <1>4, <1>6 DEF InPc
  <2>4. QED
    BY <2>1, <2>2, <2>3
<1>7. CASE /\ pc[c] \notin IsWriter \cup ReaderLabels
           /\ to \in ReaderLabels \ IsWriter
           /\ ActiveWriter = 0
  <2>1. Writer = NoCpu /\ \A d \in CPUs : pc[d] \notin IsWriter
    BY <1>7, FreeWords
  <2>2. Writer' = NoCpu
    BY <1>1, <1>7, <2>1, NoWriter
  <2>3. Readers' = Readers \cup {c}
    BY <1>1, <1>4, <1>7 DEF InPc
  <2>4. QED
    BY <2>1, <2>2, <2>3
<1>8. CASE /\ pc[c] \in IsWriter \cup ReaderLabels
           /\ to \notin IsWriter \cup ReaderLabels
  <2>1. CASE pc[c] \in IsWriter
    <3>1. Writer = c
      BY <1>2, <2>1, WriterOf
    <3>2. \A d \in CPUs : pc'[d] \notin IsWriter
      BY <1>1, <1>2, <1>8, <2>1 DEF OneActiveWriter
    <3>3. Writer' = NoCpu
      BY <3>2, NoWriter
    <3>4. Readers' = Readers
      BY <1>1, <1>3, <1>4, <1>8, <2>1 DEF InPc
    <3>5. QED
      BY <3>1, <3>3, <3>4
  <2>2. CASE pc[c] \in ReaderLabels
    <3>1. \A d \in CPUs : pc'[d] \in IsWriter <=> pc[d] \in IsWriter
      BY <1>1, <1>3, <1>8, <2>2
    <3>2. Writer' = Writer
      <4>1. CASE \E d \in CPUs : pc[d] \in IsWriter
        BY <1>2, <3>1, <4>1, WriterOf, NextWriterOf
      <4>2. CASE ~ \E d \in CPUs : pc[d] \in IsWriter
        BY <3>1, <4>2, NoWriter
      <4>3. QED
        BY <4>1, <4>2
    <3>3. c \in Readers /\ Readers' = Readers \ {c}
      BY <1>1, <1>4, <1>8, <2>2 DEF InPc
    <3>4. QED
      BY <3>2, <3>3
  <2>3. QED
    BY <1>8, <2>1, <2>2
<1>9. QED
  BY <1>5, <1>6, <1>7, <1>8 DEF MoveIsLegal

LEMMA StepIsLegal ==
  ASSUME IInv, NEW c \in CPUs,
         (\E excl \in BOOLEAN : Acquire(c, excl)) \/ Step(c)
  PROVE  \E to \in Labels : Goto(c, to) /\ MoveIsLegal(c, to)
<1> USE DEF At, MoveIsLegal, Labels, IsWriter, ReaderLabels, PosesAsWriter, Counted
<1>1. ASSUME NEW x \in BOOLEAN, Acquire(c, x)
      PROVE  \E to \in Labels : Goto(c, to) /\ MoveIsLegal(c, to)
  BY <1>1 DEF Acquire
<1>2. CASE Announce(c)
  BY <1>2 DEF Announce
<1>3. CASE WriterCas(c)
  BY <1>3 DEF WriterCas
<1>4. CASE Unannounce(c)
  BY <1>4 DEF Unannounce
<1>5. CASE ReaderCas(c)
  BY <1>5 DEF ReaderCas
<1>6. CASE CountReader(c)
  BY <1>6 DEF CountReader
<1>7. CASE Confess(c)
  BY <1>7 DEF Confess, DropActiveWriter
<1>8. ASSUME NEW s, ReleaseExclusive(c, s)
      PROVE  \E to \in Labels : Goto(c, to) /\ MoveIsLegal(c, to)
  BY <1>8 DEF ReleaseExclusive, DropActiveWriter
<1>9. ASSUME NEW s, ReleaseShared(c, s)
      PROVE  \E to \in Labels : Goto(c, to) /\ MoveIsLegal(c, to)
  BY <1>9 DEF ReleaseShared
<1>10. CASE RestoreIntr(c)
  BY <1>10 DEF RestoreIntr
<1>11. QED
  BY <1>1, <1>2, <1>3, <1>4, <1>5, <1>6, <1>7, <1>8, <1>9, <1>10
     DEF Step, AcquireStep, ReleaseStep

LEMMA StepRefines ==
  ASSUME IInv, NEW c \in CPUs,
         (\E excl \in BOOLEAN : Acquire(c, excl)) \/ Step(c)
  PROVE  [Abstract!Next]_(Abstract!vars)
<1>1. IInv'
  BY StepPreserves
<1>2. PICK to \in Labels : Goto(c, to) /\ MoveIsLegal(c, to)
  BY StepIsLegal
<1>3. QED
  BY <1>1, <1>2, MoveRefines

(* Nothing happens in the abstract lock while no CPU moves in this one.    *)
LEMMA NoMoveRefines ==
  ASSUME pc' = pc
  PROVE  UNCHANGED Abstract!vars
  BY DEF Abstract!vars, Writer, Readers, InPc

LEMMA InitRefines == Init => Abstract!Init
  BY DEF Init, Abstract!Init, Writer, Readers, InPc, IsWriter, PosesAsWriter, Counted

(* Three words and two overlapping compare-exchanges implement a lock that *)
(* a writer takes when it is free and readers share (rw_spinlock.c).       *)
THEOREM LockImplementsReadersWriter == Spec => ImplementsReadersWriter
<1>1. IInv /\ [Next]_vars => [Abstract!Next]_(Abstract!vars)
  <2> SUFFICES ASSUME IInv, [Next]_vars PROVE [Abstract!Next]_(Abstract!vars)
    OBVIOUS
  <2>1. CASE Next
    BY <2>1, StepRefines DEF Next
  <2>2. CASE UNCHANGED vars
    BY <2>2, NoMoveRefines DEF vars
  <2>3. QED
    BY <2>1, <2>2
<1>2. QED
  BY <1>1, InitRefines, InvariantHolds, PTL DEF Spec, ImplementsReadersWriter, Abstract!Spec

-----------------------------------------------------------------------------
(* Part two: the recursive lock                                            *)

(* Everything a CPU has of its own.                                        *)
Same(d) ==
  /\ pc'[d] = pc[d] /\ recpc'[d] = recpc[d] /\ outer'[d] = outer[d]
  /\ Exclusive'[d] = Exclusive[d] /\ callerIntr'[d] = callerIntr[d]
  /\ IntrState'[d] = IntrState[d] /\ Intr'[d] = Intr[d]

(* The part of RecIInv that is about one CPU only.                         *)
Own(c) ==
  /\ InnerFollows(c) /\ OuterFollows(c) /\ ~RecAt(c, "panic")
  /\ Intr[c] = IF RecAt(c, "idle") THEN callerIntr[c] ELSE INTR_OFF

LEMMA RecIInvIsOwn ==
  RecIInv <=> /\ RecTypeOK /\ HolderFollows /\ DepthFollows
              /\ \A c \in CPUs : Own(c)
BY DEF RecIInv, Own, IntrRestored

(* A step of c leaves what the other CPUs have of their own.               *)
LEMMA OthersSame ==
  ASSUME IInv, RecTypeOK, NEW c \in CPUs,
         (\E excl \in BOOLEAN : RecAcquire(c, excl)) \/ RecStep(c),
         NEW d \in CPUs, d # c
  PROVE  Same(d)
<1>1. /\ pc \in [CPUs -> Labels]
      /\ Intr \in [CPUs -> {INTR_ON, INTR_OFF}]
      /\ IntrState \in [CPUs -> {INTR_ON, INTR_OFF}]
  BY DEF IInv, TypeOK
<1>2. /\ outer \in [CPUs -> Seq({INTR_ON, INTR_OFF})]
      /\ Exclusive \in [CPUs -> BOOLEAN]
      /\ recpc \in [CPUs -> RecLabels]
  BY DEF RecTypeOK
<1>3. CASE \E excl \in BOOLEAN : RecAcquire(c, excl)
  BY <1>1, <1>2, <1>3 DEF RecAcquire, RecGoto, Same
<1>4. CASE Reenter(c) \/ RwAcquired(c) \/ SetHolder(c)
  BY <1>1, <1>2, <1>4 DEF Reenter, RwAcquired, SetHolder, RecGoto, vars, Same
<1>5. CASE CallRwAcquire(c)
  BY <1>1, <1>2, <1>5 DEF CallRwAcquire, Acquire, RecGoto, Goto, Same
<1>6. CASE InsideRwAcquire(c)
  BY <1>1, <1>2, <1>6
     DEF InsideRwAcquire, AcquireStep, Announce, WriterCas, Unannounce,
         ReaderCas, CountReader, Confess, DropActiveWriter, Goto, Same
<1>7. CASE RecReleaseExclusive(c) \/ RecReleaseShared(c) \/ ClearHolder(c)
  BY <1>1, <1>2, <1>7
     DEF RecReleaseExclusive, RecReleaseShared, ClearHolder, RecGoto, vars, Same
<1>8. CASE CallRwRelease(c)
  BY <1>1, <1>2, <1>8
     DEF CallRwRelease, ReleaseExclusive, ReleaseShared, DropActiveWriter,
         Passes, RecGoto, Goto, Same
<1>9. CASE InsideRwRelease(c)
  BY <1>1, <1>2, <1>9 DEF InsideRwRelease, RestoreIntr, RecGoto, Goto, Same
<1>10. QED
  BY <1>3, <1>4, <1>5, <1>6, <1>7, <1>8, <1>9 DEF RecStep

(* What another CPU has of its own stays true.                             *)
LEMMA OwnStays ==
  ASSUME NEW d \in CPUs, Own(d), Same(d)
  PROVE  Own(d)' /\ (IsHolder(d)' <=> IsHolder(d)) /\ (Deep(d)' <=> Deep(d))
         /\ (Nested(d)' <=> Nested(d))
BY DEF Own, Same, InnerFollows, OuterFollows, IsHolder, Deep, Nested, RecAt

(* A CPU that writes has nobody else inside.                               *)
LEMMA WriterExcludes ==
  ASSUME IInv, NEW c \in CPUs, NEW d \in CPUs,
         pc[c] = "writing", pc[d] \in {"writing", "reading"}
  PROVE  c = d
BY DEF IInv, OneActiveWriter, IsWriter, PosesAsWriter, Counted

-----------------------------------------------------------------------------

(* The inner lock's invariant: the outer lock takes its steps or leaves    *)
(* its words and places alone.                                             *)
LEMMA InnerKept ==
  ASSUME IInv, RecIInv, NEW c \in CPUs,
         (\E excl \in BOOLEAN : RecAcquire(c, excl)) \/ RecStep(c)
  PROVE  IInv'
<1>1. CASE \E excl \in BOOLEAN : RecAcquire(c, excl)
  <2>1. /\ UNCHANGED << words, IntrState, pc >>
        /\ Intr' = [Intr EXCEPT ![c] = INTR_OFF]
    BY <1>1 DEF RecAcquire, words
  <2>2. TypeOK'
    BY <2>1 DEF IInv, TypeOK, words
  <2>3. QED
    BY <2>1, <2>2
       DEF IInv, words, WaitingIsCount, ReadersIsCount, ActiveWriterIsOne,
           OneActiveWriter, NoAssertFails, InPc, At
<1>2. ASSUME UNCHANGED vars PROVE IInv'
  BY <1>2 DEF vars, IInv, TypeOK, WaitingIsCount, ReadersIsCount,
     ActiveWriterIsOne, OneActiveWriter, NoAssertFails, InPc, At
<1>3. CASE Reenter(c) \/ RwAcquired(c) \/ SetHolder(c)
  BY <1>2, <1>3 DEF Reenter, RwAcquired, SetHolder
<1>4. CASE RecReleaseExclusive(c) \/ RecReleaseShared(c) \/ ClearHolder(c)
  BY <1>2, <1>4 DEF RecReleaseExclusive, RecReleaseShared, ClearHolder
<1>5. CASE CallRwAcquire(c)
  <2>1. Acquire(c, Exclusive[c]) /\ Exclusive[c] \in BOOLEAN
    BY <1>5 DEF CallRwAcquire, RecIInv, RecTypeOK
  <2>2. QED
    BY <2>1, StepPreserves
<1>6. CASE InsideRwAcquire(c)
  BY <1>6, StepPreserves DEF InsideRwAcquire, Step
<1>7. CASE CallRwRelease(c)
  <2>1. outer[c][Len(outer[c])] \in {INTR_ON, INTR_OFF}
    <3>1. Len(outer[c]) = 1 /\ outer[c][1] = callerIntr[c]
      BY <1>7 DEF CallRwRelease, RecIInv, OuterFollows, RecAt, Nested
    <3>2. callerIntr[c] \in {INTR_ON, INTR_OFF}
      BY DEF RecIInv, RecTypeOK
    <3>3. QED
      BY <3>1, <3>2
  <2>2. ReleaseStep(c)
    BY <1>7, <2>1 DEF CallRwRelease, ReleaseStep
  <2>3. QED
    BY <2>2, StepPreserves DEF Step
<1>8. CASE InsideRwRelease(c)
  BY <1>8, StepPreserves DEF InsideRwRelease, Step, ReleaseStep
<1>9. QED
  BY <1>1, <1>3, <1>4, <1>5, <1>6, <1>7, <1>8 DEF RecStep

(* The outer lock's invariant, one action after the other.                 *)
LEMMA OuterKept ==
  ASSUME IInv, RecIInv, NEW c \in CPUs,
         (\E excl \in BOOLEAN : RecAcquire(c, excl)) \/ RecStep(c)
  PROVE  RecIInv'
<1>a. /\ pc \in [CPUs -> Labels]
      /\ Intr \in [CPUs -> {INTR_ON, INTR_OFF}]
      /\ IntrState \in [CPUs -> {INTR_ON, INTR_OFF}]
  BY DEF IInv, TypeOK
<1>b. /\ RecTypeOK /\ HolderFollows /\ DepthFollows
      /\ \A d \in CPUs : Own(d)
  BY RecIInvIsOwn
<1>c. \A d \in CPUs : d # c => Same(d)
  BY <1>b, OthersSame
<1>d. \A d \in CPUs \ {c} : /\ Own(d)' /\ (IsHolder(d)' <=> IsHolder(d))
                            /\ (Deep(d)' <=> Deep(d)) /\ (Nested(d)' <=> Nested(d))
  BY <1>b, <1>c, OwnStays
<1>e. /\ outer[c] \in Seq({INTR_ON, INTR_OFF}) /\ Len(outer[c]) \in 0..MaxRecursivityDepth
      /\ Exclusive[c] \in BOOLEAN /\ callerIntr[c] \in {INTR_ON, INTR_OFF}
      /\ Intr[c] \in {INTR_ON, INTR_OFF} /\ MaxRecursivityDepth \in 1..255
      /\ CurrentRecursivityDepth \in 0..MaxRecursivityDepth
  BY <1>a, <1>b, RecAssumption DEF RecTypeOK
(* It is enough to follow c, the Holder and the depth.                     *)
<1>t. ASSUME RecTypeOK', Own(c)',
             \/ Holder' = Holder /\ (IsHolder(c)' <=> IsHolder(c))
             \/ Holder' = c /\ IsHolder(c)' /\ Holder = NoCpu
             \/ Holder' = NoCpu /\ ~IsHolder(c)' /\ Holder \in {NoCpu, c},
             DepthFollows'
      PROVE  RecIInv'
  <2>1. NoCpu \notin CPUs
    BY RwAssumption
  <2>2. HolderFollows'
    <3> SUFFICES ASSUME NEW d \in CPUs PROVE Holder' = d <=> IsHolder(d)'
      BY DEF HolderFollows
    <3>1. CASE d = c
      BY <3>1, <2>1, <1>t, <1>b DEF HolderFollows
    <3>2. CASE d # c
      BY <3>2, <2>1, <1>t, <1>b, <1>d DEF HolderFollows
    <3>3. QED
      BY <3>1, <3>2
  <2>3. \A d \in CPUs : Own(d)'
    BY <1>d, <1>t
  <2>4. QED
    BY <1>t, <2>2, <2>3 DEF RecIInv, Own, IntrRestored
(* The depth, when a step of c leaves it alone and takes nobody in or out. *)
<1>u. ASSUME CurrentRecursivityDepth' = CurrentRecursivityDepth,
             ~Deep(c), ~Deep(c)'
      PROVE  DepthFollows'
  <2>1. \A d \in CPUs : Deep(d)' <=> Deep(d)
    BY <1>d, <1>u
  <2>2. \A d \in CPUs : Deep(d) => Same(d)
    BY <1>c, <1>u
  <2>3. \A d \in CPUs : (RecAt(d, "held") \/ Nested(d) \/ RecAt(d, "setHolder")) => Deep(d)
    BY DEF Deep, RecAt
  <2>4. (\A d \in CPUs : (RecAt(d, "held") \/ Nested(d) \/ RecAt(d, "setHolder")) => Deep(d))'
    BY DEF Deep, RecAt
  <2>5. QED
    BY <1>b, <1>u, <2>1, <2>2, <2>4 DEF DepthFollows, Same, RecAt, Nested
(* The depth, when c is inside as a writer: nobody else is deep.           *)
<1>v. ASSUME pc[c] = "writing",
             RecAt(c, "held")' => CurrentRecursivityDepth' = Len(outer'[c]),
             Nested(c)' => /\ Exclusive'[c]
                           /\ CurrentRecursivityDepth' = Len(outer'[c]) - 1,
             RecAt(c, "setHolder")' => CurrentRecursivityDepth' = 1,
             CurrentRecursivityDepth' = 0 <=> ~Deep(c)'
      PROVE  DepthFollows'
  <2>1. \A d \in CPUs : d # c => pc[d] # "writing"
    BY <1>v, WriterExcludes
  <2>2. \A d \in CPUs : Deep(d) => pc[d] = "writing"
    BY <1>b DEF Own, InnerFollows, Deep, Nested, RecAt
  <2>3. \A d \in CPUs \ {c} : ~Deep(d)'
    BY <1>d, <2>1, <2>2
  <2>4. \A d \in CPUs \ {c} : ~(RecAt(d, "held"))' /\ ~(Nested(d))' /\ ~(RecAt(d, "setHolder"))'
    BY <2>3 DEF Deep, RecAt
  <2>5. (CurrentRecursivityDepth = 0 <=> \A d \in CPUs : ~Deep(d))'
    BY <1>v, <2>3
  <2>6. QED
    BY <1>v, <2>4, <2>5 DEF DepthFollows
<1>1. ASSUME NEW excl \in BOOLEAN, RecAcquire(c, excl) PROVE RecIInv'
  <2>1. /\ Len(outer'[c]) = Len(outer[c]) + 1
        /\ outer' \in [CPUs -> Seq({INTR_ON, INTR_OFF})]
        /\ outer'[c][Len(outer[c]) + 1] = Intr[c]
        /\ Len(outer[c]) > 0 => outer'[c][1] = outer[c][1]
    BY <1>1, <1>b, <1>e DEF RecAcquire, RecTypeOK
  <2>2. Len(outer'[c]) \in 0..MaxRecursivityDepth
    BY <1>1, <1>b, <1>e, <2>1 DEF RecAcquire, Own, OuterFollows, RecAt
  <2>3. RecTypeOK'
    <3>1. \A d \in CPUs : Len(outer'[d]) \in 0..MaxRecursivityDepth
      BY <1>b, <1>c, <2>2 DEF RecTypeOK, Same
    <3>2. QED
      BY <1>1, <1>b, <2>1, <3>1 DEF RecAcquire, RecTypeOK, RecGoto, RecLabels, recWords
  <2>4. recpc'[c] = "enter" /\ Intr'[c] = INTR_OFF /\ Exclusive'[c] = excl
        /\ UNCHANGED << pc, callerIntr, Holder, CurrentRecursivityDepth >>
    BY <1>1, <1>a, <1>b DEF RecAcquire, RecTypeOK, RecGoto, recWords
  <2>5. CASE RecAt(c, "idle")
    <3>1. pc[c] = "idle" /\ Len(outer[c]) = 0 /\ Intr[c] = callerIntr[c]
      BY <1>b, <2>5 DEF Own, InnerFollows, OuterFollows, RecAt
    <3>2. Own(c)'
      BY <2>1, <2>4, <3>1 DEF Own, InnerFollows, OuterFollows, RecAt, Nested
    <3>3. ~IsHolder(c) /\ ~IsHolder(c)' /\ ~Deep(c) /\ ~Deep(c)'
      BY <2>4, <2>5, <3>1 DEF IsHolder, Deep, Nested, RecAt
    <3>4. QED
      BY <1>t, <1>u, <2>3, <2>4, <3>2, <3>3
  <2>6. CASE RecAt(c, "held") /\ excl
    <3>1. pc[c] = "writing" /\ Len(outer[c]) > 0 /\ outer[c][1] = callerIntr[c]
          /\ CurrentRecursivityDepth = Len(outer[c])
      BY <1>b, <2>6 DEF Own, InnerFollows, OuterFollows, DepthFollows, RecAt
    <3>2. Own(c)'
      BY <2>1, <2>4, <3>1, <1>e DEF Own, InnerFollows, OuterFollows, RecAt, Nested
    <3>3. IsHolder(c) /\ IsHolder(c)' /\ Deep(c)' /\ Nested(c)'
      BY <2>4, <2>6, <3>1 DEF IsHolder, Deep, Nested, RecAt
    <3>4. DepthFollows'
      BY <1>v, <1>e, <2>1, <2>4, <2>6, <3>1, <3>3 DEF RecAt
    <3>5. QED
      BY <1>t, <2>3, <2>4, <3>2, <3>3, <3>4
  <2>7. QED
    BY <1>1, <2>5, <2>6 DEF RecAcquire
<1>2. ASSUME Reenter(c) PROVE RecIInv'
  <2>1. /\ recpc[c] = "enter" /\ Exclusive[c] /\ Holder = c
        /\ UNCHANGED << vars, Holder, outer, Exclusive, callerIntr >>
    BY <1>2 DEF Reenter, Reenters, RecAt
  <2>2. IsHolder(c)
    BY <1>b, <2>1 DEF HolderFollows
  <2>3. pc[c] = "writing" /\ Nested(c)
    BY <2>1, <2>2 DEF IsHolder, Nested, RecAt
  <2>4. CurrentRecursivityDepth = Len(outer[c]) - 1 /\ Len(outer[c]) > 0
    BY <1>b, <2>1, <2>3 DEF DepthFollows, Own, OuterFollows, RecAt
  <2>5. CurrentRecursivityDepth' = CurrentRecursivityDepth + 1 /\ recpc'[c] = "held"
        /\ recpc' \in [CPUs -> RecLabels]
    <3>1. CurrentRecursivityDepth < MaxRecursivityDepth
      BY <1>e, <2>4
    <3>2. /\ CurrentRecursivityDepth' = CurrentRecursivityDepth + 1
          /\ recpc' = [recpc EXCEPT ![c] = "held"]
      BY <1>2, <3>1 DEF Reenter, RecGoto
    <3>3. QED
      BY <1>b, <3>2 DEF RecTypeOK, RecLabels
  <2>6. RecTypeOK'
    BY <1>b, <1>e, <2>1, <2>4, <2>5 DEF RecTypeOK
  <2>7. Own(c)'
    BY <1>b, <2>1, <2>3, <2>4, <2>5 DEF Own, InnerFollows, OuterFollows, RecAt, Nested, vars
  <2>8. DepthFollows'
    BY <1>v, <1>e, <2>1, <2>3, <2>4, <2>5 DEF Deep, Nested, RecAt
  <2>9. IsHolder(c)'
    BY <2>5 DEF IsHolder, RecAt
  <2>10. QED
    BY <1>t, <2>1, <2>2, <2>6, <2>7, <2>8, <2>9
<1>3. ASSUME CallRwAcquire(c) PROVE RecIInv'
  <2>1. /\ recpc[c] = "enter" /\ pc[c] = "idle"
        /\ pc'[c] = (IF Exclusive[c] THEN "announce" ELSE "readerCas")
        /\ recpc' = [recpc EXCEPT ![c] = "acquiring"]
        /\ Intr'[c] = INTR_OFF
        /\ UNCHANGED << CurrentRecursivityDepth, Holder, outer, Exclusive, callerIntr >>
    BY <1>3, <1>a DEF CallRwAcquire, Acquire, RecAt, At, Goto, RecGoto, recWords
  <2>2. RecTypeOK'
    BY <1>b, <2>1 DEF RecTypeOK, RecLabels
  <2>3. Own(c)'
    BY <1>b, <1>e, <2>1 DEF Own, InnerFollows, OuterFollows, RecAt, Nested, RecTypeOK
  <2>4. ~IsHolder(c) /\ ~IsHolder(c)' /\ ~Deep(c) /\ ~Deep(c)'
    BY <1>b, <2>1 DEF IsHolder, Deep, Nested, RecAt, RecTypeOK
  <2>5. QED
    BY <1>t, <1>u, <2>1, <2>2, <2>3, <2>4
<1>4. ASSUME InsideRwAcquire(c) PROVE RecIInv'
  <2>1. /\ recpc[c] = "acquiring"
        /\ UNCHANGED << CurrentRecursivityDepth, Holder, outer, Exclusive, callerIntr, recpc >>
    BY <1>4 DEF InsideRwAcquire, RecAt, recWords
  <2>2. RecTypeOK'
    BY <1>b, <2>1 DEF RecTypeOK
  <2>3. /\ Intr'[c] = Intr[c]
        /\ pc'[c] \in IF Exclusive[c] THEN {"announce", "writerCas", "unannounce", "writing"}
                     ELSE {"readerCas", "countReader", "confess", "reading"}
    <3>1. NoAssertFails'
      BY <1>4, InnerKept DEF RecStep, IInv
    <3>2. pc[c] \in IF Exclusive[c] THEN {"announce", "writerCas", "unannounce", "writing"}
                    ELSE {"readerCas", "countReader", "confess", "reading"}
      BY <1>b, <2>1 DEF Own, InnerFollows, RecAt
    <3>3. QED
      BY <1>4, <1>a, <1>e, <3>1, <3>2
         DEF InsideRwAcquire, AcquireStep, Announce, WriterCas, Unannounce, ReaderCas,
             CountReader, Confess, DropActiveWriter, Goto, At, NoAssertFails
  <2>4. Own(c)'
    BY <1>b, <2>1, <2>3 DEF Own, InnerFollows, OuterFollows, RecAt, Nested
  <2>5. ~IsHolder(c) /\ ~IsHolder(c)' /\ ~Deep(c) /\ ~Deep(c)'
    BY <2>1 DEF IsHolder, Deep, Nested, RecAt
  <2>6. QED
    BY <1>t, <1>u, <2>1, <2>2, <2>4, <2>5
<1>5. ASSUME RwAcquired(c) PROVE RecIInv'
  <2>1. /\ recpc[c] = "acquiring" /\ pc[c] = (IF Exclusive[c] THEN "writing" ELSE "reading")
        /\ UNCHANGED << vars, Holder, outer, Exclusive, callerIntr >>
    BY <1>5 DEF RwAcquired, RecAt
  <2>2. \A d \in CPUs : pc[d] = "writing" => d = c
    BY <1>e, <2>1, WriterExcludes
  <2>3. \A d \in CPUs : ~IsHolder(d) /\ ~Deep(d)
    BY <1>b, <2>1, <2>2 DEF Own, InnerFollows, IsHolder, Deep, Nested, RecAt
  <2>4. Holder = NoCpu /\ CurrentRecursivityDepth = 0
    BY <1>b, <2>3 DEF HolderFollows, DepthFollows, RecTypeOK
  <2>5. CASE Exclusive[c]
    <3>1. CurrentRecursivityDepth' = 1 /\ recpc' = [recpc EXCEPT ![c] = "setHolder"]
      BY <1>5, <2>4, <2>5 DEF RwAcquired, RecGoto
    <3>2. RecTypeOK' /\ recpc'[c] = "setHolder"
      BY <1>b, <1>e, <2>1, <3>1 DEF RecTypeOK, RecLabels
    <3>3. Own(c)'
      BY <1>b, <2>1, <2>5, <3>2 DEF Own, InnerFollows, OuterFollows, RecAt, Nested, vars
    <3>4. DepthFollows'
      BY <1>v, <2>1, <2>5, <3>1, <3>2 DEF Deep, Nested, RecAt
    <3>5. ~IsHolder(c)'
      BY <3>2 DEF IsHolder, Nested, RecAt
    <3>6. QED
      BY <1>t, <2>1, <2>3, <3>2, <3>3, <3>4, <3>5
  <2>6. CASE ~Exclusive[c]
    <3>1. UNCHANGED CurrentRecursivityDepth /\ recpc' = [recpc EXCEPT ![c] = "heldShared"]
      BY <1>5, <2>4, <2>6 DEF RwAcquired, RecGoto
    <3>2. RecTypeOK' /\ recpc'[c] = "heldShared"
      BY <1>b, <1>e, <2>1, <3>1 DEF RecTypeOK, RecLabels
    <3>3. Own(c)'
      BY <1>b, <2>1, <2>6, <3>2 DEF Own, InnerFollows, OuterFollows, RecAt, Nested, vars
    <3>4. ~IsHolder(c)' /\ ~Deep(c)'
      BY <3>2 DEF IsHolder, Deep, Nested, RecAt
    <3>5. QED
      BY <1>t, <1>u, <2>1, <2>3, <3>1, <3>2, <3>3, <3>4
  <2>7. QED
    BY <2>5, <2>6
<1>6. ASSUME SetHolder(c) PROVE RecIInv'
  <2>1. /\ recpc[c] = "setHolder" /\ Holder' = c /\ recpc' = [recpc EXCEPT ![c] = "held"]
        /\ UNCHANGED << vars, CurrentRecursivityDepth, outer, Exclusive, callerIntr >>
    BY <1>6 DEF SetHolder, RecAt, RecGoto
  <2>2. /\ pc[c] = "writing" /\ Exclusive[c] /\ Len(outer[c]) = 1
        /\ CurrentRecursivityDepth = 1
    BY <1>b, <2>1 DEF Own, InnerFollows, OuterFollows, DepthFollows, RecAt, Nested
  <2>3. Holder = NoCpu
    <3>1. \A d \in CPUs : IsHolder(d) => pc[d] = "writing"
      BY <1>b DEF Own, InnerFollows, IsHolder, Nested, RecAt
    <3>2. ~IsHolder(c)
      BY <2>1 DEF IsHolder, Nested, RecAt
    <3>3. \A d \in CPUs : ~IsHolder(d)
      BY <2>2, <3>1, <3>2, WriterExcludes
    <3>4. QED
      BY <1>b, <3>3 DEF HolderFollows, RecTypeOK
  <2>4. RecTypeOK' /\ recpc'[c] = "held"
    BY <1>b, <2>1 DEF RecTypeOK, RecLabels
  <2>5. Own(c)'
    BY <1>b, <2>1, <2>2, <2>4 DEF Own, InnerFollows, OuterFollows, RecAt, Nested, vars
  <2>6. IsHolder(c)' /\ Deep(c)' /\ ~Nested(c)'
    BY <2>4 DEF IsHolder, Deep, Nested, RecAt
  <2>7. DepthFollows'
    BY <1>v, <2>1, <2>2, <2>4, <2>6 DEF RecAt
  <2>8. QED
    BY <1>t, <2>1, <2>3, <2>4, <2>5, <2>6, <2>7
<1>7. ASSUME RecReleaseExclusive(c) PROVE RecIInv'
  <2>1. /\ recpc[c] = "held"
        /\ UNCHANGED << vars, Holder, Exclusive, callerIntr >>
    BY <1>7 DEF RecReleaseExclusive, RecAt
  <2>2. /\ pc[c] = "writing" /\ Exclusive[c] /\ Len(outer[c]) > 0
        /\ CurrentRecursivityDepth = Len(outer[c]) /\ outer[c][1] = callerIntr[c]
        /\ Intr[c] = INTR_OFF
    BY <1>b, <2>1 DEF Own, InnerFollows, OuterFollows, DepthFollows, RecAt
  <2>3. IsHolder(c) /\ Holder = c
    BY <1>b, <2>1 DEF HolderFollows, IsHolder, RecAt
  <2>4. CurrentRecursivityDepth' = CurrentRecursivityDepth - 1
    BY <1>7, <2>2, <2>3 DEF RecReleaseExclusive
  <2>5. CASE CurrentRecursivityDepth = 1
    <3>1. recpc' = [recpc EXCEPT ![c] = "clearHolder"] /\ UNCHANGED outer
      BY <1>7, <2>2, <2>3, <2>4, <2>5 DEF RecReleaseExclusive, RecGoto
    <3>2. RecTypeOK' /\ recpc'[c] = "clearHolder"
      BY <1>b, <1>e, <2>1, <2>4, <2>5, <3>1 DEF RecTypeOK, RecLabels
    <3>3. Own(c)'
      BY <1>b, <2>1, <2>2, <2>5, <3>1, <3>2 DEF Own, InnerFollows, OuterFollows, RecAt, Nested, vars
    <3>4. IsHolder(c)' /\ ~Deep(c)' /\ ~Nested(c)'
      BY <2>1, <2>2, <3>2 DEF IsHolder, Deep, Nested, RecAt
    <3>5. DepthFollows'
      BY <1>v, <2>2, <2>4, <2>5, <3>2, <3>4 DEF RecAt
    <3>6. QED
      BY <1>t, <2>1, <2>3, <3>2, <3>3, <3>4, <3>5
  <2>6. CASE CurrentRecursivityDepth # 1
    <3>1. outer' = [outer EXCEPT ![c] = SubSeq(@, 1, Len(@) - 1)] /\ UNCHANGED recpc
      BY <1>7, <1>e, <2>2, <2>3, <2>4, <2>6 DEF RecReleaseExclusive
    <3>2. /\ Len(outer[c]) > 1
          /\ outer'[c] = SubSeq(outer[c], 1, Len(outer[c]) - 1)
      BY <1>b, <1>e, <2>2, <2>6, <3>1 DEF RecTypeOK
    <3>3. /\ Len(outer'[c]) = Len(outer[c]) - 1
          /\ outer'[c][1] = outer[c][1]
          /\ outer'[c] \in Seq({INTR_ON, INTR_OFF})
      BY <1>e, <3>2
    <3>4. RecTypeOK'
      <4>1. outer' \in [CPUs -> Seq({INTR_ON, INTR_OFF})]
        BY <1>b, <3>1, <3>2, <3>3 DEF RecTypeOK
      <4>2. \A d \in CPUs : Len(outer'[d]) \in 0..MaxRecursivityDepth
        BY <1>b, <1>c, <1>e, <3>2, <3>3 DEF RecTypeOK, Same
      <4>3. QED
        BY <1>b, <1>e, <2>1, <2>2, <2>4, <3>1, <3>2, <4>1, <4>2 DEF RecTypeOK
    <3>5. Own(c)'
      BY <1>b, <1>e, <2>1, <2>2, <3>1, <3>2, <3>3 DEF Own, InnerFollows, OuterFollows, RecAt, Nested, vars
    <3>6. IsHolder(c)' /\ Deep(c)' /\ ~Nested(c)'
      BY <2>1, <3>1 DEF IsHolder, Deep, Nested, RecAt
    <3>7. DepthFollows'
      BY <1>v, <1>e, <2>1, <2>2, <2>4, <3>1, <3>2, <3>3, <3>6 DEF RecAt
    <3>8. QED
      BY <1>t, <2>1, <2>3, <3>4, <3>5, <3>6, <3>7
  <2>7. QED
    BY <2>5, <2>6
<1>8. ASSUME RecReleaseShared(c) PROVE RecIInv'
  <2>1. /\ recpc[c] = "heldShared"
        /\ UNCHANGED << vars, CurrentRecursivityDepth, Holder, outer, Exclusive, callerIntr >>
    BY <1>8 DEF RecReleaseShared, RecAt, recWords
  <2>2. /\ pc[c] = "reading" /\ ~Exclusive[c] /\ Len(outer[c]) = 1
        /\ outer[c][1] = callerIntr[c] /\ Intr[c] = INTR_OFF
    BY <1>b, <2>1 DEF Own, InnerFollows, OuterFollows, RecAt, Nested
  <2>3. recpc' = [recpc EXCEPT ![c] = "clearHolder"]
    BY <1>8, <2>2 DEF RecReleaseShared, RecGoto
  <2>4. RecTypeOK' /\ recpc'[c] = "clearHolder"
    BY <1>b, <2>1, <2>3 DEF RecTypeOK, RecLabels
  <2>5. Own(c)'
    BY <1>b, <2>1, <2>2, <2>4 DEF Own, InnerFollows, OuterFollows, RecAt, Nested, vars
  <2>6. ~IsHolder(c) /\ ~IsHolder(c)' /\ ~Deep(c) /\ ~Deep(c)'
    BY <2>1, <2>2, <2>4 DEF IsHolder, Deep, Nested, RecAt
  <2>7. QED
    BY <1>t, <1>u, <2>1, <2>4, <2>5, <2>6
<1>9. ASSUME ClearHolder(c) PROVE RecIInv'
  <2>1. /\ recpc[c] = "clearHolder" /\ Holder' = NoCpu
        /\ recpc' = [recpc EXCEPT ![c] = "callRelease"]
        /\ UNCHANGED << vars, CurrentRecursivityDepth, outer, Exclusive, callerIntr >>
    BY <1>9 DEF ClearHolder, RecAt, RecGoto
  <2>2. RecTypeOK' /\ recpc'[c] = "callRelease"
    BY <1>b, <2>1 DEF RecTypeOK, RecLabels
  <2>3. pc[c] = IF Exclusive[c] THEN "writing" ELSE "reading"
    BY <1>b, <2>1 DEF Own, InnerFollows, RecAt
  <2>4. Own(c)'
    BY <1>b, <1>e, <2>1, <2>2, <2>3 DEF Own, InnerFollows, OuterFollows, RecAt, Nested, vars
  <2>5. Holder \in {NoCpu, c}
    <3>1. \A d \in CPUs : IsHolder(d) => pc[d] = "writing"
      BY <1>b DEF Own, InnerFollows, IsHolder, Nested, RecAt
    <3>2. \A d \in CPUs : IsHolder(d) => d = c
      BY <1>e, <2>3, <3>1, WriterExcludes
    <3>3. QED
      BY <1>b, <3>2 DEF HolderFollows, RecTypeOK
  <2>6. ~IsHolder(c)' /\ ~Deep(c) /\ ~Deep(c)'
    BY <2>1, <2>2 DEF IsHolder, Deep, Nested, RecAt
  <2>7. QED
    BY <1>t, <1>u, <2>1, <2>2, <2>4, <2>5, <2>6
<1>10. ASSUME CallRwRelease(c) PROVE RecIInv'
  <2>1. /\ recpc[c] = "callRelease"
        /\ recpc' = [recpc EXCEPT ![c] = "releasing"]
        /\ outer' = [outer EXCEPT ![c] = << >>]
        /\ UNCHANGED << CurrentRecursivityDepth, Holder, Exclusive, callerIntr >>
    BY <1>10 DEF CallRwRelease, RecAt, RecGoto, recWords
  <2>2. /\ pc[c] = IF Exclusive[c] THEN "writing" ELSE "reading"
        /\ Len(outer[c]) = 1 /\ outer[c][1] = callerIntr[c] /\ Intr[c] = INTR_OFF
    BY <1>b, <2>1 DEF Own, InnerFollows, OuterFollows, RecAt, Nested
  <2>3. RecTypeOK' /\ recpc'[c] = "releasing" /\ Len(outer'[c]) = 0
    BY <1>b, <1>e, <2>1 DEF RecTypeOK, RecLabels
  <2>4. pc'[c] = "restore" /\ Intr'[c] = Intr[c] /\ IntrState'[c] = callerIntr[c]
    <3>1. NoAssertFails'
      BY <1>10, InnerKept DEF RecStep, IInv
    <3>2. QED
      BY <1>10, <1>a, <2>2, <3>1
         DEF CallRwRelease, ReleaseExclusive, ReleaseShared, DropActiveWriter, Passes, Goto, At,
             NoAssertFails
  <2>5. Own(c)'
    BY <2>1, <2>2, <2>3, <2>4 DEF Own, InnerFollows, OuterFollows, RecAt, Nested
  <2>6. ~IsHolder(c) /\ ~IsHolder(c)' /\ ~Deep(c) /\ ~Deep(c)'
    BY <2>1, <2>3 DEF IsHolder, Deep, Nested, RecAt
  <2>7. QED
    BY <1>t, <1>u, <2>1, <2>3, <2>5, <2>6
<1>11. ASSUME InsideRwRelease(c) PROVE RecIInv'
  <2>1. /\ recpc[c] = "releasing" /\ recpc' = [recpc EXCEPT ![c] = "idle"]
        /\ pc'[c] = "idle" /\ Intr'[c] = IntrState[c]
        /\ UNCHANGED << CurrentRecursivityDepth, Holder, outer, Exclusive, callerIntr >>
    BY <1>11, <1>a DEF InsideRwRelease, RestoreIntr, RecAt, RecGoto, Goto, recWords
  <2>2. RecTypeOK' /\ recpc'[c] = "idle"
    BY <1>b, <2>1 DEF RecTypeOK, RecLabels
  <2>3. Own(c)'
    BY <1>b, <2>1, <2>2 DEF Own, InnerFollows, OuterFollows, RecAt, Nested
  <2>4. ~IsHolder(c) /\ ~IsHolder(c)' /\ ~Deep(c) /\ ~Deep(c)'
    BY <2>1, <2>2 DEF IsHolder, Deep, Nested, RecAt
  <2>5. QED
    BY <1>t, <1>u, <2>1, <2>2, <2>3, <2>4
<1>12. QED
  BY <1>1, <1>2, <1>3, <1>4, <1>5, <1>6, <1>7, <1>8, <1>9, <1>10, <1>11 DEF RecStep

-----------------------------------------------------------------------------

LEMMA RecInvariants == RecSpec => [](IInv /\ RecIInv)
<1>1. RecInit => IInv /\ RecIInv
  <2> SUFFICES ASSUME RecInit PROVE IInv /\ RecIInv
    OBVIOUS
  <2>1. IInv
    BY InitHolds DEF RecInit
  <2>2. RecTypeOK
    BY <2>1, RecAssumption DEF RecInit, RecTypeOK, RecLabels, IInv, TypeOK
  <2>3. \A c \in CPUs : Own(c) /\ ~IsHolder(c) /\ ~Deep(c)
    BY DEF RecInit, Init, Own, InnerFollows, OuterFollows, RecAt, Nested, IsHolder, Deep
  <2>4. HolderFollows /\ DepthFollows
    BY <2>3, RwAssumption DEF RecInit, HolderFollows, DepthFollows, IsHolder, Deep, RecAt
  <2>5. QED
    BY <2>1, <2>2, <2>3, <2>4, RecIInvIsOwn
<1>2. IInv /\ RecIInv /\ [RecNext]_recVars => (IInv /\ RecIInv)'
  <2> SUFFICES ASSUME IInv, RecIInv, [RecNext]_recVars PROVE IInv' /\ RecIInv'
    OBVIOUS
  <2>1. CASE RecNext
    BY <2>1, InnerKept, OuterKept DEF RecNext
  <2>2. CASE UNCHANGED recVars
    <3>1. IInv'
      BY <2>2 DEF recVars, vars, IInv, TypeOK, WaitingIsCount, ReadersIsCount,
         ActiveWriterIsOne, OneActiveWriter, NoAssertFails, InPc, At
    <3>2. RecIInv'
      BY <2>2 DEF recVars, vars, recWords, RecIInv, RecTypeOK, InnerFollows, OuterFollows,
         HolderFollows, DepthFollows, IntrRestored, IsHolder, Deep, Nested, RecAt
    <3>3. QED
      BY <3>1, <3>2
  <2>3. QED
    BY <2>1, <2>2
<1>3. QED
  BY <1>1, <1>2, PTL DEF RecSpec

(* The inner lock stays correct in this use of it, interrupt states that   *)
(* the outer lock changes behind its back included.                        *)
THEOREM InnerInvariantHolds == RecSpec => []IInv
BY RecInvariants, PTL

(* RecIInv is an invariant: no ASSERT of the recursive lock fails, for any *)
(* number of CPUs and any depth.                                           *)
THEOREM RecInvariantHolds == RecSpec => []RecIInv
BY RecInvariants, PTL

(* The depth is what the holder has still to give back, and zero with      *)
(* nobody there.                                                           *)
THEOREM DepthHolds == RecSpec => []DepthIsOutstanding
<1>1. RecIInv => DepthIsOutstanding
  BY DEF RecIInv, RecTypeOK, HolderFollows, DepthFollows, DepthIsOutstanding, IsHolder, Deep,
     Nested, RecAt
<1>2. QED
  BY <1>1, RecInvariants, PTL

(* The interrupt state comes back with the outermost Release only.         *)
THEOREM IntrRestoredHolds == RecSpec => []IntrRestored
<1>1. RecIInv => IntrRestored
  BY DEF RecIInv
<1>2. QED
  BY <1>1, RecInvariants, PTL

-----------------------------------------------------------------------------
(* What the inner lock promises, in this use of it                         *)

(* The outer lock runs the inner one's steps or moves nobody in it.        *)
LEMMA InnerStepOrQuiet ==
  ASSUME RecIInv, NEW c \in CPUs,
         (\E excl \in BOOLEAN : RecAcquire(c, excl)) \/ RecStep(c)
  PROVE  \/ (\E x \in BOOLEAN : Acquire(c, x)) \/ Step(c)
         \/ pc' = pc
<1>1. CASE \/ \E excl \in BOOLEAN : RecAcquire(c, excl)
           \/ Reenter(c) \/ RwAcquired(c) \/ SetHolder(c)
           \/ RecReleaseExclusive(c) \/ RecReleaseShared(c) \/ ClearHolder(c)
  BY <1>1 DEF RecAcquire, Reenter, RwAcquired, SetHolder, RecReleaseExclusive,
     RecReleaseShared, ClearHolder, vars
<1>2. CASE CallRwAcquire(c)
  BY <1>2 DEF CallRwAcquire, RecIInv, RecTypeOK
<1>3. CASE InsideRwAcquire(c)
  BY <1>3 DEF InsideRwAcquire, Step
<1>4. CASE CallRwRelease(c)
  <2>1. Len(outer[c]) = 1 /\ outer[c][1] = callerIntr[c]
    BY <1>4 DEF CallRwRelease, RecIInv, OuterFollows, RecAt, Nested
  <2>2. outer[c][Len(outer[c])] \in {INTR_ON, INTR_OFF}
    BY <2>1 DEF RecIInv, RecTypeOK
  <2>3. QED
    BY <1>4, <2>2 DEF CallRwRelease, ReleaseStep, Step
<1>5. CASE InsideRwRelease(c)
  BY <1>5 DEF InsideRwRelease, Step, ReleaseStep
<1>6. QED
  BY <1>1, <1>2, <1>3, <1>4, <1>5 DEF RecStep

(* A recursive lock is still a readers-writer lock: nested acquisitions    *)
(* are invisible from outside, the outermost ones take and leave it.       *)
THEOREM RecImplementsReadersWriter == RecSpec => ImplementsReadersWriter
<1>1. RecInit => Abstract!Init
  BY InitRefines DEF RecInit
<1>2. IInv /\ RecIInv /\ [RecNext]_recVars => [Abstract!Next]_(Abstract!vars)
  <2> SUFFICES ASSUME IInv, RecIInv, [RecNext]_recVars
               PROVE  [Abstract!Next]_(Abstract!vars)
    OBVIOUS
  <2>1. ASSUME NEW c \in CPUs, (\E excl \in BOOLEAN : RecAcquire(c, excl)) \/ RecStep(c)
        PROVE  [Abstract!Next]_(Abstract!vars)
    BY <2>1, InnerStepOrQuiet, StepRefines, NoMoveRefines
  <2>2. CASE UNCHANGED recVars
    BY <2>2, NoMoveRefines DEF recVars, vars
  <2>3. QED
    BY <2>1, <2>2 DEF RecNext
<1>3. QED
  BY <1>1, <1>2, RecInvariants, PTL DEF RecSpec, ImplementsReadersWriter, Abstract!Spec

(* Writers come first among the callers of the recursive lock, too.        *)
THEOREM RecWriterPriority == RecSpec => WritersHavePriority
<1>1. IInv /\ RecIInv /\ [RecNext]_recVars =>
        [\A c, d \in CPUs :
           At(c, "readerCas") /\ ~(At(c, "readerCas"))'
             => pc[d] \notin Announced]_vars
  <2> SUFFICES ASSUME IInv, RecIInv, [RecNext]_recVars,
                      NEW c \in CPUs, NEW d \in CPUs,
                      At(c, "readerCas"), ~(At(c, "readerCas"))'
               PROVE  pc[d] \notin Announced
    OBVIOUS
  <2>1. pc' # pc
    BY DEF At
  <2>2. PICK e \in CPUs : (\E excl \in BOOLEAN : RecAcquire(e, excl)) \/ RecStep(e)
    BY <2>1 DEF RecNext, recVars, vars
  <2>3. (\E x \in BOOLEAN : Acquire(e, x)) \/ Step(e)
    BY <2>1, <2>2, InnerStepOrQuiet
  <2>4. QED
    BY <2>3, ReaderIsAdmitted
<1>2. QED
  BY <1>1, RecInvariants, PTL DEF RecSpec, WritersHavePriority

=============================================================================
