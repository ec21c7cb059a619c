---------------------------- MODULE Panic_proofs ----------------------------
(***************************************************************************)
(* Proofs about Panic, for every set of CPUs, with and without ASSERTs     *)
(* that fail inside LOG.                                                   *)
(***************************************************************************)
EXTENDS Panic, TLAPS

(* Where a CPU is on its way to a VM entry, past its check at the VM exit. *)
Resumable == { "root", "log", "logging", "resume", "enter" }

(* The first to panic has set the flag before it gets to send the INIT.    *)
FlagBeforeIpi ==
  /\ initSent => HALTED
  /\ \A c \in CPUs : pc[c] \in {"logIpi", "loggingIpi", "sendIpi"} => HALTED

(* Whoever is on its way to a VM entry has the INIT blocked until then.    *)
InitAwaitsEntry ==
  initSent => \A c \in CPUs : pc[c] \in Resumable => initPending[c] = TRUE

PanicInv == TypeOK /\ FlagBeforeIpi /\ InitAwaitsEntry /\ NoGuestAfterIpi

USE DEF At, Goto, machineVars

LEMMA HostStepKeepsInv ==
  ASSUME PanicInv, NEW c \in CPUs, HostStep(c)
  PROVE  PanicInv'
<1> USE PanicAssumption
    DEF PanicInv, TypeOK, FlagBeforeIpi, InitAwaitsEntry, NoGuestAfterIpi,
        Labels, Panicking, Resumable, RunsGuest
<1>1. CASE ChecksOnExit(c)
  BY <1>1 DEF ChecksOnExit, Checks
<1>2. CASE VmExitHandler(c)
  BY <1>2 DEF VmExitHandler
<1>3. CASE ChecksOnResume(c)
  BY <1>3 DEF ChecksOnResume, Checks
<1>4. CASE VmEntry(c)
  BY <1>4 DEF VmEntry
<1>5. CASE LogTakes(c)
  BY <1>5 DEF LogTakes, TakesSerialLock
<1>6. CASE LogEnds(c)
  BY <1>6 DEF LogEnds
<1>7. QED
  BY <1>1, <1>2, <1>3, <1>4, <1>5, <1>6 DEF HostStep

LEMMA PanicStepKeepsInv ==
  ASSUME PanicInv, NEW c \in CPUs, PanicStep(c)
  PROVE  PanicInv'
<1> USE PanicAssumption
    DEF PanicInv, TypeOK, FlagBeforeIpi, InitAwaitsEntry, NoGuestAfterIpi,
        Labels, Panicking, Resumable, RunsGuest
<1>1. CASE AssertInfo(c)
  BY <1>1 DEF AssertInfo
<1>2. CASE SetHalted(c)
  BY <1>2 DEF SetHalted
<1>3. CASE LogIpiTakes(c)
  BY <1>3 DEF LogIpiTakes, TakesSerialLock
<1>4. CASE LogIpiEnds(c)
  BY <1>4 DEF LogIpiEnds, ReleasesSerialLock
<1>5. CASE ApicSendIpi(c)
  BY <1>5 DEF ApicSendIpi
<1>6. CASE AcquiresIfNeeded(c)
  BY <1>6 DEF AcquiresIfNeeded
<1>7. CASE WritesMessage(c)
  BY <1>7 DEF WritesMessage, ReleasesSerialLock
<1>8. CASE AssertFreeLock(c)
  BY <1>8 DEF AssertFreeLock
<1>9. QED
  BY <1>1, <1>2, <1>3, <1>4, <1>5, <1>6, <1>7, <1>8 DEF PanicStep

LEMMA ExternalStepKeepsInv ==
  ASSUME PanicInv, NEW c \in CPUs, GuestExits(c) \/ SipiArrives(c) \/ NmiWakes(c)
  PROVE  PanicInv'
<1>1. GuestExits(c) => PanicInv'
  BY PanicAssumption
     DEF PanicInv, TypeOK, FlagBeforeIpi, InitAwaitsEntry, NoGuestAfterIpi,
         Labels, Panicking, Resumable, RunsGuest, GuestExits
<1>2. SipiArrives(c) => PanicInv'
  BY PanicAssumption
     DEF PanicInv, TypeOK, FlagBeforeIpi, InitAwaitsEntry, NoGuestAfterIpi,
         Labels, Panicking, Resumable, RunsGuest, SipiArrives
<1>3. NmiWakes(c) => PanicInv'
  BY PanicAssumption
     DEF PanicInv, TypeOK, FlagBeforeIpi, InitAwaitsEntry, NoGuestAfterIpi,
         Labels, Panicking, Resumable, RunsGuest, NmiWakes
<1>4. QED
  BY <1>1, <1>2, <1>3

LEMMA PanicInvariant == Spec => []PanicInv
<1>1. Init => PanicInv
  <2> SUFFICES ASSUME Init PROVE PanicInv
    OBVIOUS
  <2>1. TypeOK
    <3>1. initPending \in [CPUs -> BOOLEAN] /\ HALTED \in BOOLEAN /\ initSent \in BOOLEAN
      BY Zenon DEF Init
    <3>2. pc \in [CPUs -> Labels] /\ nmis \in 0..MaxNmis
      BY PanicAssumption DEF Init, Labels
    <3>3. QED
      BY <3>1, <3>2 DEF Init, TypeOK
  <2> ~initSent
    BY Zenon DEF Init
  <2>2. FlagBeforeIpi
    BY DEF Init, FlagBeforeIpi
  <2>3. InitAwaitsEntry /\ NoGuestAfterIpi
    BY DEF InitAwaitsEntry, NoGuestAfterIpi
  <2>4. QED
    BY <2>1, <2>2, <2>3 DEF PanicInv
<1>2. PanicInv /\ [Next]_vars => PanicInv'
  <2> SUFFICES ASSUME PanicInv, [Next]_vars PROVE PanicInv'
    OBVIOUS
  <2>1. CASE UNCHANGED vars
    BY <2>1 DEF vars, PanicInv, TypeOK, FlagBeforeIpi, InitAwaitsEntry,
                NoGuestAfterIpi, RunsGuest
  <2>2. CASE Next
    BY <2>2, HostStepKeepsInv, PanicStepKeepsInv, ExternalStepKeepsInv DEF Next
  <2>3. QED
    BY <2>1, <2>2
<1>3. QED
  BY <1>1, <1>2, PTL DEF Spec

(* The flag, the two locks, every CPU's place and INIT keep their types.   *)
THEOREM TypeCorrect == Spec => []TypeOK
  BY PanicInvariant, PTL DEF PanicInv

(* After MiniHVAssert has sent its INIT no guest runs on any CPU, however  *)
(* the INIT falls between the checks of AssertHvIsStillFunctional and the  *)
(* VM entries.                                                             *)
THEOREM NoGuestRunsAfterIpi == Spec => []NoGuestAfterIpi
  BY PanicInvariant, PTL DEF PanicInv

=============================================================================
