--------------------------- MODULE SpinLock_proofs ---------------------------
(***************************************************************************)
(* Proofs about SpinLock, for every set of CPUs and both implementations.  *)
(***************************************************************************)
EXTENDS SpinLock, TLAPS

(* The shapes a step of CPU c can take, to split Next on.                  *)
Moves(c) ==
  /\ UNCHANGED LockAcquire
  /\ \/ Acquire(c) \/ TryAcquire(c)
     \/ AcquireStep(c) \/ TryStep(c) \/ ReleaseStep(c)

LEMMA NextMoves ==
  ASSUME Next
  PROVE  \E c \in CPUs : Moves(c)
  BY DEF Next, Call, Step, Moves

-----------------------------------------------------------------------------

(* The lock words, the interrupt flags and every pc keep their types.      *)
THEOREM TypeCorrect == Spec => []TypeOK
<1>1. Init => TypeOK
  BY DEF Init, LockSystemInit, TypeOK, Labels, SPIN, MONITOR, INTR_ON, INTR_OFF,
         LOCK_FREE
<1>2. TypeOK /\ [Next]_vars => TypeOK'
  <2> SUFFICES ASSUME TypeOK, [Next]_vars PROVE TypeOK'
    OBVIOUS
  <2> USE SpinLockAssumption DEF TypeOK, Labels, Owning, Critical,
          INTR_ON, INTR_OFF, LOCK_FREE, LOCK_TAKEN, Goto, At, Trigger, lockWords
  <2>1. CASE UNCHANGED vars
    BY <2>1 DEF vars
  <2>2. CASE Next
    <3>1. PICK c \in CPUs : Moves(c)
      BY <2>2, NextMoves
    <3>a. LockAcquire' = LockAcquire
      BY <3>1 DEF Moves
    <3> USE <3>a
    <3>2. CASE Acquire(c) \/ TryAcquire(c)
      BY <3>2 DEF Acquire, TryAcquire, DisableIntr
    <3>3. CASE AcquireStep(c)
      <4>1. CASE AssertNotHolder(c)
        BY <4>1 DEF AssertNotHolder
      <4>2. CASE Monitor(c) \/ CasFailed(c) \/ Mwait(c)
        BY <4>2 DEF Monitor, CasFailed, Mwait
      <4>3. CASE AcquireCas(c)
        BY <4>3 DEF AcquireCas, TakeState
      <4>4. CASE SetHolder(c)
        BY <4>4 DEF SetHolder
      <4>5. CASE SetFunction(c)
        BY <4>5 DEF SetFunction
      <4>6. QED
        BY <3>3, <4>1, <4>2, <4>3, <4>4, <4>5 DEF AcquireStep
    <3>4. CASE TryStep(c)
      BY <3>4 DEF TryStep, TryAcquireCas, TakeState, TryAcquireFails
    <3>5. CASE ReleaseStep(c)
      <4>1. CASE \E old \in {IntrState[c], INTR_OFF} : Release(c, old)
        BY <4>1 DEF Release
      <4>2. CASE ClearFunction(c) \/ FreeState(c) \/ RestoreIntr(c)
        BY <4>2 DEF ClearFunction, FreeState, RestoreIntr
      <4>3. QED
        BY <3>5, <4>1, <4>2 DEF ReleaseStep
    <3>6. QED
      BY <3>1, <3>2, <3>3, <3>4, <3>5 DEF Moves
  <2>3. QED
    BY <2>1, <2>2
<1>3. QED
  BY <1>1, <1>2, PTL DEF Spec

-----------------------------------------------------------------------------

(* Mutual exclusion is inductive together with the fact that an owner      *)
(* keeps State at LOCK_TAKEN, which is what makes the next CAS fail.       *)
OwnerKeepsTaken == \A c \in CPUs : pc[c] \in Owning => State = LOCK_TAKEN

MutexInv == TypeOK /\ OwnerKeepsTaken /\ MutualExclusion

LEMMA MutexInvStep ==
  ASSUME MutexInv, TypeOK', [Next]_vars
  PROVE  MutexInv'
<1> USE DEF MutexInv, TypeOK, OwnerKeepsTaken, MutualExclusion, Owning,
            Critical, LOCK_FREE, LOCK_TAKEN, Goto, At, lockWords
<1>1. CASE UNCHANGED vars
  BY <1>1 DEF vars
<1>2. CASE Next
  <2>1. PICK c \in CPUs : Moves(c)
    BY <1>2, NextMoves
  <2>2. CASE Acquire(c) \/ TryAcquire(c)
    BY <2>2 DEF Acquire, TryAcquire, DisableIntr
  <2>3. CASE AcquireStep(c)
    <3>1. CASE AssertNotHolder(c)
      BY <3>1 DEF AssertNotHolder
    <3>2. CASE Monitor(c) \/ CasFailed(c) \/ Mwait(c)
      BY <3>2 DEF Monitor, CasFailed, Mwait
    <3>3. CASE AcquireCas(c)
      BY <3>3 DEF AcquireCas, TakeState
    <3>4. CASE SetHolder(c)
      BY <3>4 DEF SetHolder
    <3>5. CASE SetFunction(c)
      BY <3>5 DEF SetFunction
    <3>6. QED
      BY <2>3, <3>1, <3>2, <3>3, <3>4, <3>5 DEF AcquireStep
  <2>4. CASE TryStep(c)
    BY <2>4 DEF TryStep, TryAcquireCas, TakeState, TryAcquireFails
  <2>5. CASE ReleaseStep(c)
    <3>1. CASE \E old \in {IntrState[c], INTR_OFF} : Release(c, old)
      BY <3>1 DEF Release
    <3>2. CASE ClearFunction(c) \/ FreeState(c) \/ RestoreIntr(c)
      BY <3>2 DEF ClearFunction, FreeState, RestoreIntr
    <3>3. QED
      BY <2>5, <3>1, <3>2 DEF ReleaseStep
  <2>6. QED
    BY <2>1, <2>2, <2>3, <2>4, <2>5 DEF Moves
<1>3. QED
  BY <1>1, <1>2

LEMMA MutexInvariant == Spec => []MutexInv
<1>1. Init => MutexInv
  BY DEF Init, LockSystemInit, MutexInv, TypeOK, OwnerKeepsTaken, MutualExclusion,
         Owning, Labels, SPIN, MONITOR, INTR_ON, INTR_OFF, LOCK_FREE
<1>2. MutexInv /\ TypeOK' /\ [Next]_vars => MutexInv'
  BY MutexInvStep
<1>3. QED
  BY <1>1, <1>2, TypeCorrect, PTL DEF Spec

(* At most one CPU owns the lock, however callers mix Acquire and          *)
(* TryAcquire and whichever implementation LockSystemInit picked.          *)
THEOREM MutualExclusionHolds == Spec => []MutualExclusion
  BY MutexInvariant, PTL DEF MutexInv

-----------------------------------------------------------------------------

(* Holder names exactly the CPU between its two stores of Holder, and      *)
(* FunctionWhichTookLock the CPU between its two stores of that word, so   *)
(* both are clear whenever nobody owns the lock: this is what the ASSERTs  *)
(* after the CAS rely on.  TryAcquire stores neither, and a CPU that stops *)
(* after it keeps State at LOCK_TAKEN.                                     *)
HolderIsExact ==
  \A c \in CPUs : Holder = c <=> pc[c] \in {"setFunction", "held"}
FunctionIsExact ==
  \A c \in CPUs :
    FunctionWhichTookLock = c <=> pc[c] \in {"held", "clearFunction"}
AssertInv ==
  MutexInv /\ IntrOffInside /\ HolderIsExact /\ FunctionIsExact /\ NoAssertFails

LEMMA AssertInvStep ==
  ASSUME AssertInv, MutexInv', [Next]_vars
  PROVE  AssertInv'
<1> USE SpinLockAssumption
    DEF AssertInv, MutexInv, TypeOK, IntrOffInside, HolderIsExact,
        FunctionIsExact, NoAssertFails, Goto, At, lockWords
<1>1. CASE UNCHANGED vars
  BY <1>1 DEF vars
<1>2. CASE Next
  <2>1. PICK c \in CPUs : Moves(c)
    BY <1>2, NextMoves
  <2>2. CASE Acquire(c) \/ TryAcquire(c)
    BY <2>2 DEF Acquire, TryAcquire, DisableIntr
  <2>3. CASE AcquireStep(c)
    <3>1. CASE AssertNotHolder(c)
      BY <3>1 DEF AssertNotHolder
    <3>2. CASE Monitor(c) \/ CasFailed(c) \/ Mwait(c)
      BY <3>2 DEF Monitor, CasFailed, Mwait
    <3>3. CASE AcquireCas(c)
      BY <3>3 DEF AcquireCas, TakeState
    <3>4. CASE SetHolder(c)
      <4>1. Holder = NoCpu /\ FunctionWhichTookLock = NoCpu
        BY <3>4 DEF SetHolder, MutualExclusion, Owning
      <4>2. QED
        BY <3>4, <4>1 DEF SetHolder
    <3>5. CASE SetFunction(c)
      <4>1. State = LOCK_TAKEN
        BY <3>5 DEF SetFunction, OwnerKeepsTaken, Owning
      <4>2. FunctionWhichTookLock = NoCpu
        BY <3>5 DEF SetFunction, MutualExclusion, Owning
      <4>3. QED
        BY <3>5, <4>1, <4>2 DEF SetFunction
    <3>6. QED
      BY <2>3, <3>1, <3>2, <3>3, <3>4, <3>5 DEF AcquireStep
  <2>4. CASE TryStep(c)
    BY <2>4 DEF TryStep, TryAcquireCas, TakeState, TryAcquireFails
  <2>5. CASE ReleaseStep(c)
    <3>1. CASE \E old \in {IntrState[c], INTR_OFF} : Release(c, old)
      BY <3>1 DEF Release, Critical
    <3>2. CASE ClearFunction(c)
      BY <3>2 DEF ClearFunction
    <3>3. CASE FreeState(c)
      BY <3>3 DEF FreeState
    <3>4. CASE RestoreIntr(c)
      BY <3>4 DEF RestoreIntr
    <3>5. QED
      BY <2>5, <3>1, <3>2, <3>3, <3>4 DEF ReleaseStep
  <2>6. QED
    BY <2>1, <2>2, <2>3, <2>4, <2>5 DEF Moves
<1>3. QED
  BY <1>1, <1>2

LEMMA AssertInvariant == Spec => []AssertInv
<1>1. Init /\ MutexInv => AssertInv
  BY SpinLockAssumption DEF Init, AssertInv, IntrOffInside, HolderIsExact,
     FunctionIsExact, NoAssertFails, At
<1>2. AssertInv /\ MutexInv' /\ [Next]_vars => AssertInv'
  BY AssertInvStep
<1>3. QED
  BY <1>1, <1>2, MutexInvariant, PTL DEF Spec

(* No ASSERT of Acquire fails, nor one of the Release that follows it, on  *)
(* any number of CPUs and beside any use of TryAcquire.                    *)
THEOREM NoAssertEverFails == Spec => []NoAssertFails
  BY AssertInvariant, PTL DEF AssertInv

(* The interrupts of a CPU inside the lock's code or holding it are off.   *)
THEOREM IntrStaysOff == Spec => []IntrOffInside
  BY AssertInvariant, PTL DEF AssertInv

-----------------------------------------------------------------------------

(* The abstraction function names the owner when there is one.             *)
LEMMA OwnerIsUnique ==
  ASSUME MutualExclusion, NEW c \in CPUs, pc[c] \in Owning
  PROVE  Owner = c
  BY DEF Owner, MutualExclusion

(* The word-level lock implements the abstract Mutex: every step of it is  *)
(* a Take, a Leave or a stutter of Owner.                                  *)
THEOREM LockImplementsMutex == Spec => ImplementsMutex
<1>1. Init => Abstract!Init
  BY DEF Init, Abstract!Init, Owner, Owning
<1>2. ASSUME MutexInv, MutexInv', [Next]_vars
      PROVE  [Abstract!Next]_Owner
  <2> USE <1>2 DEF MutexInv
  <2>1. CASE UNCHANGED vars
    BY <2>1 DEF vars, Owner
  <2>2. CASE Next
    <3>1. PICK c \in CPUs : Moves(c)
      BY <2>2, NextMoves
    <3>2. \A d \in CPUs : d # c => (pc'[d] \in Owning <=> pc[d] \in Owning)
      BY <3>1 DEF Moves, Acquire, TryAcquire, DisableIntr, AcquireStep,
         AssertNotHolder, Monitor, CasFailed, Mwait, AcquireCas, TakeState,
         SetHolder, SetFunction, TryStep, TryAcquireCas, TryAcquireFails,
         ReleaseStep, Release, ClearFunction, FreeState, RestoreIntr,
         Goto, TypeOK
    <3>3. CASE pc[c] \in Owning /\ pc'[c] \in Owning
      <4>1. Owner = c
        BY <3>3, OwnerIsUnique
      <4>2. Owner' = c
        BY <3>3 DEF Owner, MutualExclusion
      <4>3. QED
        BY <4>1, <4>2
    <3>4. CASE pc[c] \in Owning /\ pc'[c] \notin Owning
      <4>1. Owner = c
        BY <3>4, OwnerIsUnique
      <4>2. ~ \E d \in CPUs : pc'[d] \in Owning
        BY <3>2, <3>4 DEF MutualExclusion
      <4>3. Owner' = NoCpu
        BY <4>2 DEF Owner
      <4>4. QED
        BY <4>1, <4>3 DEF Abstract!Next, Abstract!Leave
    <3>5. CASE pc[c] \notin Owning /\ pc'[c] \in Owning
      <4>1. Owner' = c
        BY <3>5 DEF Owner, MutualExclusion
      <4>2. ~ \E d \in CPUs : pc[d] \in Owning
        BY <3>2, <3>5 DEF MutualExclusion
      <4>3. Owner = NoCpu
        BY <4>2 DEF Owner
      <4>4. QED
        BY <4>1, <4>3 DEF Abstract!Next, Abstract!Take
    <3>6. CASE pc[c] \notin Owning /\ pc'[c] \notin Owning
      <4>1. \A d \in CPUs : pc'[d] \in Owning <=> pc[d] \in Owning
        BY <3>2, <3>6
      <4>2. CASE \E d \in CPUs : pc[d] \in Owning
        <5>1. PICK d \in CPUs : pc[d] \in Owning
          BY <4>2
        <5>2. Owner = d
          BY <5>1, OwnerIsUnique
        <5>3. Owner' = d
          BY <4>1, <5>1 DEF Owner, MutualExclusion
        <5>4. QED
          BY <5>2, <5>3
      <4>3. CASE ~ \E d \in CPUs : pc[d] \in Owning
        BY <4>1, <4>3 DEF Owner
      <4>4. QED
        BY <4>2, <4>3
    <3>7. QED
      BY <3>3, <3>4, <3>5, <3>6
  <2>3. QED
    BY <2>1, <2>2
<1>3. QED
  BY <1>1, <1>2, MutexInvariant, PTL DEF Spec, ImplementsMutex, Abstract!Spec

=============================================================================
