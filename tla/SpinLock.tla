------------------------------ MODULE SpinLock ------------------------------
(***************************************************************************)
(* The LOCK of CommonLib: SPINLOCK (CommonLib/src/spinlock.c) and          *)
(* MONITOR_LOCK (CommonLib/src/monlock.c), which share one layout.         *)
(* LockSystemInit (lock_common.c) picks one of the two implementations for *)
(* the whole run.                                                          *)
(*                                                                         *)
(* One action per access to the shared lock words, so that every           *)
(* interleaving of the CPUs is explored.  The only reads that can race     *)
(* (Holder at entry, State in the CAS) are each an action of their own.    *)
(*                                                                         *)
(* A failed ASSERT sends the CPU to "panic": AssertInfo does not return    *)
(* (module Panic models what happens then).                                *)
(***************************************************************************)

CONSTANTS
  CPUs,            (* the CPUs that share the lock                        *)
  NoCpu            (* NULL in Holder and FunctionWhichTookLock            *)

ASSUME SpinLockAssumption == NoCpu \notin CPUs

VARIABLES
  LockAcquire,            (* the implementation the pointers lead to       *)
  State,                  (* LOCK_FREE or LOCK_TAKEN                       *)
  Holder,                 (* the CPU that took the lock, or NoCpu          *)
  FunctionWhichTookLock,  (* the call site, named by its CPU, or NoCpu     *)
  armed,                  (* the CPUs whose MONITOR on the lock's line has *)
                          (* not been triggered by a store since           *)
  Intr,                   (* Intr[c]: the interrupt state of CPU c         *)
  IntrState,              (* IntrState[c]: the caller's OldIntrState       *)
  pc

lockWords == << State, Holder, FunctionWhichTookLock >>
vars == << LockAcquire, State, Holder, FunctionWhichTookLock, armed, Intr,
           IntrState, pc >>

SPIN    == "SpinlockAcquire"
MONITOR == "MonitorLockAcquire"

LOCK_FREE  == "free"
LOCK_TAKEN == "taken"

INTR_ON  == "on"
INTR_OFF == "off"

-----------------------------------------------------------------------------

(* The labels at which a CPU is the one whose CAS took the lock and which  *)
(* has not yet put LOCK_FREE back.  A CPU whose Release fails its ASSERTs  *)
(* after TryAcquire never does.                                            *)
Owning == { "took", "setFunction", "held", "heldByTry", "panicAfterTry",
            "clearFunction", "free" }

(* The labels at which the caller may touch what the lock protects.        *)
Critical == { "held", "heldByTry" }

Labels == { "idle", "enter", "monitor", "cas", "mwait", "try", "restore",
            "panic" } \cup Owning

Goto(c, label) == pc' = [pc EXCEPT ![c] = label]

At(c, label) == pc[c] = label

(* A store to the lock's cache line triggers the monitors other CPUs have  *)
(* armed on it.  Mutant: MONITOR is given the address of the pointer.      *)
TriggerNobody(c) == armed' = armed
Trigger(c) == armed' = armed \cap {c}

(* LockSystemInit(MonitorSupport).                                         *)
LockSystemInit(MonitorSupport) ==
  LockAcquire = IF MonitorSupport THEN MONITOR ELSE SPIN

(* SpinlockInit / MonitorLockInit, and no CPU inside the lock's code.      *)
Init ==
  /\ \E MonitorSupport \in BOOLEAN : LockSystemInit(MonitorSupport)
  /\ State = LOCK_FREE
  /\ Holder = NoCpu
  /\ FunctionWhichTookLock = NoCpu
  /\ armed = {}
  /\ Intr \in [CPUs -> {INTR_ON, INTR_OFF}]
  /\ IntrState = [c \in CPUs |-> INTR_OFF]
  /\ pc = [c \in CPUs |-> "idle"]

-----------------------------------------------------------------------------
(* Acquire                                                                 *)

(* Mutant: CpuIntrGetState in place of CpuIntrDisable.                     *)
LeaveIntrOn(c, from, to) ==
  /\ At(c, from)
  /\ IntrState' = [IntrState EXCEPT ![c] = Intr[c]]
  /\ Goto(c, to)
  /\ UNCHANGED << lockWords, armed, Intr >>

(* IntrState receives what CpuIntrDisable returns.                         *)
DisableIntr(c, from, to) ==
  /\ At(c, from)
  /\ IntrState' = [IntrState EXCEPT ![c] = Intr[c]]
  /\ Intr' = [Intr EXCEPT ![c] = INTR_OFF]
  /\ Goto(c, to)
  /\ UNCHANGED << lockWords, armed >>

Acquire(c) == DisableIntr(c, "idle", "enter")

(* ASSERT_INFO(pCurrentCpu != Lock->Holder)                                *)
AssertNotHolder(c) ==
  /\ At(c, "enter")
  /\ Goto(c, IF Holder = c THEN "panic"
             ELSE IF LockAcquire = MONITOR THEN "monitor" ELSE "cas")
  /\ UNCHANGED << lockWords, armed, Intr, IntrState >>

(* _mm_monitor(Lock, 0, 0)                                                 *)
Monitor(c) ==
  /\ At(c, "monitor")
  /\ armed' = armed \cup {c}
  /\ Goto(c, "cas")
  /\ UNCHANGED << lockWords, Intr, IntrState >>

(* Mutant: the result of the exchange is not looked at.                    *)
TakeAnyState(c, from, to) ==
  /\ At(c, from)
  /\ State' = LOCK_TAKEN
  /\ Trigger(c)
  /\ Goto(c, to)
  /\ UNCHANGED << Holder, FunctionWhichTookLock, Intr, IntrState >>

(* The successful _InterlockedCompareExchange8.                            *)
TakeState(c, from, to) ==
  /\ At(c, from)
  /\ State = LOCK_FREE
  /\ State' = LOCK_TAKEN
  /\ Trigger(c)
  /\ Goto(c, to)
  /\ UNCHANGED << Holder, FunctionWhichTookLock, Intr, IntrState >>

AcquireCas(c) == TakeState(c, "cas", "took")

(* A failed CAS.  SPINLOCK pauses and retries, MONITOR_LOCK goes on to     *)
(* mwait.                                                                  *)
CasFailed(c) ==
  /\ At(c, "cas")
  /\ State = LOCK_TAKEN
  /\ Goto(c, IF LockAcquire = MONITOR THEN "mwait" ELSE "cas")
  /\ UNCHANGED << lockWords, armed, Intr, IntrState >>

(* _mm_mwait(0, 0) returns once the monitored line has been stored to.     *)
Mwait(c) ==
  /\ At(c, "mwait")
  /\ c \notin armed
  /\ Goto(c, "monitor")
  /\ UNCHANGED << lockWords, armed, Intr, IntrState >>

(* The two ASSERTs that find the words clear, then Holder = pCurrentCpu.   *)
SetHolder(c) ==
  /\ At(c, "took")
  /\ IF FunctionWhichTookLock = NoCpu /\ Holder = NoCpu
     THEN /\ Holder' = c
          /\ Trigger(c)
          /\ Goto(c, "setFunction")
     ELSE /\ Goto(c, "panic")
          /\ UNCHANGED << Holder, armed >>
  /\ UNCHANGED << State, FunctionWhichTookLock, Intr, IntrState >>

(* FunctionWhichTookLock = the return address; ASSERT(LOCK_TAKEN == State) *)
SetFunction(c) ==
  /\ At(c, "setFunction")
  /\ FunctionWhichTookLock' = c
  /\ Trigger(c)
  /\ Goto(c, IF State = LOCK_TAKEN THEN "held" ELSE "panic")
  /\ UNCHANGED << State, Holder, Intr, IntrState >>

-----------------------------------------------------------------------------
(* TryAcquire                                                              *)

TryAcquire(c) == DisableIntr(c, "idle", "try")

(* The CAS succeeds: the function returns TRUE and sets nothing else.      *)
TryAcquireCas(c) == TakeState(c, "try", "heldByTry")

(* The CAS fails: restore the interrupt state and return FALSE.            *)
TryAcquireFails(c) ==
  /\ At(c, "try")
  /\ State = LOCK_TAKEN
  /\ Goto(c, "restore")
  /\ UNCHANGED << lockWords, armed, Intr, IntrState >>

-----------------------------------------------------------------------------
(* Release(Lock, OldIntrState).  A direct caller passes what the lock      *)
(* returned when it was taken; ReleaseLock of minihvex/lock.c INTR_OFF.    *)

(* The two ASSERTs, then Holder = NULL.                                    *)
Release(c, OldIntrState) ==
  /\ pc[c] \in Critical
  /\ IF Holder = c /\ Intr[c] = INTR_OFF
     THEN /\ Holder' = NoCpu
          /\ Trigger(c)
          /\ IntrState' = [IntrState EXCEPT ![c] = OldIntrState]
          /\ Goto(c, "clearFunction")
     ELSE /\ Goto(c, IF At(c, "held") THEN "panic" ELSE "panicAfterTry")
          /\ UNCHANGED << Holder, armed, IntrState >>
  /\ UNCHANGED << State, FunctionWhichTookLock, Intr >>

(* Mutant: FunctionWhichTookLock keeps the last call site.                 *)
KeepFunction(c) ==
  /\ At(c, "clearFunction")
  /\ Goto(c, "free")
  /\ UNCHANGED << lockWords, armed, Intr, IntrState >>

ClearFunction(c) ==
  /\ At(c, "clearFunction")
  /\ FunctionWhichTookLock' = NoCpu
  /\ Trigger(c)
  /\ Goto(c, "free")
  /\ UNCHANGED << State, Holder, Intr, IntrState >>

(* _InterlockedExchange8(&Lock->State, LOCK_FREE)                          *)
FreeState(c) ==
  /\ At(c, "free")
  /\ State' = LOCK_FREE
  /\ Trigger(c)
  /\ Goto(c, "restore")
  /\ UNCHANGED << Holder, FunctionWhichTookLock, Intr, IntrState >>

(* CpuIntrSetState(OldIntrState)                                           *)
RestoreIntr(c) ==
  /\ At(c, "restore")
  /\ Intr' = [Intr EXCEPT ![c] = IntrState[c]]
  /\ Goto(c, "idle")
  /\ UNCHANGED << lockWords, armed, IntrState >>

-----------------------------------------------------------------------------

AcquireStep(c) ==
  \/ AssertNotHolder(c)
  \/ Monitor(c)
  \/ AcquireCas(c)
  \/ CasFailed(c)
  \/ Mwait(c)
  \/ SetHolder(c)
  \/ SetFunction(c)

ReleaseStep(c) ==
  \/ \E OldIntrState \in {IntrState[c], INTR_OFF} : Release(c, OldIntrState)
  \/ ClearFunction(c)
  \/ FreeState(c)
  \/ RestoreIntr(c)

TryStep(c) == TryAcquireCas(c) \/ TryAcquireFails(c)

(* What a CPU does once it has entered the lock's code.                    *)
Step(c) ==
  /\ AcquireStep(c) \/ TryStep(c) \/ ReleaseStep(c)
  /\ UNCHANGED LockAcquire

Call(c) ==
  /\ Acquire(c) \/ TryAcquire(c)
  /\ UNCHANGED LockAcquire

Next == \E c \in CPUs : Call(c) \/ Step(c)

Spec == Init /\ [][Next]_vars

(* Every CPU runs on its own processor and executes its next instruction   *)
(* eventually: interrupts are off and nothing preempts the hypervisor.     *)
(* Whether a CPU ever calls Acquire is its caller's choice.                *)
FairSpec == Spec /\ \A c \in CPUs : WF_vars(Step(c))

-----------------------------------------------------------------------------

TypeOK ==
  /\ LockAcquire \in {SPIN, MONITOR}
  /\ State \in {LOCK_FREE, LOCK_TAKEN}
  /\ Holder \in CPUs \cup {NoCpu}
  /\ FunctionWhichTookLock \in CPUs \cup {NoCpu}
  /\ armed \subseteq CPUs
  /\ Intr \in [CPUs -> {INTR_ON, INTR_OFF}]
  /\ IntrState \in [CPUs -> {INTR_ON, INTR_OFF}]
  /\ pc \in [CPUs -> Labels]

(* At most one CPU is between its successful CAS and its store of          *)
(* LOCK_FREE, whichever of Acquire and TryAcquire it used                  *)
(* (spinlock.c:39-50, 64, 96-99).                                          *)
MutualExclusion ==
  \A c, d \in CPUs : pc[c] \in Owning /\ pc[d] \in Owning => c = d

(* No ASSERT fails in Acquire, or in the Release that follows it: the      *)
(* stores of Release are ordered so that the next CPU to win the CAS finds *)
(* Holder and FunctionWhichTookLock clear (spinlock.c:44-45, 90-99),       *)
(* whichever CPUs use TryAcquire beside it.                                *)
NoAssertFails == \A c \in CPUs : ~At(c, "panic")

(* "Releases a previously acquired Lock.  OldIntrState should hold the     *)
(* value previous returned by SpinlockAcquire or SpinlockTryAcquire"       *)
(* (spinlock.h:69-71): what TryAcquire took, Release releases.             *)
ReleaseAfterTry == \A c \in CPUs : ~At(c, "panicAfterTry")

(* A CPU that is anywhere inside the lock's code or holds the lock has its *)
(* interrupts off, so no handler of its own can spin on a lock it holds    *)
(* (spinlock.c:29, 94, 101).                                               *)
IntrOffInside == \A c \in CPUs : ~At(c, "idle") => Intr[c] = INTR_OFF

(* The lock is never lost: while a CPU waits for it some CPU gets it in    *)
(* the end, or has stopped with it after TryAcquire.  For MONITOR_LOCK     *)
(* this is the absence of a missed wake-up between the CAS and mwait       *)
(* (monlock.c:43-50).                                                      *)
Waiting(c) == pc[c] \in { "monitor", "cas", "mwait" }
SomeCpuGetsIt ==
  (\E c \in CPUs : Waiting(c)) ~>
    (\E c \in CPUs : pc[c] \in Critical \cup {"panicAfterTry"})

(* The CPU the lock words are taken for, and the abstract lock it gives.   *)
Owner ==
  IF \E c \in CPUs : pc[c] \in Owning
  THEN CHOOSE c \in CPUs : pc[c] \in Owning
  ELSE NoCpu

Abstract == INSTANCE Mutex WITH owner <- Owner

(* The word-level lock implements the abstract one: ownership is gained    *)
(* from nobody, by the CAS alone, and given up by the store of LOCK_FREE.  *)
ImplementsMutex == Abstract!Spec

=============================================================================
