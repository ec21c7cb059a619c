---------------------------- MODULE NmiInjection ----------------------------
(***************************************************************************)
(* A CPU of MiniHV between a VM exit and the VM entry that ends it, and    *)
(* the NMI that can interrupt it at any instruction: InterruptHandler      *)
(* (minihvex/idt_handlers.c), GuestInjectEvent (vmguest.c), VmxStartGuest  *)
(* and VmxResumeGuest (vmx_operations.c), and the LOG macro (log.h) whose  *)
(* lock the NMI handler gives away and takes again.                        *)
(*                                                                         *)
(* SerialLock is a LOCK (module SpinLock); here it is its owner and its    *)
(* Holder, in the order the code changes them.  Only the CPU itself        *)
(* compares Holder with itself, so the handler, which nothing on its CPU   *)
(* interrupts, changes both in one step.                                   *)
(***************************************************************************)
EXTENDS Integers, Sequences

CONSTANTS
  CPUs, NoCpu,
  MaxNmis,      (* bound: the NMIs a CPU takes in the host                 *)
  GuestFaults   (* TRUE: exits the code answers with an exception          *)

ASSUME NmiAssumption ==
  /\ NoCpu \notin CPUs
  /\ MaxNmis \in Nat
  /\ GuestFaults \in BOOLEAN

VARIABLES
  owner, Holder,                     (* SerialLock                         *)
  EnteredVMX,                        (* VCPU field                         *)
  PendingEventForInjection,          (* VCPU field                         *)
  intInfo,      (* VMCS_CONTROL_VM_ENTRY_INT_INFO_FIELD, "none" if invalid *)
  activity,     (* VMCS_GUEST_ACTIVITY_STATE                               *)
  owed,         (* the events handed to GuestInjectEvent since the last    *)
                (* VM entry, in that order (history)                       *)
  pc,           (* where the CPU is, below its NMI handler                 *)
  nmi,          (* where its NMI handler is                                *)
  nmis,         (* how many NMIs it has taken, up to MaxNmis               *)
  releasedLock  (* InterruptHandler's local                                *)

lockVars == << owner, Holder >>
vcpuVars == << EnteredVMX, PendingEventForInjection, intInfo, activity, owed >>
vars == << lockVars, vcpuVars, pc, nmi, nmis, releasedLock >>

(* Where the base code has stopped for good.                               *)
Stopped == { "panic", "lockPanic", "entryFailure" }

At(c, label) == pc[c] = label /\ nmi[c] = "none"
Goto(c, label) == pc' = [pc EXCEPT ![c] = label]
InNmi(c, label) == nmi[c] = label
GotoNmi(c, label) == nmi' = [nmi EXCEPT ![c] = label]

Init ==
  /\ owner = NoCpu /\ Holder = NoCpu
  /\ EnteredVMX = [c \in CPUs |-> FALSE]
  /\ PendingEventForInjection = [c \in CPUs |-> 0]
  /\ intInfo = [c \in CPUs |-> "none"]
  /\ \E bsp \in CPUs :
       activity = [c \in CPUs |-> IF c = bsp THEN "active" ELSE "waitForSIPI"]
  /\ owed = [c \in CPUs |-> << >>]
  /\ pc = [c \in CPUs |-> "start"]
  /\ nmi = [c \in CPUs |-> "none"]
  /\ nmis = [c \in CPUs |-> 0]
  /\ releasedLock = [c \in CPUs |-> FALSE]

-----------------------------------------------------------------------------
(* GuestInjectEvent, used below and inside the NMI handler                 *)

(* ASSERT(1 == InterlockedIncrement(PendingEventForInjection))             *)
IncrementPending(c, event) ==
  /\ PendingEventForInjection' = [PendingEventForInjection EXCEPT ![c] = @ + 1]
  /\ owed' = [owed EXCEPT ![c] = Append(@, event)]

FirstPending(c) == PendingEventForInjection[c] + 1 = 1

WriteIntInfo(c, event) == intInfo' = [intInfo EXCEPT ![c] = event]

-----------------------------------------------------------------------------
(* The base code                                                           *)

(* VmxStartGuest: EnteredVMX comes before the launch.                      *)
VmxStartGuest(c) ==
  /\ At(c, "start")
  /\ EnteredVMX' = [EnteredVMX EXCEPT ![c] = TRUE]
  /\ Goto(c, "launch")
  /\ UNCHANGED << lockVars, PendingEventForInjection, intInfo, activity, owed,
                  nmi, nmis, releasedLock >>

(* External: VMLAUNCH and VMRESUME.  An event in a wait-for-SIPI guest     *)
(* fails the entry (and the ASSERT in VmExitHandler); otherwise the event  *)
(* is delivered and the field becomes invalid.                             *)
VmEntry(c) ==
  /\ At(c, "launch") \/ At(c, "enter")
  /\ IF activity[c] = "waitForSIPI" /\ intInfo[c] # "none"
     THEN Goto(c, "entryFailure") /\ UNCHANGED << intInfo, owed >>
     ELSE /\ Goto(c, "guest")
          /\ intInfo' = [intInfo EXCEPT ![c] = "none"]
          /\ owed' = [owed EXCEPT ![c] = << >>]
  /\ UNCHANGED << lockVars, EnteredVMX, PendingEventForInjection, activity,
                  nmi, nmis, releasedLock >>

(* A VM exit; the first one of an AP is its SIPI, which makes it active.   *)
VmExit(c) ==
  /\ At(c, "guest")
  /\ activity' = [activity EXCEPT ![c] = "active"]
  /\ Goto(c, "exit")
  /\ UNCHANGED << lockVars, EnteredVMX, PendingEventForInjection, intInfo, owed,
                  nmi, nmis, releasedLock >>

(* VmExitHandler logs or it does not.                                      *)
Handle(c) ==
  /\ At(c, "exit")
  /\ Goto(c, "logTake") \/ Goto(c, "handled")
  /\ UNCHANGED << lockVars, vcpuVars, nmi, nmis, releasedLock >>

LogTake(c) ==
  /\ At(c, "logTake")
  /\ owner = NoCpu
  /\ owner' = c
  /\ Goto(c, "logTook")
  /\ UNCHANGED << Holder, vcpuVars, nmi, nmis, releasedLock >>

LogSetHolder(c) ==
  /\ At(c, "logTook")
  /\ Holder' = c
  /\ Goto(c, "logSend")
  /\ UNCHANGED << owner, vcpuVars, nmi, nmis, releasedLock >>

(* sprintf into the buffer that SerialLock guards, SerialWriteBuffer.      *)
LogSend(c) ==
  /\ At(c, "logSend")
  /\ Goto(c, "logClear")
  /\ UNCHANGED << lockVars, vcpuVars, nmi, nmis, releasedLock >>

(* ReleaseLock: ASSERT(pCurrentCpu == Holder), Holder, State.              *)
LogClearHolder(c) ==
  /\ At(c, "logClear")
  /\ IF Holder = c THEN Holder' = NoCpu /\ Goto(c, "logFree")
                   ELSE UNCHANGED Holder /\ Goto(c, "lockPanic")
  /\ UNCHANGED << owner, vcpuVars, nmi, nmis, releasedLock >>

LogFree(c) ==
  /\ At(c, "logFree")
  /\ owner' = NoCpu
  /\ Goto(c, "handled")
  /\ UNCHANGED << Holder, vcpuVars, nmi, nmis, releasedLock >>

(* Mutant: the event is written without being counted.                     *)
InjectUncounted(c) ==
  /\ GuestFaults
  /\ At(c, "handled")
  /\ owed' = [owed EXCEPT ![c] = Append(@, "exception")]
  /\ Goto(c, "injectWrite")
  /\ UNCHANGED << lockVars, EnteredVMX, PendingEventForInjection, intInfo,
                  activity, nmi, nmis, releasedLock >>

(* The exit is answered with #UD or #GP: by VmExitSolveVmCall or           *)
(* VmExitSolveWrmsr, or by InterruptHandler when an instruction executed   *)
(* for the guest faults in the host (then VmxResumeGuest never returns).   *)
InjectException(c) ==
  /\ GuestFaults
  /\ At(c, "handled")
  /\ IncrementPending(c, "exception")
  /\ Goto(c, IF FirstPending(c) THEN "injectWrite" ELSE "panic")
  /\ UNCHANGED << lockVars, EnteredVMX, intInfo, activity, nmi, nmis, releasedLock >>

InjectExceptionWrite(c) ==
  /\ At(c, "injectWrite")
  /\ WriteIntInfo(c, "exception")
  /\ Goto(c, "resume")
  /\ UNCHANGED << lockVars, EnteredVMX, PendingEventForInjection, activity,
                  owed, nmi, nmis, releasedLock >>

NothingToInject(c) ==
  /\ At(c, "handled")
  /\ Goto(c, "resume")
  /\ UNCHANGED << lockVars, vcpuVars, nmi, nmis, releasedLock >>

(* ASSERT(2 > InterlockedCompareExchange(PendingEventForInjection, 0, 1))  *)
VmxResumeGuest(c) ==
  /\ At(c, "resume")
  /\ PendingEventForInjection' =
       [PendingEventForInjection EXCEPT ![c] = IF @ = 1 THEN 0 ELSE @]
  /\ Goto(c, IF PendingEventForInjection[c] < 2 THEN "enter" ELSE "panic")
  /\ UNCHANGED << lockVars, EnteredVMX, intInfo, activity, owed, nmi, nmis, releasedLock >>

-----------------------------------------------------------------------------
(* The NMI: InterruptHandler with InterruptIndex = ExceptionNMI            *)

(* External: an NMI in the host, at any instruction.  Further NMIs are     *)
(* blocked until the IRET; an NMI in the guest stays there.                *)
Nmi(c) ==
  /\ nmi[c] = "none"
  /\ pc[c] \notin Stopped \cup {"guest"}
  /\ nmis[c] < MaxNmis
  /\ nmis' = [nmis EXCEPT ![c] = @ + 1]
  /\ GotoNmi(c, "entry")
  /\ UNCHANGED << lockVars, vcpuVars, pc, releasedLock >>

(* Mutant: the Holder is cleared, the State stays taken.                   *)
NmiReleaseHolder(c) ==
  /\ InNmi(c, "entry")
  /\ releasedLock' = [releasedLock EXCEPT ![c] = Holder = c]
  /\ Holder' = IF Holder = c THEN NoCpu ELSE Holder
  /\ IF EnteredVMX[c] THEN GotoNmi(c, "inject") /\ UNCHANGED pc
                      ELSE GotoNmi(c, "none") /\ Goto(c, "panic")
  /\ UNCHANGED << owner, vcpuVars, nmis >>

(* If this CPU is the owner of SerialLock, free it.  Before the first      *)
(* VmxStartGuest there is no guest to hand the NMI to.                     *)
NmiReleaseLock(c) ==
  /\ InNmi(c, "entry")
  /\ releasedLock' = [releasedLock EXCEPT ![c] = Holder = c]
  /\ IF Holder = c THEN Holder' = NoCpu /\ owner' = NoCpu
                   ELSE UNCHANGED << Holder, owner >>
  /\ IF EnteredVMX[c] THEN GotoNmi(c, "inject") /\ UNCHANGED pc
                      ELSE GotoNmi(c, "none") /\ Goto(c, "panic")
  /\ UNCHANGED << vcpuVars, nmis >>

NmiInject(c) ==
  /\ InNmi(c, "inject")
  /\ IncrementPending(c, "nmi")
  /\ IF FirstPending(c) THEN GotoNmi(c, "write") /\ UNCHANGED pc
                        ELSE GotoNmi(c, "none") /\ Goto(c, "panic")
  /\ UNCHANGED << lockVars, EnteredVMX, intInfo, activity, nmis, releasedLock >>

NmiWrite(c) ==
  /\ InNmi(c, "write")
  /\ WriteIntInfo(c, "nmi")
  /\ GotoNmi(c, "reacquire")
  /\ UNCHANGED << lockVars, EnteredVMX, PendingEventForInjection, activity,
                  owed, pc, nmis, releasedLock >>

(* Mutant: IRET without SerialLock.                                        *)
NmiIret(c) ==
  /\ InNmi(c, "reacquire")
  /\ GotoNmi(c, "none")
  /\ UNCHANGED << lockVars, vcpuVars, pc, nmis, releasedLock >>

(* Take SerialLock again if it was freed, then IRET.                       *)
NmiReacquireLock(c) ==
  /\ InNmi(c, "reacquire")
  /\ IF releasedLock[c]
     THEN owner = NoCpu /\ owner' = c /\ Holder' = c
     ELSE UNCHANGED << owner, Holder >>
  /\ GotoNmi(c, "none")
  /\ UNCHANGED << vcpuVars, pc, nmis, releasedLock >>

-----------------------------------------------------------------------------

LogStep(c) ==
  \/ LogTake(c) \/ LogSetHolder(c)
  \/ LogSend(c) \/ LogClearHolder(c) \/ LogFree(c)

BaseStep(c) ==
  \/ VmxStartGuest(c) \/ VmEntry(c) \/ VmExit(c) \/ Handle(c) \/ LogStep(c)
  \/ InjectException(c) \/ InjectExceptionWrite(c) \/ NothingToInject(c)
  \/ VmxResumeGuest(c)

NmiStep(c) ==
  NmiReleaseLock(c) \/ NmiInject(c) \/ NmiWrite(c) \/ NmiReacquireLock(c)

Next == \E c \in CPUs : BaseStep(c) \/ Nmi(c) \/ NmiStep(c)

Spec == Init /\ [][Next]_vars

(* Every CPU executes its next instruction eventually; NMIs come or not.   *)
FairSpec == Spec /\ \A c \in CPUs : WF_vars(BaseStep(c) \/ NmiStep(c))

-----------------------------------------------------------------------------

(* Giving SerialLock away in the handler and taking it again leaves the    *)
(* interrupted LOG able to release it: its ASSERT on Holder holds wherever *)
(* the NMI struck (idt_handlers.c:246-250, 334-338; spinlock.c:90).        *)
LockAssertHolds == \A c \in CPUs : pc[c] # "lockPanic"

(* An NMI the host has taken for its guest is delivered by the next VM     *)
(* entry: nothing the interrupted code or a later NMI does replaces it by  *)
(* another event (vmguest.c:565, 588; vmx_operations.c:284).               *)
NmiIsDelivered ==
  \A c \in CPUs :
    At(c, "enter") /\ (\E i \in DOMAIN owed[c] : owed[c][i] = "nmi")
      => intInfo[c] = "nmi"

(* While some CPU wants SerialLock, some CPU gets to send its text, unless *)
(* one has stopped: the lock the handler gave away and took again is given *)
(* back by the LOG it interrupted (idt_handlers.c:334-338).                *)
LogGoesOn ==
  (\E c \in CPUs : pc[c] = "logTake")
    ~> (\E c \in CPUs : pc[c] \in {"logSend"} \cup Stopped)

(* ASSERT(1 == InterlockedIncrement(PendingEventForInjection)): a CPU that *)
(* stops because of it did have two events to inject (vmguest.c:563-565).  *)
AssertMeansTwoEvents ==
  \A c \in CPUs : EnteredVMX[c] /\ pc[c] = "panic" => Len(owed[c]) = 2

(* ASSERT_INFO(0 == exitReason.EntryFailure): every entry succeeds         *)
(* (vmexit.c:125).                                                         *)
EntrySucceeds == \A c \in CPUs : pc[c] # "entryFailure"

=============================================================================
