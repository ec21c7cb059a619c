------------------------------ MODULE SmpBoot ------------------------------
(***************************************************************************)
(* How the processors come up (minihvex/apic.c, init64.c, vmx_operations.c *)
(* and the INIT and SIPI exits of vmexit.c).  The BSP wakes the APs one    *)
(* after the other and waits for each on an EVENT; every AP puts itself    *)
(* under VMX and launches a guest that waits for a SIPI; the BSP launches  *)
(* the guest that boots the operating system, which in turn sends INIT and *)
(* two SIPIs to every AP.                                                  *)
(*                                                                         *)
(* The APIC, VMX and the guest are external: what INIT and SIPI do depends *)
(* on the mode the receiving processor is in.                              *)
(***************************************************************************)
EXTENDS Integers, FiniteSets, Sequences, SequencesExt

CONSTANTS
  CPUs, Bsp,
  PhysCpuList,        (* the CPUs in the order of the MADT                 *)
  RunningNested,      (* MiniHV itself runs under a hypervisor             *)
  SipiSleepSuffices   (* TRUE: the second trampoline SIPI is sent within   *)
                      (* the 200 us of SIPI_SLEEP, before the AP (which    *)
                      (* prints at 115200 baud) has launched its guest     *)

(* ACPI has firmware list the boot processor first.                        *)
ASSUME SmpAssumption ==
  /\ IsFiniteSet(CPUs)
  /\ Bsp \in CPUs
  /\ PhysCpuList \in SetToAllKPermutations(CPUs)
  /\ Len(PhysCpuList) = Cardinality(CPUs)
  /\ PhysCpuList[1] = Bsp
  /\ {RunningNested, SipiSleepSuffices} \subseteq BOOLEAN

APs == CPUs \ {Bsp}

(* Vectors: the trampoline's, the guest's, and what __vector holds, which  *)
(* only code that is never called writes.                                  *)
TrampolineSipiVector == "trampoline"
GuestVector == "guest"
ZeroVector  == "zero"

VARIABLES
  ActiveCpus, WakeupLock,     (* gGlobalData.ApicData                      *)
  position,                   (* the element ForEachElementExecute is at   *)
  currentNumberOfActiveCpus,  (* the BSP's local                           *)
  identityMapped,             (* PML4 entry 0 is present                   *)
  initialStack,               (* the CPUs running on InitialStackBase      *)
  pc,
  activity,                   (* VMCS_GUEST_ACTIVITY_STATE                 *)
  exitQualification,          (* the vector of the SIPI that caused an exit*)
  guestCS,                    (* the vector VMCS_GUEST_CS was set from     *)
  WaitingForWakeup, ReceivedSIPI,  (* VCPU fields                          *)
  initPending,                (* an INIT the processor has blocked         *)
  guestIpi                    (* how many of INIT, SIPI, SIPI the guest    *)
                              (* has sent to each AP                       *)

bspVars == << position, currentNumberOfActiveCpus, identityMapped >>
vcpuVars == << activity, guestCS, WaitingForWakeup, ReceivedSIPI >>
ipiVars == << exitQualification, initPending, guestIpi >>
vars == << ActiveCpus, WakeupLock, bspVars, initialStack, pc, vcpuVars,
           ipiVars >>

(* Where a processor is out of VMX.                                        *)
OutOfVmx == { "off", "trampoline", "ownStack", "counted", "signalled", "bare",
              "boot", "visit" }

At(c, label) == pc[c] = label
Goto(c, label) == pc' = [pc EXCEPT ![c] = label]

(* Where ForEachElementExecute is in the list. The status it passes on is  *)
(* always success: _ApicCpuInitializationSequence succeeds or asserts.     *)
Element == PhysCpuList[position]

(* ApicRetrievePhysCpu has filled PhysCpuList from the tables of ACPI: a   *)
(* VCPU waits for wake-up, and the rest of it is zero.                     *)
Init ==
  /\ ActiveCpus = 0
  /\ WakeupLock = "notSignaled"
  /\ position = 1
  /\ currentNumberOfActiveCpus = 0
  /\ identityMapped = TRUE
  /\ initialStack = {Bsp}
  /\ pc = [c \in CPUs |-> IF c = Bsp THEN "boot" ELSE "off"]
  /\ activity = [c \in CPUs |-> "none"]
  /\ guestCS = [c \in CPUs |-> ZeroVector]
  /\ WaitingForWakeup = [c \in CPUs |-> TRUE]
  /\ ReceivedSIPI = [c \in CPUs |-> FALSE]
  /\ exitQualification = [c \in CPUs |-> ZeroVector]
  /\ initPending = [c \in CPUs |-> FALSE]
  /\ guestIpi = [c \in APs |-> 0]

-----------------------------------------------------------------------------
(* External: what an IPI does to the processor that receives it.           *)

(* INIT is blocked in VMX root and in the wait-for-SIPI activity state,    *)
(* makes any other guest exit, and resets a processor that is out of VMX.  *)
DeliverInit(a, sender, next) ==
  /\ IF At(a, "guest") /\ activity[a] # "waitForSIPI"
     THEN /\ pc' = [pc EXCEPT ![a] = "initExit", ![sender] = next]
          /\ UNCHANGED << initPending, initialStack >>
     ELSE IF pc[a] \in OutOfVmx
     THEN /\ pc' = [pc EXCEPT ![a] = "off", ![sender] = next]
          /\ initialStack' = initialStack \ {a}
          /\ UNCHANGED initPending
     ELSE /\ initPending' = [initPending EXCEPT ![a] = TRUE]
          /\ pc' = [pc EXCEPT ![sender] = next]
          /\ UNCHANGED initialStack

(* A SIPI starts a processor that INIT has reset, makes a guest in the     *)
(* wait-for-SIPI activity state exit, and is lost in any other state.      *)
DeliverSipi(a, vector, sender, next) ==
  LET exits == At(a, "guest") /\ activity[a] = "waitForSIPI"
      boots == At(a, "off") /\ vector = TrampolineSipiVector
  IN  /\ pc' = [pc EXCEPT ![sender] = next,
                   ![a] = IF exits THEN "sipiExit"
                          ELSE IF boots THEN "trampoline"
                          ELSE IF At(a, "off") THEN "bare" ELSE @]
      /\ initialStack' = IF boots THEN initialStack \cup {a} ELSE initialStack
      /\ exitQualification' =
           IF exits THEN [exitQualification EXCEPT ![a] = vector]
                    ELSE exitQualification

-----------------------------------------------------------------------------
(* The BSP                                                                 *)

(* ApicWakeUpCpus up to its loop.                                          *)
ApicWakeUpCpus ==
  /\ At(Bsp, "boot")
  /\ ActiveCpus' = 1
  /\ WakeupLock' = "notSignaled"
  /\ Goto(Bsp, "visit")
  /\ UNCHANGED << bspVars, initialStack, vcpuVars, ipiVars >>

(* _ApicCpuInitializationSequence on the BSP's own element: change stacks, *)
(* VMXON, VmxSetupVmcsStructures.                                          *)
SetUpBsp ==
  /\ At(Bsp, "visit")
  /\ Element = Bsp
  /\ initialStack' = initialStack \ {Bsp}
  /\ activity' = [activity EXCEPT ![Bsp] = "active"]
  /\ position' = position + 1
  /\ Goto(Bsp, "element")
  /\ UNCHANGED << ActiveCpus, WakeupLock, currentNumberOfActiveCpus,
                  identityMapped, guestCS, WaitingForWakeup, ReceivedSIPI,
                  ipiVars >>

ReadActiveCpus ==
  /\ At(Bsp, "element")
  /\ position <= Len(PhysCpuList)
  /\ currentNumberOfActiveCpus' = ActiveCpus
  /\ Goto(Bsp, "init")
  /\ UNCHANGED << ActiveCpus, WakeupLock, position, identityMapped,
                  initialStack, vcpuVars, ipiVars >>

SendInit ==
  /\ At(Bsp, "init")
  /\ DeliverInit(Element, Bsp, "sipi")
  /\ UNCHANGED << ActiveCpus, WakeupLock, bspVars, vcpuVars, exitQualification,
                  guestIpi >>

(* The two SIPIs with the trampoline's vector, each followed by PitSleep.  *)
SendSipi(from, to) ==
  /\ At(Bsp, from)
  /\ DeliverSipi(Element, TrampolineSipiVector, Bsp, to)
  /\ UNCHANGED << ActiveCpus, WakeupLock, bspVars, vcpuVars, initPending,
                  guestIpi >>

SendFirstSipi == SendSipi("sipi", "sipi2")
SendSecondSipi == SendSipi("sipi2", "wait")

(* Mutant: a notification event stays signaled.                            *)
EvtWaitForNotification ==
  /\ At(Bsp, "wait")
  /\ WakeupLock = "signaled"
  /\ Goto(Bsp, "assert")
  /\ UNCHANGED << ActiveCpus, WakeupLock, bspVars, initialStack, vcpuVars, ipiVars >>

(* EvtWaitForSignal on a synchronization event consumes the signal.        *)
EvtWaitForSignal ==
  /\ At(Bsp, "wait")
  /\ WakeupLock = "signaled"
  /\ WakeupLock' = "notSignaled"
  /\ Goto(Bsp, "assert")
  /\ UNCHANGED << ActiveCpus, bspVars, initialStack, vcpuVars, ipiVars >>

(* ASSERT(ActiveCpus == currentNumberOfActiveCpus + 1), next element.      *)
AssertOneMore ==
  /\ At(Bsp, "assert")
  /\ IF ActiveCpus = currentNumberOfActiveCpus + 1
     THEN position' = position + 1 /\ Goto(Bsp, "element")
     ELSE UNCHANGED position /\ Goto(Bsp, "panic")
  /\ UNCHANGED << ActiveCpus, WakeupLock, currentNumberOfActiveCpus,
                  identityMapped, initialStack, vcpuVars, ipiVars >>

(* The loop is over: UnmapPML4Entry(0) and UnmapMemory.                    *)
UnmapIdentity ==
  /\ At(Bsp, "element")
  /\ position > Len(PhysCpuList)
  /\ identityMapped' = FALSE
  /\ Goto(Bsp, "finish")
  /\ UNCHANGED << ActiveCpus, WakeupLock, position, currentNumberOfActiveCpus,
                  initialStack, vcpuVars, ipiVars >>

(* VmxStartGuest on the BSP.  The wait before it is never taken: it needs  *)
(* the preemption timer, which VM_CONTROL_PIN_BASED_CTLS leaves off.       *)
StartBspGuest ==
  /\ At(Bsp, "finish")
  /\ Goto(Bsp, "guest")
  /\ UNCHANGED << ActiveCpus, WakeupLock, bspVars, initialStack, vcpuVars, ipiVars >>

-----------------------------------------------------------------------------
(* An AP: ApicInitAPCpu                                                    *)

(* Find its PCPU and leave the initial stack, GS, FS, TSS and IDT.         *)
ChangeStack(a) ==
  /\ At(a, "trampoline")
  /\ initialStack' = initialStack \ {a}
  /\ Goto(a, "ownStack")
  /\ UNCHANGED << ActiveCpus, WakeupLock, bspVars, vcpuVars, ipiVars >>

(* Mutant: the AP counts itself before it has changed stacks.              *)
CountSelfEarly(a) ==
  /\ pc[a] \in {"trampoline", "ownStack"}
  /\ ActiveCpus' = ActiveCpus + 1
  /\ Goto(a, "counted")
  /\ UNCHANGED << WakeupLock, bspVars, initialStack, vcpuVars, ipiVars >>

CountSelf(a) ==
  /\ At(a, "ownStack")
  /\ ActiveCpus' = ActiveCpus + 1
  /\ Goto(a, "counted")
  /\ UNCHANGED << WakeupLock, bspVars, initialStack, vcpuVars, ipiVars >>

EvtSignal(a) ==
  /\ At(a, "counted")
  /\ WakeupLock' = "signaled"
  /\ Goto(a, "signalled")
  /\ UNCHANGED << ActiveCpus, bspVars, initialStack, vcpuVars, ipiVars >>

(* VmxCheckAndSetupCpu and VmxStartVmxOn.                                  *)
VmxStartVmxOn(a) ==
  /\ At(a, "signalled")
  /\ Goto(a, "vmxOn")
  /\ UNCHANGED << ActiveCpus, WakeupLock, bspVars, initialStack, vcpuVars, ipiVars >>

(* VmxSetupVmcsStructures, of which VmcsInitializeRegion's activity state. *)
VmxSetupVmcsStructures(a) ==
  /\ At(a, "vmxOn")
  /\ activity' = [activity EXCEPT ![a] = IF RunningNested THEN "hlt" ELSE "waitForSIPI"]
  /\ Goto(a, "launch")
  /\ UNCHANGED << ActiveCpus, WakeupLock, bspVars, initialStack, guestCS,
                  WaitingForWakeup, ReceivedSIPI, ipiVars >>

(* VMLAUNCH, and VMRESUME after an exit: an INIT blocked until now makes   *)
(* the guest exit at once, unless it waits for a SIPI.                     *)
EnterGuest(a, state) ==
  IF initPending[a] /\ state # "waitForSIPI"
  THEN Goto(a, "initExit") /\ initPending' = [initPending EXCEPT ![a] = FALSE]
  ELSE Goto(a, "guest") /\ UNCHANGED initPending

(* Under SipiSleepSuffices the BSP's second SIPI has gone by now.          *)
VmxStartGuest(a) ==
  /\ At(a, "launch")
  /\ SipiSleepSuffices => ~(At(Bsp, "sipi2") /\ Element = a)
  /\ EnterGuest(a, activity[a])
  /\ UNCHANGED << ActiveCpus, WakeupLock, bspVars, initialStack, vcpuVars,
                  exitQualification, guestIpi >>

-----------------------------------------------------------------------------
(* VM exits of an AP                                                       *)

(* Mutants: the vector of the exit is not used; the guest keeps waiting.   *)
SolveSIPIAtZero(a, qualification) ==
  /\ IF ReceivedSIPI[a]
     THEN UNCHANGED vcpuVars
     ELSE /\ guestCS' = [guestCS EXCEPT ![a] = ZeroVector]
          /\ activity' = [activity EXCEPT ![a] = "active"]
          /\ WaitingForWakeup' = [WaitingForWakeup EXCEPT ![a] = FALSE]
          /\ ReceivedSIPI' = [ReceivedSIPI EXCEPT ![a] = TRUE]
  /\ EnterGuest(a, activity'[a])

SolveSIPIAsleep(a, qualification) ==
  /\ guestCS' = [guestCS EXCEPT ![a] = qualification]
  /\ WaitingForWakeup' = [WaitingForWakeup EXCEPT ![a] = FALSE]
  /\ ReceivedSIPI' = [ReceivedSIPI EXCEPT ![a] = TRUE]
  /\ UNCHANGED activity
  /\ EnterGuest(a, activity[a])

(* VmExitSolveSIPI, then VmxResumeGuest.                                   *)
VmExitSolveSIPI(a, qualification) ==
  /\ IF ReceivedSIPI[a]
     THEN UNCHANGED vcpuVars
     ELSE /\ guestCS' = [guestCS EXCEPT ![a] =
                           IF RunningNested THEN ZeroVector ELSE qualification]
          /\ activity' = [activity EXCEPT ![a] = "active"]
          /\ WaitingForWakeup' = [WaitingForWakeup EXCEPT ![a] = FALSE]
          /\ ReceivedSIPI' = [ReceivedSIPI EXCEPT ![a] = TRUE]
  /\ EnterGuest(a, activity'[a])

SipiExit(a) ==
  /\ At(a, "sipiExit")
  /\ VmExitSolveSIPI(a, exitQualification[a])
  /\ UNCHANGED << ActiveCpus, WakeupLock, bspVars, initialStack,
                  exitQualification, guestIpi >>

(* VM_EXIT_INIT_SIGNAL: a pseudo-SIPI while the AP waits for its wake-up,  *)
(* nothing at all afterwards.                                              *)
InitExit(a) ==
  /\ At(a, "initExit")
  /\ IF WaitingForWakeup[a]
     THEN VmExitSolveSIPI(a, ZeroVector)
     ELSE EnterGuest(a, activity[a]) /\ UNCHANGED vcpuVars
  /\ UNCHANGED << ActiveCpus, WakeupLock, bspVars, initialStack,
                  exitQualification, guestIpi >>

-----------------------------------------------------------------------------
(* External: the guest on the BSP starts its APs as the MP protocol asks.  *)

GuestSendsInit(a) ==
  /\ At(Bsp, "guest")
  /\ guestIpi[a] = 0
  /\ DeliverInit(a, Bsp, "guest")
  /\ guestIpi' = [guestIpi EXCEPT ![a] = 1]
  /\ UNCHANGED << ActiveCpus, WakeupLock, bspVars, vcpuVars, exitQualification >>

GuestSendsSipi(a) ==
  /\ At(Bsp, "guest")
  /\ guestIpi[a] \in {1, 2}
  /\ DeliverSipi(a, GuestVector, Bsp, "guest")
  /\ guestIpi' = [guestIpi EXCEPT ![a] = @ + 1]
  /\ UNCHANGED << ActiveCpus, WakeupLock, bspVars, vcpuVars, initPending >>

-----------------------------------------------------------------------------

BspStep ==
  \/ ApicWakeUpCpus \/ SetUpBsp \/ ReadActiveCpus
  \/ SendInit \/ SendFirstSipi \/ SendSecondSipi
  \/ EvtWaitForSignal \/ AssertOneMore \/ UnmapIdentity \/ StartBspGuest

ApStep(a) ==
  \/ ChangeStack(a) \/ CountSelf(a) \/ EvtSignal(a)
  \/ VmxStartVmxOn(a) \/ VmxSetupVmcsStructures(a) \/ VmxStartGuest(a)
  \/ SipiExit(a) \/ InitExit(a)

GuestStep(a) == GuestSendsInit(a) \/ GuestSendsSipi(a)

Next == BspStep \/ \E a \in APs : ApStep(a) \/ GuestStep(a)

Spec == Init /\ [][Next]_vars

(* Every processor executes its next instruction eventually.  The guest    *)
(* owes nothing before it has sent the INIT.                               *)
FairSpec ==
  /\ Spec
  /\ WF_vars(BspStep)
  /\ \A a \in APs : WF_vars(ApStep(a)) /\ WF_vars(GuestSendsSipi(a))

-----------------------------------------------------------------------------

(* The BSP and every AP start on the same 8K stack: never two at a time    *)
(* (apic.c:121, 159, 207; _init32.yasm:384).                               *)
InitialStackAlone == Cardinality(initialStack) <= 1

(* Each wait of the BSP is ended by the AP it has just started, after that *)
(* AP was counted, so ASSERT(ActiveCpus == before + 1) holds (apic.c:161). *)
NoAssertFails == \A c \in CPUs : ~At(c, "panic")

(* No AP is still on its way through the identity-mapped trampoline when   *)
(* the BSP removes the identity mapping (init64.c:240).                    *)
IdentityMapStaysLongEnough == ~identityMapped => initialStack = {}

(* An AP that runs the operating system's code under the hypervisor runs   *)
(* it from the vector of that system's SIPI and not before it was sent     *)
(* (vmexit.c:350-358).                                                     *)
StartsAtGuestVector ==
  \A a \in APs :
    At(a, "guest") /\ activity[a] = "active"
      => guestCS[a] = GuestVector /\ guestIpi[a] >= 2

(* The wake-up of the APs ends and the system boots; an AP that had        *)
(* launched its guest before the guest's SIPI was sent runs the guest's    *)
(* code in the end, whenever the INIT before it came (apic.c:159,          *)
(* vmexit.c:164-175, 362).                                                 *)
EveryGuestStarts ==
  /\ <>At(Bsp, "guest")
  /\ \A a \in APs :
       At(a, "guest") /\ guestIpi[a] = 1
         ~> At(a, "guest") /\ activity[a] = "active"

=============================================================================
