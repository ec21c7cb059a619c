--------------------------- MODULE SmpBoot_proofs ---------------------------
(***************************************************************************)
(* Proofs about SmpBoot, for every list of processors.  What concerns the  *)
(* start-up of the machine is proved for every value of RunningNested and  *)
(* SipiSleepSuffices.                                                      *)
(***************************************************************************)
EXTENDS SmpBoot, TLAPS, FiniteSetTheorems

(* Where an AP is before it has launched its guest, in the BSP's wake-up.  *)
Uncounted == { "trampoline", "ownStack" }
Unsignalled == Uncounted \cup { "counted" }
Prelaunch == Unsignalled \cup { "signalled", "vmxOn", "launch" }
Launched == { "guest", "sipiExit", "initExit" }
Reset == { "off", "bare" }

BspLabels ==
  { "boot", "visit", "element", "init", "sipi", "sipi2", "wait", "assert",
    "finish", "guest" }
ApLabels == Prelaunch \cup Launched \cup Reset

TypeOK ==
  /\ ActiveCpus \in Nat /\ currentNumberOfActiveCpus \in Nat
  /\ WakeupLock \in { "notSignaled", "signaled" }
  /\ position \in 1 .. Len(PhysCpuList) + 1
  /\ identityMapped \in BOOLEAN
  /\ pc \in [CPUs -> BspLabels \cup ApLabels]
  /\ pc[Bsp] \in BspLabels
  /\ \A a \in APs : pc[a] \in ApLabels

-----------------------------------------------------------------------------

(* The BSP has woken this AP: it is done with it, or waits for it now.     *)
Passed(a) == \E i \in 1 .. position - 1 : PhysCpuList[i] = a
Awaited(a) == pc[Bsp] \in { "sipi2", "wait", "assert" } /\ Element = a

(* The position of the BSP in its loop.                                    *)
BspInLoop ==
  /\ pc[Bsp] \in { "boot", "visit" } => position = 1
  /\ pc[Bsp] \in { "init", "sipi", "sipi2", "wait", "assert" }
       => position \in 2 .. Len(PhysCpuList)
  /\ pc[Bsp] = "element" => position \in 2 .. Len(PhysCpuList) + 1
  /\ pc[Bsp] \in { "finish", "guest" } => position = Len(PhysCpuList) + 1
  /\ ~ identityMapped => pc[Bsp] \in { "finish", "guest" }

(* One AP at a time is on its way; those the BSP has passed have signalled *)
(* it, those ahead of it are off.  Only the guest can reset one.           *)
OneAtATime ==
  \A a \in APs :
    /\ Awaited(a) => pc[a] \in Prelaunch \cup Launched
    /\ Passed(a) =>
         pc[a] \in { "signalled", "vmxOn", "launch" } \cup Launched
                   \cup (IF pc[Bsp] = "guest" THEN Reset ELSE {})
    /\ ~ Passed(a) /\ ~ Awaited(a) =>
         pc[a] \in {"off"} \cup (IF pc[Bsp] = "guest" THEN Reset ELSE {})

(* The signal is the awaited AP's, given after that AP was counted.        *)
SignalIsItsOwn ==
  /\ WakeupLock = "signaled" =>
       pc[Bsp] \in { "sipi2", "wait" } /\ pc[Element] \notin Unsignalled
  /\ pc[Bsp] = "assert" => pc[Element] \notin Unsignalled

CountIsExact ==
  /\ pc[Bsp] = "visit" => ActiveCpus = 1
  /\ pc[Bsp] \in { "element", "init", "sipi" } => ActiveCpus = position - 1
  /\ pc[Bsp] \in { "sipi2", "wait", "assert" } =>
       ActiveCpus = IF pc[Element] \in Uncounted THEN position - 1 ELSE position
  /\ pc[Bsp] \in { "init", "sipi", "sipi2", "wait", "assert" } =>
       currentNumberOfActiveCpus = position - 1

(* Who is on the initial stack is told by where the processors are.        *)
StackUsers ==
  initialStack =
    { a \in APs : pc[a] = "trampoline" }
      \cup (IF pc[Bsp] \in { "boot", "visit" } THEN {Bsp} ELSE {})

BootInv ==
  /\ TypeOK /\ BspInLoop /\ OneAtATime /\ SignalIsItsOwn /\ CountIsExact
  /\ StackUsers

-----------------------------------------------------------------------------

(* What the wake-up code believes of an AP that runs no guest code yet.    *)
NoGuestYet == Prelaunch \cup Reset

(* The VCPU of an AP until the guest's SIPI, and from then on.             *)
VcpuOf(a) ==
  /\ activity[a] = "active" <=> ReceivedSIPI[a]
  /\ WaitingForWakeup[a] <=> ~ ReceivedSIPI[a]
  /\ ReceivedSIPI[a] => guestCS[a] = GuestVector /\ guestIpi[a] >= 2
  /\ pc[a] \in NoGuestYet => ~ ReceivedSIPI[a]
  /\ pc[a] \in { "launch", "guest", "sipiExit" } =>
       activity[a] \in { "waitForSIPI", "active" }
  /\ pc[a] = "initExit" => ReceivedSIPI[a]
  /\ pc[a] = "sipiExit" => exitQualification[a] = GuestVector /\ guestIpi[a] >= 2
  /\ pc[Bsp] = "sipi2" /\ Element = a => pc[a] \in Prelaunch

VcpuTypeOK ==
  /\ activity \in [CPUs -> { "none", "hlt", "waitForSIPI", "active" }]
  /\ guestCS \in [CPUs -> { ZeroVector, GuestVector, TrampolineSipiVector }]
  /\ exitQualification \in [CPUs -> { ZeroVector, GuestVector, TrampolineSipiVector }]
  /\ WaitingForWakeup \in [CPUs -> BOOLEAN]
  /\ ReceivedSIPI \in [CPUs -> BOOLEAN]
  /\ initPending \in [CPUs -> BOOLEAN]
  /\ guestIpi \in [APs -> 0 .. 3]

VectorInv == VcpuTypeOK /\ \A a \in APs : VcpuOf(a)

-----------------------------------------------------------------------------

(* The list names processors, each once, the boot processor first.         *)
LEMMA ListFacts ==
  /\ Len(PhysCpuList) \in Nat /\ Len(PhysCpuList) >= 1
  /\ \A i \in 1 .. Len(PhysCpuList) : PhysCpuList[i] \in CPUs
  /\ \A i, j \in 1 .. Len(PhysCpuList) : PhysCpuList[i] = PhysCpuList[j] => i = j
  /\ PhysCpuList[1] = Bsp
<1>1. PICK s \in SUBSET CPUs : PhysCpuList \in SetToSeqs(s)
  BY SmpAssumption DEF SetToAllKPermutations
<1>2. IsFiniteSet(s) /\ Cardinality(s) \in Nat
  BY <1>1, SmpAssumption, FS_Subset, FS_CardinalityType
<1>3. /\ PhysCpuList \in [1 .. Cardinality(s) -> s]
      /\ \A i, j \in 1 .. Cardinality(s) : i # j => PhysCpuList[i] # PhysCpuList[j]
  BY <1>1 DEF SetToSeqs
<1>4. PhysCpuList \in Seq(s) /\ Len(PhysCpuList) = Cardinality(s)
  BY <1>2, <1>3
<1>5. Cardinality(CPUs) # 0
  BY SmpAssumption, FS_EmptySet
<1>6. QED
  BY <1>1, <1>2, <1>3, <1>4, <1>5, SmpAssumption

(* The element the BSP wakes is an AP it has not passed.                   *)
LEMMA ElementIsAhead ==
  ASSUME position \in 2 .. Len(PhysCpuList)
  PROVE  Element \in APs /\ ~ Passed(Element)
  BY ListFacts DEF Element, APs, Passed

LEMMA PassedGrows ==
  ASSUME position \in 1 .. Len(PhysCpuList), position' = position + 1, NEW a
  PROVE  Passed(a)' <=> Passed(a) \/ a = Element
<1>1. \A i \in 1 .. position' - 1 : i \in 1 .. position - 1 \/ i = position
  BY ListFacts
<1>2. 1 .. position - 1 \subseteq 1 .. position' - 1 /\ position \in 1 .. position' - 1
  BY ListFacts
<1>3. QED
  BY <1>1, <1>2 DEF Passed, Element

LEMMA PassedStays ==
  ASSUME position' = position, NEW a
  PROVE  (Passed(a)' <=> Passed(a)) /\ Element' = Element
  BY DEF Passed, Element

-----------------------------------------------------------------------------

(* The steps of the BSP that leave every AP where it is.                   *)
BspAlone ==
  \/ ApicWakeUpCpus \/ SetUpBsp \/ ReadActiveCpus
  \/ EvtWaitForSignal \/ AssertOneMore \/ UnmapIdentity \/ StartBspGuest

LEMMA BspAloneKeepsInv ==
  ASSUME BootInv, BspAlone
  PROVE  BootInv'
<1> USE DEF BootInv, TypeOK
<1>1. \A a \in APs : a \in CPUs /\ a # Bsp /\ pc'[a] = pc[a]
  BY DEF APs, BspAlone, ApicWakeUpCpus, SetUpBsp, ReadActiveCpus, EvtWaitForSignal,
         AssertOneMore, UnmapIdentity, StartBspGuest, Goto
<1>2. Bsp \in CPUs
  BY SmpAssumption
<1> USE ListFacts
<1>3. CASE ApicWakeUpCpus
  <2>1. /\ pc[Bsp] = "boot" /\ pc'[Bsp] = "visit" /\ ActiveCpus' = 1
        /\ WakeupLock' = "notSignaled" /\ UNCHANGED << bspVars, initialStack >>
    BY <1>2, <1>3 DEF ApicWakeUpCpus, At, Goto
  <2>2. TypeOK' /\ BspInLoop'
    BY <1>1, <1>3, <2>1 DEF ApicWakeUpCpus, Goto, BspLabels, BspInLoop, bspVars
  <2>3. OneAtATime'
    BY <1>1, <2>1, PassedStays DEF OneAtATime, Awaited, bspVars
  <2>4. SignalIsItsOwn' /\ CountIsExact' /\ StackUsers'
    BY <1>1, <2>1 DEF SignalIsItsOwn, CountIsExact, StackUsers
  <2>5. QED
    BY <2>2, <2>3, <2>4
<1>4. CASE SetUpBsp
  <2>1. /\ pc[Bsp] = "visit" /\ pc'[Bsp] = "element" /\ Element = Bsp
        /\ position' = position + 1 /\ position = 1
        /\ initialStack' = initialStack \ {Bsp}
        /\ UNCHANGED << ActiveCpus, WakeupLock, currentNumberOfActiveCpus, identityMapped >>
    BY <1>2, <1>4 DEF SetUpBsp, At, Goto, BspInLoop
  <2>2. TypeOK' /\ BspInLoop'
    BY <1>1, <1>4, <2>1 DEF SetUpBsp, Goto, BspLabels, BspInLoop
  <2>3. OneAtATime'
    BY <1>1, <2>1, PassedGrows DEF OneAtATime, Awaited
  <2>4. SignalIsItsOwn' /\ CountIsExact' /\ StackUsers'
    BY <1>1, <2>1 DEF SignalIsItsOwn, CountIsExact, StackUsers
  <2>5. QED
    BY <2>2, <2>3, <2>4
<1>5. CASE ReadActiveCpus
  <2>1. /\ pc[Bsp] = "element" /\ pc'[Bsp] = "init" /\ position <= Len(PhysCpuList)
        /\ currentNumberOfActiveCpus' = ActiveCpus
        /\ UNCHANGED << ActiveCpus, WakeupLock, position, identityMapped, initialStack >>
    BY <1>2, <1>5 DEF ReadActiveCpus, At, Goto
  <2>2. TypeOK' /\ BspInLoop'
    BY <1>1, <1>5, <2>1 DEF ReadActiveCpus, Goto, BspLabels, BspInLoop
  <2>3. OneAtATime'
    BY <1>1, <2>1, PassedStays DEF OneAtATime, Awaited
  <2>4. SignalIsItsOwn' /\ CountIsExact' /\ StackUsers'
    BY <1>1, <2>1 DEF SignalIsItsOwn, CountIsExact, StackUsers
  <2>5. QED
    BY <2>2, <2>3, <2>4
<1>6. CASE EvtWaitForSignal
  <2>1. /\ pc[Bsp] = "wait" /\ pc'[Bsp] = "assert" /\ WakeupLock = "signaled"
        /\ WakeupLock' = "notSignaled"
        /\ UNCHANGED << ActiveCpus, bspVars, initialStack >>
    BY <1>2, <1>6 DEF EvtWaitForSignal, At, Goto
  <2>2. TypeOK' /\ BspInLoop'
    BY <1>1, <1>6, <2>1 DEF EvtWaitForSignal, Goto, BspLabels, BspInLoop, bspVars
  <2>3. Element' = Element /\ Element \in APs /\ pc'[Element] = pc[Element]
    BY <1>1, <2>1, ElementIsAhead, PassedStays DEF BspInLoop, bspVars
  <2>4. OneAtATime'
    BY <1>1, <2>1, <2>3, PassedStays DEF OneAtATime, Awaited, bspVars
  <2>5. SignalIsItsOwn' /\ CountIsExact' /\ StackUsers'
    BY <1>1, <2>1, <2>3 DEF SignalIsItsOwn, CountIsExact, StackUsers, bspVars,
                            Unsignalled
  <2>6. QED
    BY <2>2, <2>4, <2>5
<1>7. CASE AssertOneMore
  <2>1. pc[Bsp] = "assert" /\ pc[Element] \notin Unsignalled
    BY <1>7 DEF AssertOneMore, At, SignalIsItsOwn
  <2>2. Element \in APs /\ ActiveCpus = currentNumberOfActiveCpus + 1
        /\ ActiveCpus = position
    BY <2>1, ElementIsAhead DEF BspInLoop, CountIsExact, Unsignalled
  <2>3. /\ pc'[Bsp] = "element" /\ position' = position + 1
        /\ UNCHANGED << ActiveCpus, WakeupLock, currentNumberOfActiveCpus,
                        identityMapped, initialStack >>
    BY <1>2, <1>7, <2>2 DEF AssertOneMore, Goto
  <2>4. TypeOK' /\ BspInLoop'
    BY <1>1, <1>7, <2>1, <2>2, <2>3 DEF AssertOneMore, Goto, BspLabels, BspInLoop
  <2>5. pc[Element] \in { "signalled", "vmxOn", "launch" } \cup Launched
    BY <2>1, <2>2 DEF OneAtATime, Awaited, Prelaunch, Unsignalled
  <2>6. OneAtATime'
    BY <1>1, <2>1, <2>3, <2>5, PassedGrows DEF OneAtATime, Awaited, BspInLoop
  <2>7. SignalIsItsOwn' /\ CountIsExact' /\ StackUsers'
    BY <1>1, <2>1, <2>2, <2>3 DEF SignalIsItsOwn, CountIsExact, StackUsers
  <2>8. QED
    BY <2>4, <2>6, <2>7
<1>8. CASE UnmapIdentity
  <2>1. /\ pc[Bsp] = "element" /\ pc'[Bsp] = "finish" /\ position > Len(PhysCpuList)
        /\ identityMapped' = FALSE
        /\ UNCHANGED << ActiveCpus, WakeupLock, position, currentNumberOfActiveCpus,
                        initialStack >>
    BY <1>2, <1>8 DEF UnmapIdentity, At, Goto
  <2>2. TypeOK' /\ BspInLoop'
    <3>1. position = Len(PhysCpuList) + 1
      BY <2>1
    <3>2. TypeOK'
      BY <1>1, <1>8, <2>1 DEF UnmapIdentity, Goto, BspLabels
    <3>3. BspInLoop'
      BY <2>1, <3>1 DEF BspInLoop
    <3>4. QED
      BY <3>2, <3>3
  <2>3. OneAtATime'
    BY <1>1, <2>1, PassedStays DEF OneAtATime, Awaited
  <2>4. SignalIsItsOwn' /\ CountIsExact' /\ StackUsers'
    BY <1>1, <2>1 DEF SignalIsItsOwn, CountIsExact, StackUsers
  <2>5. QED
    BY <2>2, <2>3, <2>4
<1>9. CASE StartBspGuest
  <2>1. /\ pc[Bsp] = "finish" /\ pc'[Bsp] = "guest"
        /\ UNCHANGED << ActiveCpus, WakeupLock, bspVars, initialStack >>
    BY <1>2, <1>9 DEF StartBspGuest, At, Goto
  <2>2. TypeOK' /\ BspInLoop'
    BY <1>1, <1>9, <2>1 DEF StartBspGuest, Goto, BspLabels, BspInLoop, bspVars
  <2>3. OneAtATime'
    BY <1>1, <2>1, PassedStays DEF OneAtATime, Awaited, bspVars
  <2>4. SignalIsItsOwn' /\ CountIsExact' /\ StackUsers'
    BY <1>1, <2>1 DEF SignalIsItsOwn, CountIsExact, StackUsers
  <2>5. QED
    BY <2>2, <2>3, <2>4
<1>10. QED
  BY <1>3, <1>4, <1>5, <1>6, <1>7, <1>8, <1>9 DEF BspAlone

(* The IPIs of the wake-up: they reach the element the BSP is at.          *)
LEMMA SendsKeepInv ==
  ASSUME BootInv, SendInit \/ SendFirstSipi \/ SendSecondSipi
  PROVE  BootInv'
<1> USE DEF BootInv, TypeOK
<1>1. Bsp \in CPUs /\ position \in 2 .. Len(PhysCpuList)
  BY SmpAssumption
     DEF SendInit, SendFirstSipi, SendSecondSipi, SendSipi, At, BspInLoop
<1>2. Element \in APs /\ ~ Passed(Element) /\ Element \in CPUs /\ Element # Bsp
  BY <1>1, ElementIsAhead DEF APs
<1>3. UNCHANGED << ActiveCpus, WakeupLock, bspVars >>
  BY DEF SendInit, SendFirstSipi, SendSecondSipi, SendSipi
<1>4. /\ Element' = Element
      /\ \A a \in APs : Passed(a)' <=> Passed(a)
  BY <1>3, PassedStays DEF bspVars
<1>5. \A a \in APs \ {Element} : pc'[a] = pc[a]
  BY DEF APs, SendInit, SendFirstSipi, SendSecondSipi, SendSipi, DeliverInit, DeliverSipi
<1>6. CASE SendInit
  <2>1. pc[Bsp] = "init" /\ pc[Element] = "off"
    BY <1>2, <1>6 DEF SendInit, At, OneAtATime, Awaited
  <2>2. /\ pc' = [pc EXCEPT ![Element] = "off", ![Bsp] = "sipi"]
        /\ initialStack' = initialStack \ {Element}
    BY <1>6, <2>1 DEF SendInit, DeliverInit, At, OutOfVmx
  <2>3. pc'[Bsp] = "sipi" /\ pc'[Element] = "off"
    BY <1>1, <1>2, <2>2
  <2>4. TypeOK'
    BY <1>1, <1>2, <1>3, <1>5, <2>2, <2>3 DEF BspLabels, ApLabels, Reset, bspVars
  <2>5. BspInLoop'
    BY <1>1, <1>3, <2>1, <2>3 DEF BspInLoop, bspVars
  <2>6. OneAtATime'
    BY <1>2, <1>4, <1>5, <2>1, <2>3 DEF OneAtATime, Awaited
  <2>7. SignalIsItsOwn' /\ CountIsExact'
    BY <1>3, <2>1, <2>3 DEF SignalIsItsOwn, CountIsExact, bspVars
  <2>8. StackUsers'
    BY <1>2, <1>5, <2>1, <2>2, <2>3 DEF StackUsers, APs
  <2>9. QED
    BY <2>4, <2>5, <2>6, <2>7, <2>8
<1>7. CASE SendFirstSipi
  <2>1. pc[Bsp] = "sipi" /\ pc[Element] = "off"
    BY <1>2, <1>7 DEF SendFirstSipi, SendSipi, At, OneAtATime, Awaited
  <2>2. /\ pc' = [pc EXCEPT ![Bsp] = "sipi2", ![Element] = "trampoline"]
        /\ initialStack' = initialStack \cup {Element}
    BY <1>7, <2>1 DEF SendFirstSipi, SendSipi, DeliverSipi, At
  <2>3. pc'[Bsp] = "sipi2" /\ pc'[Element] = "trampoline"
    BY <1>1, <1>2, <2>2
  <2>4. TypeOK'
    BY <1>1, <1>2, <1>3, <1>5, <2>2, <2>3
       DEF BspLabels, ApLabels, Prelaunch, Unsignalled, Uncounted, bspVars
  <2>5. BspInLoop'
    BY <1>1, <1>3, <2>1, <2>3 DEF BspInLoop, bspVars
  <2>6. OneAtATime'
    BY <1>2, <1>4, <1>5, <2>1, <2>3
       DEF OneAtATime, Awaited, Prelaunch, Unsignalled, Uncounted
  <2>7. SignalIsItsOwn' /\ CountIsExact'
    BY <1>3, <1>4, <2>1, <2>3 DEF SignalIsItsOwn, CountIsExact, Uncounted, bspVars
  <2>8. StackUsers'
    BY <1>2, <1>5, <2>1, <2>2, <2>3 DEF StackUsers, APs
  <2>9. QED
    BY <2>4, <2>5, <2>6, <2>7, <2>8
<1>8. CASE SendSecondSipi
  <2>1. pc[Bsp] = "sipi2" /\ pc[Element] \in Prelaunch \cup Launched
    BY <1>2, <1>8 DEF SendSecondSipi, SendSipi, At, OneAtATime, Awaited
  <2>2. pc[Element] # "off"
    BY <2>1 DEF Prelaunch, Unsignalled, Uncounted, Launched
  <2>3. /\ pc'[Bsp] = "wait" /\ initialStack' = initialStack
        /\ \/ pc'[Element] = pc[Element]
           \/ pc[Element] = "guest" /\ pc'[Element] = "sipiExit"
    BY <1>1, <1>2, <1>8, <2>2 DEF SendSecondSipi, SendSipi, DeliverSipi, At
  <2>4. pc' \in [CPUs -> BspLabels \cup ApLabels]
    BY <1>1, <1>2, <1>8 DEF SendSecondSipi, SendSipi, DeliverSipi, BspLabels, ApLabels,
                            Prelaunch, Unsignalled, Uncounted, Launched, Reset
  <2>5. TypeOK'
    BY <1>1, <1>2, <1>3, <1>5, <2>3, <2>4
       DEF BspLabels, ApLabels, Launched, bspVars
  <2>6. BspInLoop'
    BY <1>1, <1>3, <2>1, <2>3 DEF BspInLoop, bspVars
  <2>7. OneAtATime'
    BY <1>2, <1>4, <1>5, <2>1, <2>3 DEF OneAtATime, Awaited, Launched
  <2>8. pc'[Element'] \in Unsignalled <=> pc[Element] \in Unsignalled
    BY <1>4, <2>3 DEF Unsignalled, Uncounted
  <2>9. pc'[Element'] \in Uncounted <=> pc[Element] \in Uncounted
    BY <1>4, <2>3 DEF Uncounted
  <2>10. SignalIsItsOwn' /\ CountIsExact'
    BY <1>3, <2>1, <2>3, <2>8, <2>9 DEF SignalIsItsOwn, CountIsExact, bspVars
  <2>11. StackUsers'
    BY <1>2, <1>5, <2>1, <2>3 DEF StackUsers, APs
  <2>12. QED
    BY <2>5, <2>6, <2>7, <2>10, <2>11
<1>9. QED
  BY <1>6, <1>7, <1>8

-----------------------------------------------------------------------------

(* A step of AP a that moves nothing but a, past the signal.               *)
LateStep(a) ==
  /\ pc[a] \in { "signalled", "vmxOn", "launch", "sipiExit", "initExit" }
  /\ pc'[a] \in { "vmxOn", "launch", "guest", "initExit" }
  /\ pc' = [pc EXCEPT ![a] = pc'[a]]
  /\ UNCHANGED << ActiveCpus, WakeupLock, initialStack >>

LEMMA LateSteps ==
  ASSUME TypeOK, NEW a \in APs,
         \/ VmxStartVmxOn(a) \/ VmxSetupVmcsStructures(a) \/ VmxStartGuest(a)
         \/ SipiExit(a) \/ InitExit(a)
  PROVE  LateStep(a) /\ UNCHANGED bspVars
<1>1. a \in CPUs
  BY DEF APs
<1>2. CASE VmxStartVmxOn(a) \/ VmxSetupVmcsStructures(a)
  BY <1>1, <1>2 DEF VmxStartVmxOn, VmxSetupVmcsStructures, TypeOK, LateStep, Goto, At
<1>3. CASE VmxStartGuest(a)
  BY <1>1, <1>3 DEF VmxStartGuest, EnterGuest, TypeOK, LateStep, Goto, At
<1>4. CASE SipiExit(a)
  BY <1>1, <1>4 DEF SipiExit, VmExitSolveSIPI, EnterGuest, TypeOK, LateStep, Goto, At
<1>5. CASE InitExit(a)
  BY <1>1, <1>5 DEF InitExit, VmExitSolveSIPI, EnterGuest, TypeOK, LateStep, Goto, At
<1>6. QED
  BY <1>2, <1>3, <1>4, <1>5

LEMMA ApKeepsInv ==
  ASSUME BootInv, NEW a \in APs, ApStep(a)
  PROVE  BootInv'
<1> USE DEF BootInv, TypeOK
<1>1. Bsp \in CPUs /\ a \in CPUs /\ a # Bsp
  BY SmpAssumption DEF APs
<1>2. UNCHANGED bspVars /\ pc' = [pc EXCEPT ![a] = pc'[a]]
  BY <1>1, LateSteps DEF ApStep, ChangeStack, CountSelf, EvtSignal, Goto, LateStep
<1>3. pc'[Bsp] = pc[Bsp] /\ \A b \in APs \ {a} : pc'[b] = pc[b]
  BY <1>1, <1>2 DEF APs
<1>4. /\ Element' = Element
      /\ \A b \in APs : (Passed(b)' <=> Passed(b)) /\ (Awaited(b)' <=> Awaited(b))
  BY <1>2, <1>3, PassedStays DEF Awaited, bspVars
<1>5. BspInLoop'
  BY <1>2, <1>3 DEF BspInLoop, bspVars
<1>6. pc[Bsp] \in { "sipi2", "wait", "assert" } => Element \in APs
  BY ElementIsAhead DEF BspInLoop
<1>7. CASE ChangeStack(a)
  <2>1. /\ pc[a] = "trampoline" /\ pc'[a] = "ownStack"
        /\ initialStack' = initialStack \ {a}
        /\ UNCHANGED << ActiveCpus, WakeupLock >>
    BY <1>1, <1>7 DEF ChangeStack, At, Goto
  <2>2. TypeOK'
    BY <1>1, <1>2, <1>3, <2>1 DEF ApLabels, Prelaunch, Unsignalled, Uncounted, bspVars
  <2>3. OneAtATime'
    BY <1>3, <1>4, <2>1
       DEF OneAtATime, Prelaunch, Unsignalled, Uncounted, Launched, Reset
  <2>4. SignalIsItsOwn' /\ CountIsExact'
    BY <1>2, <1>3, <1>4, <1>6, <2>1
       DEF SignalIsItsOwn, CountIsExact, Unsignalled, Uncounted, bspVars
  <2>5. StackUsers'
    BY <1>1, <1>3, <2>1 DEF StackUsers
  <2>6. QED
    BY <1>5, <2>2, <2>3, <2>4, <2>5
<1>8. CASE CountSelf(a)
  <2>1. /\ pc[a] = "ownStack" /\ pc'[a] = "counted" /\ ActiveCpus' = ActiveCpus + 1
        /\ UNCHANGED << WakeupLock, initialStack >>
    BY <1>1, <1>8 DEF CountSelf, At, Goto
  <2>2. Awaited(a)
    BY <2>1 DEF OneAtATime, Launched, Reset
  <2>3. TypeOK'
    BY <1>1, <1>2, <1>3, <2>1 DEF ApLabels, Prelaunch, Unsignalled, bspVars
  <2>4. OneAtATime'
    BY <1>3, <1>4, <2>1
       DEF OneAtATime, Prelaunch, Unsignalled, Uncounted, Launched, Reset
  <2>5. SignalIsItsOwn' /\ CountIsExact'
    BY <1>2, <1>3, <1>4, <2>1, <2>2
       DEF SignalIsItsOwn, CountIsExact, Unsignalled, Uncounted, Awaited, bspVars
  <2>6. StackUsers'
    BY <1>1, <1>3, <2>1 DEF StackUsers
  <2>7. QED
    BY <1>5, <2>3, <2>4, <2>5, <2>6
<1>9. CASE EvtSignal(a)
  <2>1. /\ pc[a] = "counted" /\ pc'[a] = "signalled" /\ WakeupLock' = "signaled"
        /\ UNCHANGED << ActiveCpus, initialStack >>
    BY <1>1, <1>9 DEF EvtSignal, At, Goto
  <2>2. Awaited(a) /\ pc[Bsp] # "assert"
    BY <2>1 DEF OneAtATime, Launched, Reset, Awaited, SignalIsItsOwn, Unsignalled
  <2>3. TypeOK'
    BY <1>1, <1>2, <1>3, <2>1 DEF ApLabels, Prelaunch, bspVars
  <2>4. OneAtATime'
    BY <1>3, <1>4, <2>1, <2>2 DEF OneAtATime, Prelaunch, Unsignalled, Uncounted, Launched, Reset
  <2>5. SignalIsItsOwn' /\ CountIsExact'
    BY <1>2, <1>3, <1>4, <2>1, <2>2
       DEF SignalIsItsOwn, CountIsExact, Unsignalled, Uncounted, Awaited, bspVars
  <2>6. StackUsers'
    BY <1>1, <1>3, <2>1 DEF StackUsers
  <2>7. QED
    BY <1>5, <2>3, <2>4, <2>5, <2>6
<1>10. CASE LateStep(a)
  <2>1. TypeOK'
    BY <1>1, <1>2, <1>3, <1>10 DEF LateStep, ApLabels, Prelaunch, Launched, bspVars
  <2>2. OneAtATime'
    BY <1>3, <1>4, <1>10
       DEF OneAtATime, LateStep, Prelaunch, Unsignalled, Uncounted, Launched, Reset
  <2>3. SignalIsItsOwn' /\ CountIsExact'
    BY <1>2, <1>3, <1>4, <1>6, <1>10
       DEF LateStep, SignalIsItsOwn, CountIsExact, Unsignalled, Uncounted, bspVars
  <2>4. StackUsers'
    BY <1>1, <1>3, <1>10 DEF StackUsers, LateStep
  <2>5. QED
    BY <1>5, <2>1, <2>2, <2>3, <2>4
<1>11. QED
  BY <1>7, <1>8, <1>9, <1>10, LateSteps DEF ApStep

(* The guest's IPIs can reset an AP, but none that is in the wake-up.      *)
LEMMA GuestKeepsInv ==
  ASSUME BootInv, NEW a \in APs, GuestStep(a)
  PROVE  BootInv'
<1> USE DEF BootInv, TypeOK
<1>1. Bsp \in CPUs /\ a \in CPUs /\ a # Bsp
  BY SmpAssumption DEF APs
<1>2. /\ pc[Bsp] = "guest" /\ UNCHANGED << ActiveCpus, WakeupLock, bspVars >>
  BY DEF GuestStep, GuestSendsInit, GuestSendsSipi, At
<1>3. /\ pc'[Bsp] = "guest" /\ \A b \in APs \ {a} : pc'[b] = pc[b]
      /\ pc' \in [CPUs -> BspLabels \cup ApLabels]
  <2> {"guest", "off", "bare", "initExit", "sipiExit", "trampoline"}
        \subseteq BspLabels \cup ApLabels
    BY DEF BspLabels, ApLabels, Prelaunch, Unsignalled, Uncounted, Launched, Reset
  <2>1. CASE GuestSendsInit(a)
    BY <1>1, <1>2, <2>1 DEF GuestSendsInit, DeliverInit, APs
  <2>2. CASE GuestSendsSipi(a)
    <3>1. \E l \in {"sipiExit", "trampoline", "bare", pc[a]} :
             pc' = [pc EXCEPT ![Bsp] = "guest", ![a] = l]
      BY <1>1, <1>2, <2>2 DEF GuestSendsSipi, DeliverSipi
    <3>2. QED
      BY <1>1, <1>2, <3>1 DEF APs
  <2>3. QED
    BY <2>1, <2>2 DEF GuestStep
<1>4. pc[a] \in { "signalled", "vmxOn", "launch" } \cup Launched \cup Reset
  BY <1>2 DEF OneAtATime, Awaited, Reset
<1>5. GuestVector # TrampolineSipiVector
  BY DEF GuestVector, TrampolineSipiVector
<1>6. /\ pc'[a] \in Reset \cup {"sipiExit", "initExit"} \/ pc'[a] = pc[a]
      /\ initialStack' \in { initialStack, initialStack \ {a} }
      /\ pc[a] \in Reset => pc'[a] \in Reset
  <2>1. CASE GuestSendsInit(a)
    BY <1>1, <1>2, <2>1 DEF GuestSendsInit, DeliverInit, At, Reset, OutOfVmx
  <2>2. CASE GuestSendsSipi(a)
    BY <1>1, <1>2, <1>5, <2>2 DEF GuestSendsSipi, DeliverSipi, At, Reset
  <2>3. QED
    BY <2>1, <2>2 DEF GuestStep
<1>7. /\ \A b \in APs : Passed(b)' <=> Passed(b)
      /\ \A b \in APs : ~ Awaited(b) /\ ~ Awaited(b)'
  BY <1>2, <1>3, PassedStays DEF Awaited, bspVars
<1>8. TypeOK'
  BY <1>2, <1>3, <1>6 DEF ApLabels, Launched, Reset, BspLabels, bspVars
<1>9. BspInLoop'
  BY <1>2, <1>3 DEF BspInLoop, bspVars
<1>10. OneAtATime'
  <2>1. ~ Passed(a) => pc[a] \in Reset
    BY <1>2, <1>7 DEF OneAtATime, Reset
  <2>2. /\ Passed(a)' =>
             pc'[a] \in { "signalled", "vmxOn", "launch" } \cup Launched \cup Reset
        /\ ~ Passed(a)' => pc'[a] \in Reset
    BY <1>4, <1>6, <1>7, <2>1 DEF Launched
  <2>3. QED
    BY <1>2, <1>3, <1>7, <2>2 DEF OneAtATime
<1>11. SignalIsItsOwn' /\ CountIsExact'
  BY <1>2, <1>3 DEF SignalIsItsOwn, CountIsExact
<1>12. StackUsers'
  <2>1. a \notin initialStack /\ initialStack' = initialStack
    BY <1>1, <1>4, <1>6 DEF StackUsers, Launched, Reset
  <2>2. pc[a] # "trampoline" /\ pc'[a] # "trampoline"
    BY <1>4, <1>6 DEF Launched, Reset
  <2>3. QED
    BY <1>2, <1>3, <2>1, <2>2 DEF StackUsers
<1>13. QED
  BY <1>8, <1>9, <1>10, <1>11, <1>12

LEMMA BootInvInit == Init => BootInv
<1> SUFFICES ASSUME Init PROVE BootInv
  OBVIOUS
<1>1. Bsp \in CPUs /\ \A a \in APs : a \in CPUs /\ a # Bsp
  BY SmpAssumption DEF APs
<1>2. pc[Bsp] = "boot" /\ \A a \in APs : pc[a] = "off"
  BY <1>1 DEF Init
<1>3. TypeOK
  BY <1>1, <1>2, ListFacts DEF Init, TypeOK, BspLabels, ApLabels, Reset
<1>4. BspInLoop /\ OneAtATime
  BY <1>2 DEF Init, BspInLoop, OneAtATime, Awaited, Passed
<1>5. SignalIsItsOwn /\ CountIsExact /\ StackUsers
  BY <1>1, <1>2 DEF Init, SignalIsItsOwn, CountIsExact, StackUsers
<1>6. QED
  BY <1>3, <1>4, <1>5 DEF BootInv

LEMMA BootInvStep == BootInv /\ [Next]_vars => BootInv'
<1> SUFFICES ASSUME BootInv, [Next]_vars PROVE BootInv'
  OBVIOUS
<1>1. CASE BspStep
  BY <1>1, BspAloneKeepsInv, SendsKeepInv DEF BspStep, BspAlone
<1>2. CASE \E a \in APs : ApStep(a) \/ GuestStep(a)
  BY <1>2, ApKeepsInv, GuestKeepsInv
<1>3. CASE UNCHANGED vars
  <2>1. /\ UNCHANGED << pc, ActiveCpus, WakeupLock, initialStack, position,
                        currentNumberOfActiveCpus, identityMapped >>
        /\ Element' = Element
        /\ \A a \in APs : (Passed(a)' <=> Passed(a)) /\ (Awaited(a)' <=> Awaited(a))
    BY <1>3, PassedStays DEF vars, bspVars, Awaited
  <2>2. TypeOK' /\ BspInLoop'
    BY <2>1 DEF BootInv, TypeOK, BspInLoop
  <2>3. OneAtATime'
    BY <2>1 DEF BootInv, OneAtATime
  <2>4. SignalIsItsOwn' /\ CountIsExact' /\ StackUsers'
    BY <2>1 DEF BootInv, SignalIsItsOwn, CountIsExact, StackUsers
  <2>5. QED
    BY <2>2, <2>3, <2>4 DEF BootInv
<1>4. QED
  BY <1>1, <1>2, <1>3 DEF Next

(* The wake-up's own state: where the BSP is, who is on its way, who has   *)
(* been counted and who has signalled.                                     *)
LEMMA BootInvariant == Spec => []BootInv
  BY BootInvInit, BootInvStep, PTL DEF Spec

(* The BSP and the APs start on the same stack, but never two at a time.   *)
THEOREM InitialStackIsShared == Spec => []InitialStackAlone
<1>1. BootInv => InitialStackAlone
  <2> SUFFICES ASSUME BootInv PROVE InitialStackAlone
    OBVIOUS
  <2>1. \A a, b \in initialStack : a = b
    <3>1. CASE pc[Bsp] \in { "boot", "visit" }
      <4>1. \A a \in APs : pc[a] = "off"
        BY <3>1 DEF BootInv, BspInLoop, OneAtATime, Passed, Awaited
      <4>2. QED
        BY <3>1, <4>1 DEF BootInv, StackUsers
    <3>2. CASE pc[Bsp] \notin { "boot", "visit" }
      <4>1. \A a \in APs : pc[a] = "trampoline" => a = Element
        BY DEF BootInv, OneAtATime, Awaited, Launched, Reset
      <4>2. QED
        BY <3>2, <4>1 DEF BootInv, StackUsers
    <3>3. QED
      BY <3>1, <3>2
  <2>2. CASE initialStack = {}
    BY <2>2, FS_EmptySet DEF InitialStackAlone
  <2>3. CASE initialStack # {}
    <3>1. PICK a \in initialStack : initialStack = {a}
      BY <2>1, <2>3
    <3>2. QED
      BY <3>1, FS_Singleton DEF InitialStackAlone
  <2>4. QED
    BY <2>2, <2>3
<1>2. QED
  BY <1>1, BootInvariant, PTL

(* Every wait of the BSP is ended by the AP it has just started, counted   *)
(* by then: the ASSERT on ActiveCpus holds for every AP.                   *)
THEOREM AssertsHold == Spec => []NoAssertFails
<1>1. BootInv => NoAssertFails
  <2> SUFFICES ASSUME BootInv, NEW c \in CPUs PROVE pc[c] # "panic"
    BY DEF NoAssertFails, At
  <2>1. pc[c] \in BspLabels \cup ApLabels
    BY DEF BootInv, TypeOK
  <2>2. QED
    BY <2>1 DEF BspLabels, ApLabels, Prelaunch, Unsignalled, Uncounted, Launched, Reset
<1>2. QED
  BY <1>1, BootInvariant, PTL

(* The identity mapping goes when every AP of the list has left the        *)
(* trampoline that runs through it.                                        *)
THEOREM IdentityMapIsNotMissed == Spec => []IdentityMapStaysLongEnough
<1>1. BootInv => IdentityMapStaysLongEnough
  <2> SUFFICES ASSUME BootInv, ~ identityMapped PROVE initialStack = {}
    BY DEF IdentityMapStaysLongEnough
  <2>1. pc[Bsp] \in { "finish", "guest" }
    BY DEF BootInv, BspInLoop
  <2>2. \A a \in APs : pc[a] # "trampoline"
    BY <2>1 DEF BootInv, OneAtATime, Awaited, Launched, Reset
  <2>3. QED
    BY <2>1, <2>2 DEF BootInv, StackUsers
<1>2. QED
  BY <1>1, BootInvariant, PTL

-----------------------------------------------------------------------------
(* The vector the APs start at, when MiniHV does not run nested and the    *)
(* trampoline's second SIPI comes before the AP has launched its guest.    *)

Unnested == ~ RunningNested /\ SipiSleepSuffices

Vectors == { ZeroVector, GuestVector, TrampolineSipiVector }

(* What VmExitSolveSIPI does, its VM entry aside.                          *)
LEMMA SolvedSipi ==
  ASSUME VcpuTypeOK, NEW a \in APs, NEW q \in Vectors, VmExitSolveSIPI(a, q)
  PROVE  /\ guestCS' \in [CPUs -> Vectors]
         /\ activity' \in [CPUs -> { "none", "hlt", "waitForSIPI", "active" }]
         /\ WaitingForWakeup' \in [CPUs -> BOOLEAN]
         /\ ReceivedSIPI' \in [CPUs -> BOOLEAN]
         /\ initPending' \in [CPUs -> BOOLEAN]
<1>1. a \in CPUs
  BY DEF APs
<1>2. initPending' \in [CPUs -> BOOLEAN]
  BY DEF VmExitSolveSIPI, EnterGuest, VcpuTypeOK
<1>3. CASE ReceivedSIPI[a]
  BY <1>2, <1>3 DEF VmExitSolveSIPI, VcpuTypeOK, vcpuVars, Vectors
<1>4. CASE ~ ReceivedSIPI[a]
  <2>1. guestCS' = [guestCS EXCEPT ![a] = IF RunningNested THEN ZeroVector ELSE q]
    BY <1>4 DEF VmExitSolveSIPI
  <2>2. guestCS' \in [CPUs -> Vectors]
    BY <2>1 DEF VcpuTypeOK, Vectors
  <2>3. QED
    BY <1>1, <1>2, <1>4, <2>2 DEF VmExitSolveSIPI, VcpuTypeOK
<1>5. QED
  BY <1>3, <1>4

LEMMA VcpuTypeStep ==
  ASSUME BootInv, VcpuTypeOK, [Next]_vars
  PROVE  VcpuTypeOK'
<1> USE DEF VcpuTypeOK
<1>0. \A a \in APs : a \in CPUs
  BY DEF APs
<1>1. CASE BspStep
  <2>1. CASE SendInit
    BY <2>1 DEF SendInit, DeliverInit, vcpuVars
  <2>2. CASE SendFirstSipi \/ SendSecondSipi
    BY <2>2 DEF SendFirstSipi, SendSecondSipi, SendSipi, DeliverSipi, vcpuVars
  <2>3. CASE SetUpBsp
    BY <2>3 DEF SetUpBsp, ipiVars
  <2>4. CASE ApicWakeUpCpus \/ ReadActiveCpus \/ EvtWaitForSignal \/ AssertOneMore
             \/ UnmapIdentity \/ StartBspGuest
    BY <2>4 DEF ApicWakeUpCpus, ReadActiveCpus, EvtWaitForSignal, AssertOneMore,
                UnmapIdentity, StartBspGuest, vcpuVars, ipiVars
  <2>5. QED
    BY <1>1, <2>1, <2>2, <2>3, <2>4 DEF BspStep
<1>2. ASSUME NEW a \in APs, ApStep(a) PROVE VcpuTypeOK'
  <2>1. CASE ChangeStack(a) \/ CountSelf(a) \/ EvtSignal(a) \/ VmxStartVmxOn(a)
    BY <2>1 DEF ChangeStack, CountSelf, EvtSignal, VmxStartVmxOn, vcpuVars, ipiVars
  <2>2. CASE VmxSetupVmcsStructures(a) \/ VmxStartGuest(a)
    BY <2>2 DEF VmxSetupVmcsStructures, VmxStartGuest, EnterGuest, vcpuVars, ipiVars
  <2>3. CASE SipiExit(a)
    <3>1. exitQualification[a] \in Vectors
      BY <1>0 DEF Vectors
    <3>2. VmExitSolveSIPI(a, exitQualification[a])
          /\ UNCHANGED << guestIpi, exitQualification >>
      BY <2>3 DEF SipiExit
    <3>3. QED
      BY <3>1, <3>2, SolvedSipi DEF Vectors
  <2>4. CASE InitExit(a)
    <3>1. UNCHANGED << guestIpi, exitQualification >>
      BY <2>4 DEF InitExit
    <3>2. CASE WaitingForWakeup[a]
      <4>1. VmExitSolveSIPI(a, ZeroVector)
        BY <2>4, <3>2 DEF InitExit
      <4>2. QED
        BY <3>1, <4>1, SolvedSipi DEF Vectors
    <3>3. CASE ~ WaitingForWakeup[a]
      BY <2>4, <3>1, <3>3 DEF InitExit, EnterGuest, vcpuVars
    <3>4. QED
      BY <3>2, <3>3
  <2>5. QED
    BY <1>2, <2>1, <2>2, <2>3, <2>4 DEF ApStep
<1>3. ASSUME NEW a \in APs, GuestStep(a) PROVE VcpuTypeOK'
  <2>1. CASE GuestSendsInit(a)
    <3>1. guestIpi' = [guestIpi EXCEPT ![a] = 1]
          /\ UNCHANGED << vcpuVars, exitQualification >>
      BY <2>1 DEF GuestSendsInit
    <3>2. \/ initPending' = initPending
          \/ initPending' = [initPending EXCEPT ![a] = TRUE]
      BY <2>1 DEF GuestSendsInit, DeliverInit
    <3>3. guestIpi' \in [APs -> 0 .. 3]
      BY <3>1
    <3>4. initPending' \in [CPUs -> BOOLEAN]
      BY <3>2
    <3>5. QED
      BY <3>1, <3>3, <3>4 DEF vcpuVars
  <2>2. CASE GuestSendsSipi(a)
    <3>1. guestIpi' = [guestIpi EXCEPT ![a] = guestIpi[a] + 1] /\ guestIpi[a] \in {1, 2}
          /\ UNCHANGED << vcpuVars, initPending >>
      BY <2>2 DEF GuestSendsSipi
    <3>2. \/ exitQualification' = exitQualification
          \/ exitQualification' = [exitQualification EXCEPT ![a] = GuestVector]
      BY <2>2 DEF GuestSendsSipi, DeliverSipi
    <3>3. QED
      BY <3>1, <3>2 DEF vcpuVars
  <2>3. QED
    BY <1>3, <2>1, <2>2 DEF GuestStep
<1>4. CASE UNCHANGED vars
  BY <1>4 DEF vars, vcpuVars, ipiVars
<1>5. QED
  BY <1>1, <1>2, <1>3, <1>4 DEF Next

(* The VCPU of a processor that a step does not concern.                   *)
LEMMA VcpuStays ==
  ASSUME NEW a \in APs, VcpuOf(a), pc'[a] = pc[a],
         UNCHANGED vcpuVars, guestIpi'[a] = guestIpi[a],
         exitQualification'[a] = exitQualification[a],
         pc'[Bsp] = "sipi2" /\ Element' = a => pc[a] \in Prelaunch
  PROVE  VcpuOf(a)'
  BY DEF VcpuOf, vcpuVars

LEMMA BspKeepsVcpus ==
  ASSUME BootInv, VectorInv, BspStep, Unnested, NEW a \in APs
  PROVE  VcpuOf(a)'
<1> USE DEF BootInv, TypeOK, VectorInv, VcpuTypeOK
<1>1. a \in CPUs /\ a # Bsp /\ Bsp \in CPUs
  BY SmpAssumption DEF APs
<1>2. CASE BspAlone
  <2>1. /\ pc'[a] = pc[a] /\ pc'[Bsp] # "sipi2"
        /\ UNCHANGED << guestCS, WaitingForWakeup, ReceivedSIPI, ipiVars >>
        /\ activity'[a] = activity[a]
    BY <1>1, <1>2 DEF BspAlone, ApicWakeUpCpus, SetUpBsp, ReadActiveCpus,
          EvtWaitForSignal, AssertOneMore, UnmapIdentity, StartBspGuest, Goto, vcpuVars
  <2>2. QED
    BY <2>1 DEF VcpuOf, ipiVars
<1>3. CASE SendInit \/ SendFirstSipi \/ SendSecondSipi
  <2>1. position \in 2 .. Len(PhysCpuList)
    BY <1>3 DEF SendInit, SendFirstSipi, SendSecondSipi, SendSipi, At, BspInLoop
  <2>2. Element \in APs /\ ~ Passed(Element)
    BY <2>1, ElementIsAhead
  <2>3. UNCHANGED vcpuVars /\ UNCHANGED guestIpi /\ Element' = Element
    BY <1>3 DEF SendInit, SendFirstSipi, SendSecondSipi, SendSipi, Element, bspVars
  <2>4. CASE a # Element
    <3>1. /\ pc'[a] = pc[a] /\ exitQualification'[a] = exitQualification[a]
      BY <1>1, <1>3, <2>4 DEF SendInit, SendFirstSipi, SendSecondSipi, SendSipi,
                              DeliverInit, DeliverSipi
    <3>2. QED
      BY <2>3, <2>4, <3>1, VcpuStays
  <2>5. CASE a = Element /\ SendInit
    <3>1. pc[a] = "off" /\ pc[Bsp] = "init"
      BY <2>2, <2>5 DEF SendInit, At, OneAtATime, Awaited
    <3>2. /\ pc'[a] = "off" /\ pc'[Bsp] = "sipi"
          /\ exitQualification' = exitQualification
      BY <1>1, <2>5, <3>1 DEF SendInit, DeliverInit, At, OutOfVmx
    <3>3. QED
      BY <2>3, <3>1, <3>2, VcpuStays
  <2>6. CASE a = Element /\ SendFirstSipi
    <3>1. pc[a] = "off" /\ pc[Bsp] = "sipi"
      BY <2>2, <2>6 DEF SendFirstSipi, SendSipi, At, OneAtATime, Awaited
    <3>2. pc'[a] = "trampoline" /\ exitQualification'[a] = exitQualification[a]
      BY <1>1, <2>6, <3>1 DEF SendFirstSipi, SendSipi, DeliverSipi, At
    <3>3. QED
      BY <2>3, <3>1, <3>2
         DEF VcpuOf, vcpuVars, NoGuestYet, Reset, Prelaunch, Unsignalled, Uncounted
  <2>7. CASE a = Element /\ SendSecondSipi
    <3>1. pc[Bsp] = "sipi2" /\ pc[a] \in Prelaunch
      BY <2>7 DEF SendSecondSipi, SendSipi, At, VcpuOf
    <3>2. /\ pc'[a] = pc[a] /\ exitQualification'[a] = exitQualification[a]
          /\ pc'[Bsp] = "wait"
      BY <1>1, <2>7, <3>1 DEF SendSecondSipi, SendSipi, DeliverSipi, At,
                              Prelaunch, Unsignalled, Uncounted
    <3>3. QED
      BY <2>3, <3>2, VcpuStays
  <2>8. QED
    BY <1>3, <2>4, <2>5, <2>6, <2>7
<1>4. QED
  BY <1>2, <1>3 DEF BspStep, BspAlone

(* A step of an AP, or of the guest to it, leaves the other APs' VCPUs.    *)
LEMMA OtherVcpusStay ==
  ASSUME BootInv, VectorInv, NEW a \in APs, ApStep(a) \/ GuestStep(a),
         NEW b \in APs, b # a
  PROVE  VcpuOf(b)'
<1> USE DEF BootInv, TypeOK, VectorInv, VcpuTypeOK
<1>1. a \in CPUs /\ b \in CPUs /\ b # Bsp /\ a # Bsp /\ Bsp \in CPUs
  BY SmpAssumption DEF APs
<1>2. /\ activity'[b] = activity[b] /\ guestCS'[b] = guestCS[b]
      /\ WaitingForWakeup'[b] = WaitingForWakeup[b] /\ ReceivedSIPI'[b] = ReceivedSIPI[b]
  <2>1. CASE ChangeStack(a) \/ CountSelf(a) \/ EvtSignal(a) \/ VmxStartVmxOn(a)
             \/ VmxSetupVmcsStructures(a) \/ VmxStartGuest(a)
    BY <1>1, <2>1 DEF ChangeStack, CountSelf, EvtSignal, VmxStartVmxOn,
                      VmxSetupVmcsStructures, VmxStartGuest, vcpuVars
  <2>2. CASE SipiExit(a) \/ InitExit(a)
    BY <1>1, <2>2 DEF SipiExit, InitExit, VmExitSolveSIPI, vcpuVars
  <2>3. CASE GuestStep(a)
    BY <2>3 DEF GuestStep, GuestSendsInit, GuestSendsSipi, vcpuVars
  <2>4. QED
    BY <2>1, <2>2, <2>3 DEF ApStep
<1>3. guestIpi'[b] = guestIpi[b] /\ exitQualification'[b] = exitQualification[b]
  <2>1. CASE ApStep(a)
    BY <2>1 DEF ApStep, ChangeStack, CountSelf, EvtSignal, VmxStartVmxOn, ipiVars,
                VmxSetupVmcsStructures, VmxStartGuest, SipiExit, InitExit
  <2>2. CASE GuestStep(a)
    BY <1>1, <2>2 DEF GuestStep, GuestSendsInit, GuestSendsSipi, DeliverInit, DeliverSipi
  <2>3. QED
    BY <2>1, <2>2
<1>4. pc'[b] = pc[b] /\ pc'[Bsp] = pc[Bsp] /\ Element' = Element
  <2>1. CASE ApStep(a)
    BY <1>1, <2>1, LateSteps DEF ApStep, ChangeStack, CountSelf, EvtSignal, LateStep,
                                 Goto, Element, bspVars
  <2>2. CASE GuestStep(a)
    <3>1. pc[Bsp] = "guest" /\ Element' = Element
      BY <2>2 DEF GuestStep, GuestSendsInit, GuestSendsSipi, At, Element, bspVars
    <3>2. pc'[Bsp] = "guest" /\ pc'[b] = pc[b]
      BY <1>1, <2>2, <3>1
         DEF GuestStep, GuestSendsInit, GuestSendsSipi, DeliverInit, DeliverSipi
    <3>3. QED
      BY <3>1, <3>2
  <2>3. QED
    BY <2>1, <2>2
<1>5. QED
  BY <1>2, <1>3, <1>4 DEF VcpuOf

(* Where a VMLAUNCH or a VMRESUME leads: only a guest that has received    *)
(* its SIPI can exit for a blocked INIT.                                   *)
LEMMA EntryLeadsTo ==
  ASSUME TypeOK, NEW a \in APs, NEW state, EnterGuest(a, state)
  PROVE  pc'[a] = "guest" \/ (pc'[a] = "initExit" /\ state # "waitForSIPI")
  BY DEF TypeOK, EnterGuest, Goto, APs

LEMMA ApKeepsVcpu ==
  ASSUME BootInv, VectorInv, Unnested, NEW a \in APs, ApStep(a)
  PROVE  VcpuOf(a)'
<1> USE DEF BootInv, TypeOK, VectorInv, VcpuTypeOK
<1>1. a \in CPUs /\ a # Bsp /\ Bsp \in CPUs
  BY SmpAssumption DEF APs
<1>2. VcpuOf(a)
  OBVIOUS
<1>3. pc'[Bsp] = pc[Bsp] /\ Element' = Element /\ guestIpi' = guestIpi
      /\ exitQualification' = exitQualification
  BY <1>1, LateSteps DEF ApStep, ChangeStack, CountSelf, EvtSignal, LateStep, Goto,
       VmxStartVmxOn, VmxSetupVmcsStructures, VmxStartGuest, SipiExit, InitExit,
       Element, bspVars, ipiVars
<1>4. CASE ChangeStack(a) \/ CountSelf(a) \/ EvtSignal(a) \/ VmxStartVmxOn(a)
  <2>1. /\ pc[a] \in NoGuestYet
        /\ pc'[a] \in Prelaunch /\ pc'[a] # "launch"
        /\ UNCHANGED vcpuVars
    BY <1>1, <1>4 DEF ChangeStack, CountSelf, EvtSignal, VmxStartVmxOn, At, Goto,
                      NoGuestYet, Prelaunch, Unsignalled, Uncounted
  <2>2. pc'[a] \notin Launched
    BY <2>1 DEF Launched, Prelaunch, Unsignalled, Uncounted
  <2>3. QED
    BY <1>2, <1>3, <2>1, <2>2 DEF VcpuOf, vcpuVars, Launched, NoGuestYet
<1>5. CASE VmxSetupVmcsStructures(a)
  <2>1. /\ pc[a] \in NoGuestYet /\ pc'[a] = "launch" /\ pc'[a] \in Prelaunch
        /\ activity'[a] = "waitForSIPI"
        /\ UNCHANGED << guestCS, WaitingForWakeup, ReceivedSIPI >>
    BY <1>1, <1>5 DEF VmxSetupVmcsStructures, At, Goto, NoGuestYet, Prelaunch, Unnested
  <2>2. ~ ReceivedSIPI[a]
    BY <1>2, <2>1 DEF VcpuOf
  <2>3. QED
    BY <1>2, <1>3, <2>1, <2>2 DEF VcpuOf
<1>6. CASE VmxStartGuest(a)
  <2>1. /\ pc[a] = "launch" /\ pc[a] \in NoGuestYet /\ UNCHANGED vcpuVars
        /\ ~ (pc[Bsp] = "sipi2" /\ Element = a)
    BY <1>6 DEF VmxStartGuest, At, NoGuestYet, Prelaunch, Unnested
  <2>2. activity[a] = "waitForSIPI"
    BY <1>2, <2>1 DEF VcpuOf
  <2>3. pc'[a] = "guest"
    BY <1>6, <2>2, EntryLeadsTo DEF VmxStartGuest
  <2>4. QED
    BY <1>2, <1>3, <2>1, <2>2, <2>3
       DEF VcpuOf, vcpuVars, NoGuestYet, Prelaunch, Unsignalled, Uncounted, Reset
<1>7. pc[a] \in { "sipiExit", "initExit" } => ~ (pc[Bsp] = "sipi2" /\ Element = a)
  BY <1>2 DEF VcpuOf, Prelaunch, Unsignalled, Uncounted
<1>8. CASE SipiExit(a)
  <2>1. /\ pc[a] = "sipiExit" /\ VmExitSolveSIPI(a, GuestVector) /\ guestIpi[a] >= 2
    BY <1>2, <1>8 DEF SipiExit, At, VcpuOf
  <2>2. ~ RunningNested
    BY DEF Unnested
  <2>3. /\ activity'[a] = "active" /\ ReceivedSIPI'[a] /\ ~ WaitingForWakeup'[a]
        /\ guestCS'[a] = GuestVector
    <3>1. CASE ReceivedSIPI[a]
      BY <1>2, <2>1, <3>1 DEF VmExitSolveSIPI, VcpuOf, vcpuVars
    <3>2. CASE ~ ReceivedSIPI[a]
      BY <1>1, <2>1, <2>2, <3>2 DEF VmExitSolveSIPI
    <3>3. QED
      BY <3>1, <3>2
  <2>4. pc'[a] \in { "guest", "initExit" }
    BY <2>1, EntryLeadsTo DEF VmExitSolveSIPI
  <2>5. QED
    BY <1>3, <1>7, <2>1, <2>3, <2>4
       DEF VcpuOf, NoGuestYet, Prelaunch, Unsignalled, Uncounted, Reset
<1>9. CASE InitExit(a)
  <2>1. pc[a] = "initExit" /\ ReceivedSIPI[a] /\ ~ WaitingForWakeup[a]
    BY <1>2, <1>9 DEF InitExit, At, VcpuOf
  <2>2. EnterGuest(a, activity[a]) /\ UNCHANGED vcpuVars
    BY <1>9, <2>1 DEF InitExit
  <2>3. pc'[a] \in { "guest", "initExit" }
    BY <2>2, EntryLeadsTo
  <2>4. QED
    BY <1>2, <1>3, <1>7, <2>1, <2>2, <2>3
       DEF VcpuOf, vcpuVars, NoGuestYet, Prelaunch, Unsignalled, Uncounted, Reset
<1>10. QED
  BY <1>4, <1>5, <1>6, <1>8, <1>9 DEF ApStep

LEMMA GuestKeepsVcpu ==
  ASSUME BootInv, VectorInv, Unnested, NEW a \in APs, GuestStep(a)
  PROVE  VcpuOf(a)'
<1> USE DEF BootInv, TypeOK, VectorInv, VcpuTypeOK
<1>1. a \in CPUs /\ a # Bsp /\ Bsp \in CPUs
  BY SmpAssumption DEF APs
<1>2. VcpuOf(a) /\ UNCHANGED vcpuVars /\ pc[Bsp] = "guest"
  BY DEF GuestStep, GuestSendsInit, GuestSendsSipi, At
<1>3. /\ pc'[Bsp] = "guest"
      /\ pc[a] \in { "signalled", "vmxOn", "launch" } \cup Launched \cup Reset
  BY <1>1, <1>2 DEF GuestStep, GuestSendsInit, GuestSendsSipi, DeliverInit, DeliverSipi,
                    OneAtATime, Awaited, Reset
<1>4. CASE GuestSendsInit(a)
  <2>1. guestIpi[a] = 0 /\ guestIpi'[a] = 1 /\ exitQualification' = exitQualification
    BY <1>4 DEF GuestSendsInit
  <2>2. ~ ReceivedSIPI[a] /\ activity[a] # "active" /\ pc[a] # "sipiExit"
    BY <1>2, <2>1 DEF VcpuOf
  <2>3. ~ (At(a, "guest") /\ activity[a] # "waitForSIPI")
    BY <1>2, <2>2 DEF VcpuOf, At
  <2>4. pc'[a] = pc[a] \/ pc'[a] = "off"
    BY <1>1, <1>4, <2>3 DEF GuestSendsInit, DeliverInit
  <2>5. QED
    BY <1>2, <1>3, <2>1, <2>2, <2>4 DEF VcpuOf, vcpuVars
<1>5. CASE GuestSendsSipi(a)
  <2>1. guestIpi[a] \in {1, 2} /\ guestIpi'[a] = guestIpi[a] + 1
    BY <1>5 DEF GuestSendsSipi
  <2>2. CASE pc[a] = "guest" /\ activity[a] = "waitForSIPI"
    <3>1. pc'[a] = "sipiExit" /\ exitQualification'[a] = GuestVector
      BY <1>1, <1>5, <2>2 DEF GuestSendsSipi, DeliverSipi, At
    <3>2. QED
      BY <1>2, <1>3, <2>1, <2>2, <3>1
         DEF VcpuOf, vcpuVars, NoGuestYet, Prelaunch, Unsignalled, Uncounted, Reset
  <2>3. CASE ~ (pc[a] = "guest" /\ activity[a] = "waitForSIPI")
    <3>1. GuestVector # TrampolineSipiVector
      BY DEF GuestVector, TrampolineSipiVector
    <3>2. /\ exitQualification' = exitQualification
          /\ pc'[a] = pc[a] \/ (pc[a] = "off" /\ pc'[a] = "bare")
      BY <1>1, <1>5, <2>3, <3>1 DEF GuestSendsSipi, DeliverSipi, At
    <3>3. QED
      BY <1>2, <1>3, <2>1, <3>2 DEF VcpuOf, vcpuVars, NoGuestYet, Reset
  <2>4. QED
    BY <2>2, <2>3
<1>6. QED
  BY <1>4, <1>5 DEF GuestStep

(* With the two conditions of the run, an AP that runs guest code under    *)
(* the hypervisor runs it from the vector of the guest's SIPI.             *)
THEOREM ApsStartAtGuestVector ==
  ASSUME ~ RunningNested, SipiSleepSuffices
  PROVE  Spec => []StartsAtGuestVector
<1>1. Unnested
  BY DEF Unnested
<1>2. Init => VectorInv
  <2> SUFFICES ASSUME Init PROVE VectorInv
    OBVIOUS
  <2>1. VcpuTypeOK
    BY DEF Init, VcpuTypeOK
  <2>2. ASSUME NEW a \in APs PROVE VcpuOf(a)
    BY SmpAssumption DEF Init, VcpuOf, APs
  <2>3. QED
    BY <2>1, <2>2 DEF VectorInv
<1>3. BootInv /\ VectorInv /\ [Next]_vars => VectorInv'
  <2> SUFFICES ASSUME BootInv, VectorInv, [Next]_vars PROVE VectorInv'
    OBVIOUS
  <2>1. VcpuTypeOK'
    BY VcpuTypeStep DEF VectorInv
  <2>2. CASE BspStep
    BY <1>1, <2>1, <2>2, BspKeepsVcpus DEF VectorInv
  <2>3. CASE \E a \in APs : ApStep(a) \/ GuestStep(a)
    <3>1. PICK a \in APs : ApStep(a) \/ GuestStep(a)
      BY <2>3
    <3>2. VcpuOf(a)'
      BY <1>1, <3>1, ApKeepsVcpu, GuestKeepsVcpu
    <3>3. \A b \in APs \ {a} : VcpuOf(b)'
      BY <3>1, OtherVcpusStay
    <3>4. QED
      BY <2>1, <3>2, <3>3 DEF VectorInv
  <2>4. CASE UNCHANGED vars
    <3>1. \A a \in APs : VcpuOf(a)'
      BY <2>4 DEF vars, vcpuVars, ipiVars, bspVars, VectorInv, VcpuOf, Element
    <3>2. QED
      BY <2>1, <3>1 DEF VectorInv
  <2>5. QED
    BY <2>2, <2>3, <2>4 DEF Next
<1>4. VectorInv => StartsAtGuestVector
  BY DEF VectorInv, VcpuOf, StartsAtGuestVector, At
<1>5. QED
  BY <1>2, <1>3, <1>4, BootInvariant, PTL DEF Spec

=============================================================================
