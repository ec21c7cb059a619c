-------------------------------- MODULE Panic --------------------------------
(***************************************************************************)
(* What an ASSERT that fails does to the whole machine: AssertInfo         *)
(* (CommonLib/src/assert.c), MiniHVAssert and AssertHvIsStillFunctional    *)
(* (minihvex/hv_assert.c).  The first CPU to fail sets the HALTED flag and *)
(* sends INIT to all others; a guest exits on INIT, and every CPU looks at *)
(* the flag when it leaves a guest and before it resumes one.              *)
(*                                                                         *)
(* m_assertLock and SerialLock are LOCKs (module SpinLock), here their     *)
(* owners: a LOCK asserts that its caller does not hold it already, and so *)
(* ends up in AssertInfo once more.                                        *)
(***************************************************************************)
EXTENDS Integers

CONSTANTS
  CPUs, NoCpu,
  AssertInLog,  (* TRUE: the ASSERT of a string function that LOG calls    *)
                (* with SerialLock held may fail (cl_string.c:517)         *)
  MaxNmis       (* bound: NMIs that wake a halted CPU                      *)

ASSUME PanicAssumption ==
  /\ NoCpu \notin CPUs
  /\ AssertInLog \in BOOLEAN
  /\ MaxNmis \in Nat

VARIABLES
  HALTED,           (* MINIHV_FLAGS_HALTED is set in MiniHvFlags           *)
  m_assertLock,     (* the owner                                           *)
  SerialLock,       (* the owner                                           *)
  initSent,         (* MiniHVAssert has sent its INIT                      *)
  initPending,      (* initPending[c]: an INIT that CPU c has blocked      *)
  activity,         (* VMCS_GUEST_ACTIVITY_STATE                           *)
  nmis,             (* how many NMIs have woken a halted CPU               *)
  pc

machineVars == << initSent, initPending, activity, nmis >>
vars == << HALTED, m_assertLock, SerialLock, machineVars, pc >>

(* From the failed ASSERT to the hlt.                                      *)
Panicking == { "assertInfo", "setHalted", "logIpi", "loggingIpi", "sendIpi",
               "message", "writing", "freeLock" }

Labels == { "guest", "exit", "root", "log", "logging", "resume", "enter",
            "halted", "recursing" } \cup Panicking

At(c, label) == pc[c] = label
Goto(c, label) == pc' = [pc EXCEPT ![c] = label]

RunsGuest(c) == At(c, "guest") /\ activity[c] = "active"

(* All CPUs in VMX, some of them still waiting for the guest's SIPI.       *)
Init ==
  /\ HALTED = FALSE
  /\ m_assertLock = NoCpu
  /\ SerialLock = NoCpu
  /\ initSent = FALSE
  /\ initPending = [c \in CPUs |-> FALSE]
  /\ activity \in [CPUs -> {"active", "waitForSIPI"}]
  /\ nmis = 0
  /\ pc = [c \in CPUs |-> "guest"]

-----------------------------------------------------------------------------
(* External: the guest, VM entries and NMIs                                *)

GuestExits(c) ==
  /\ RunsGuest(c)
  /\ Goto(c, "exit")
  /\ UNCHANGED << HALTED, m_assertLock, SerialLock, machineVars >>

(* A SIPI from a running guest, answered by VmExitSolveSIPI.               *)
SipiArrives(c) ==
  /\ At(c, "guest") /\ activity[c] = "waitForSIPI"
  /\ \E d \in CPUs : RunsGuest(d)
  /\ activity' = [activity EXCEPT ![c] = "active"]
  /\ Goto(c, "exit")
  /\ UNCHANGED << HALTED, m_assertLock, SerialLock, initSent, initPending, nmis >>

(* An INIT that was blocked until now makes the guest exit at once.        *)
VmEntry(c) ==
  /\ At(c, "enter")
  /\ Goto(c, IF initPending[c] THEN "exit" ELSE "guest")
  /\ initPending' = [initPending EXCEPT ![c] = FALSE]
  /\ UNCHANGED << HALTED, m_assertLock, SerialLock, initSent, activity, nmis >>

(* After the NMI's IRET the CPU is behind its hlt, at NOT_REACHED.         *)
NmiWakes(c) ==
  /\ At(c, "halted")
  /\ nmis < MaxNmis
  /\ nmis' = nmis + 1
  /\ Goto(c, "assertInfo")
  /\ UNCHANGED << HALTED, m_assertLock, SerialLock, initSent, initPending, activity >>

-----------------------------------------------------------------------------
(* From the VM exit to the VM entry                                        *)

(* Mutant: the flag is not looked at.                                      *)
NeverChecks(c, from, to) ==
  /\ At(c, from)
  /\ Goto(c, to)
  /\ UNCHANGED << HALTED, m_assertLock, SerialLock, machineVars >>

(* AssertHvIsStillFunctional                                               *)
Checks(c, from, to) ==
  /\ At(c, from)
  /\ Goto(c, IF HALTED THEN "assertInfo" ELSE to)
  /\ UNCHANGED << HALTED, m_assertLock, SerialLock, machineVars >>

ChecksOnExit(c)   == Checks(c, "exit", "root")
ChecksOnResume(c) == Checks(c, "resume", "enter")

(* The handler logs, resumes its guest or fails an ASSERT.                 *)
VmExitHandler(c) ==
  /\ At(c, "root")
  /\ \E next \in {"log", "resume", "assertInfo"} : Goto(c, next)
  /\ UNCHANGED << HALTED, m_assertLock, SerialLock, machineVars >>

(* AcquireLock(&SerialLock); a CPU that holds it fails the LOCK's ASSERT.  *)
TakesSerialLock(c, from, to) ==
  /\ At(c, from)
  /\ SerialLock \in {NoCpu, c}
  /\ IF SerialLock = c
     THEN Goto(c, "assertInfo") /\ UNCHANGED SerialLock
     ELSE Goto(c, to) /\ SerialLock' = c
  /\ UNCHANGED << HALTED, m_assertLock, machineVars >>

ReleasesSerialLock(c, from, to) ==
  /\ At(c, from)
  /\ SerialLock' = NoCpu
  /\ Goto(c, to)
  /\ UNCHANGED << HALTED, m_assertLock, machineVars >>

LogTakes(c) == TakesSerialLock(c, "log", "logging")

(* The lock is released, or an ASSERT fails with it held.                  *)
LogEnds(c) ==
  /\ At(c, "logging")
  /\ \E fails \in {FALSE, AssertInLog} :
       /\ SerialLock' = IF fails THEN SerialLock ELSE NoCpu
       /\ Goto(c, IF fails THEN "assertInfo" ELSE "resume")
  /\ UNCHANGED << HALTED, m_assertLock, machineVars >>

-----------------------------------------------------------------------------
(* AssertInfo and MiniHVAssert                                             *)

(* LockAcquire(&m_assertLock): its owner fails the LOCK's ASSERT, calls    *)
(* AssertInfo again and never gets out of that recursion.                  *)
AssertInfo(c) ==
  /\ At(c, "assertInfo")
  /\ m_assertLock \in {NoCpu, c}
  /\ IF m_assertLock = c
     THEN Goto(c, "recursing") /\ UNCHANGED m_assertLock
     ELSE Goto(c, "setHalted") /\ m_assertLock' = c
  /\ UNCHANGED << HALTED, SerialLock, machineVars >>

(* Mutant: the flag is read and not set.                                   *)
ReadHalted(c) ==
  /\ At(c, "setHalted")
  /\ Goto(c, IF HALTED THEN "message" ELSE "logIpi")
  /\ UNCHANGED << HALTED, m_assertLock, SerialLock, machineVars >>

(* _InterlockedOr(&MiniHvFlags, MINIHV_FLAGS_HALTED): the first one sends. *)
SetHalted(c) ==
  /\ At(c, "setHalted")
  /\ HALTED' = TRUE
  /\ Goto(c, IF HALTED THEN "message" ELSE "logIpi")
  /\ UNCHANGED << m_assertLock, SerialLock, machineVars >>

(* LOGP("Sending IPI\n")                                                   *)
LogIpiTakes(c) == TakesSerialLock(c, "logIpi", "loggingIpi")
LogIpiEnds(c)  == ReleasesSerialLock(c, "loggingIpi", "sendIpi")

(* Mutant: a physical destination, which names nobody.                     *)
SendIpiToNobody(c) ==
  /\ At(c, "sendIpi")
  /\ initSent' = TRUE
  /\ Goto(c, "message")
  /\ UNCHANGED << HALTED, m_assertLock, SerialLock, initPending, activity, nmis >>

(* INIT to all excluding self: a running guest exits, everybody else has   *)
(* the INIT blocked (a guest that waits for a SIPI for as long as it does).*)
ApicSendIpi(c) ==
  /\ At(c, "sendIpi")
  /\ initSent' = TRUE
  /\ initPending' =
       [d \in CPUs |-> initPending[d] \/ (d # c /\ ~RunsGuest(d))]
  /\ pc' = [d \in CPUs |-> IF d = c THEN "message"
                           ELSE IF RunsGuest(d) THEN "exit" ELSE pc[d]]
  /\ UNCHANGED << HALTED, m_assertLock, SerialLock, activity, nmis >>

(* needToAcquireLock = !LockIsOwner(&SerialLock)                           *)
AcquiresIfNeeded(c) ==
  /\ At(c, "message")
  /\ SerialLock \in {NoCpu, c}
  /\ SerialLock' = c
  /\ Goto(c, "writing")
  /\ UNCHANGED << HALTED, m_assertLock, machineVars >>

(* SerialWriteBuffer, ReleaseLock, perror.                                 *)
WritesMessage(c) == ReleasesSerialLock(c, "writing", "freeLock")

(* Mutant: hlt with m_assertLock held.                                     *)
HaltsWithLock(c) ==
  /\ At(c, "freeLock")
  /\ Goto(c, "halted")
  /\ UNCHANGED << HALTED, m_assertLock, SerialLock, machineVars >>

(* AssertFreeLock, then hlt with interrupts off.                           *)
AssertFreeLock(c) ==
  /\ At(c, "freeLock")
  /\ m_assertLock' = NoCpu
  /\ Goto(c, "halted")
  /\ UNCHANGED << HALTED, SerialLock, machineVars >>

-----------------------------------------------------------------------------

HostStep(c) ==
  \/ ChecksOnExit(c) \/ VmExitHandler(c) \/ ChecksOnResume(c) \/ VmEntry(c)
  \/ LogTakes(c) \/ LogEnds(c)

PanicStep(c) ==
  \/ AssertInfo(c) \/ SetHalted(c) \/ LogIpiTakes(c) \/ LogIpiEnds(c)
  \/ ApicSendIpi(c) \/ AcquiresIfNeeded(c) \/ WritesMessage(c)
  \/ AssertFreeLock(c)

Next ==
  \E c \in CPUs :
    HostStep(c) \/ PanicStep(c) \/ GuestExits(c) \/ SipiArrives(c) \/ NmiWakes(c)

Spec == Init /\ [][Next]_vars

(* A CPU in the host executes its next instruction eventually.  A guest    *)
(* may run forever without an exit of its own.                             *)
FairSpec == Spec /\ \A c \in CPUs : WF_vars(HostStep(c)) /\ WF_vars(PanicStep(c))

-----------------------------------------------------------------------------

TypeOK ==
  /\ HALTED \in BOOLEAN
  /\ m_assertLock \in CPUs \cup {NoCpu}
  /\ SerialLock \in CPUs \cup {NoCpu}
  /\ initSent \in BOOLEAN
  /\ initPending \in [CPUs -> BOOLEAN]
  /\ activity \in [CPUs -> {"active", "waitForSIPI"}]
  /\ nmis \in 0..MaxNmis
  /\ pc \in [CPUs -> Labels]

(* Once the INIT is out no guest runs any more, although a CPU may have    *)
(* passed its check of the flag before the flag was set: the INIT waits    *)
(* for its VM entry (hv_assert.c:18-25, vmx_operations.c:280).             *)
NoGuestAfterIpi == initSent => \A c \in CPUs : ~RunsGuest(c)

(* One failed ASSERT stops every guest of the machine for good: "we must   *)
(* signal the other processors" (hv_assert.c:20).                          *)
PanicStopsEveryGuest == HALTED ~> [](\A c \in CPUs : ~RunsGuest(c))

(* Whoever fails an ASSERT halts, however many fail one at a time.         *)
EveryPanicHalts ==
  \A c \in CPUs : At(c, "assertInfo") ~> At(c, "halted")

(* "we may have already have taken the lock when we 'panicked'"            *)
(* (hv_assert.c:38): that does not keep the panic from ending, "If we      *)
(* ASSERT again this function will be called recursively => BAD"           *)
(* (assert.c:39).                                                          *)
PanicDoesNotRecurse == \A c \in CPUs : ~At(c, "recursing")

=============================================================================
