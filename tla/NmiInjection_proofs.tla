------------------------- MODULE NmiInjection_proofs -------------------------
(***************************************************************************)
(* Proofs about NmiInjection, for every set of CPUs, every number of NMIs  *)
(* and both values of GuestFaults.                                         *)
(***************************************************************************)
EXTENDS NmiInjection, TLAPS

Labels ==
  { "start", "launch", "guest", "exit", "logTake", "logTook", "logSend",
    "logClear", "logFree", "handled", "injectWrite", "resume", "enter" }
  \cup Stopped

Events == { "exception", "nmi" }

TypeOK ==
  /\ owner \in CPUs \cup {NoCpu}
  /\ Holder \in CPUs \cup {NoCpu}
  /\ EnteredVMX \in [CPUs -> BOOLEAN]
  /\ PendingEventForInjection \in [CPUs -> Nat]
  /\ intInfo \in [CPUs -> Events \cup {"none"}]
  /\ activity \in [CPUs -> {"active", "waitForSIPI"}]
  /\ owed \in [CPUs -> Seq(Events)]
  /\ pc \in [CPUs -> Labels]
  /\ nmi \in [CPUs -> {"none", "entry", "inject", "write", "reacquire"}]
  /\ nmis \in [CPUs -> Nat]
  /\ releasedLock \in [CPUs -> BOOLEAN]

-----------------------------------------------------------------------------

(* What the CPU's code below the handler believes of SerialLock: it took   *)
(* State and has not given it back; it also wrote Holder.                  *)
Took == { "logTook", "logSend", "logClear", "logFree" }
WroteHolder == { "logSend", "logClear" }

(* The handler has given SerialLock away and not yet taken it again.       *)
HandlerBusy(c) == nmi[c] \in { "inject", "write", "reacquire" }
GivenAway(c) == HandlerBusy(c) /\ releasedLock[c]

(* The handler runs on top of code that has not stopped.                   *)
HandlerIsOnTop ==
  \A c \in CPUs : nmi[c] # "none" => pc[c] \notin Stopped \cup {"guest"}

(* It gave the lock away exactly when the code below had written Holder.   *)
HandlerKnows ==
  \A c \in CPUs : HandlerBusy(c) => (releasedLock[c] <=> pc[c] \in WroteHolder)

(* What c has of the lock: State and Holder, State alone, or nothing.      *)
Has(c) ==
  IF pc[c] \in Took /\ ~ GivenAway(c)
  THEN IF pc[c] \in WroteHolder THEN "both" ELSE "state"
  ELSE "nothing"

(* Whoever has the lock is its owner, and its Holder between the two       *)
(* writes of Holder; nobody else is its Holder.                            *)
OwnerIsRecorded ==
  \A c \in CPUs :
    /\ Has(c) = "both" => owner = c
    /\ Has(c) = "state" => owner = c /\ Holder = NoCpu
    /\ Has(c) = "both" <=> Holder = c

LockInv ==
  /\ TypeOK /\ HandlerIsOnTop /\ HandlerKnows
  /\ OwnerIsRecorded /\ LockAssertHolds

-----------------------------------------------------------------------------

NmiOwed(c) == \E i \in DOMAIN owed[c] : owed[c][i] = "nmi"

(* Between a VM exit and VmxResumeGuest an NMI that is owed is counted.    *)
OwedIsCounted(c) ==
  pc[c] \in { "exit", "handled", "resume" } \cup { "logTake" } \cup Took /\ NmiOwed(c)
    => PendingEventForInjection[c] >= 1

(* While an exception is counted and not written, no NMI is owed, and one  *)
(* that comes will find the counter taken.                                 *)
ExceptionFirst(c) ==
  pc[c] = "injectWrite"
    => /\ PendingEventForInjection[c] >= 1
       /\ ~ NmiOwed(c)
       /\ nmi[c] \in { "none", "entry", "inject" }

(* The guest has been given everything that was owed to it.                *)
NothingOwedInGuest(c) == pc[c] = "guest" => ~ NmiOwed(c)

(* An NMI that is owed is in the VMCS or the handler is about to write it. *)
OwedIsWritten(c) ==
  pc[c] \notin Stopped /\ NmiOwed(c) => intInfo[c] = "nmi" \/ nmi[c] = "write"

DeliveryAt(c) ==
  OwedIsCounted(c) /\ ExceptionFirst(c) /\ NothingOwedInGuest(c) /\ OwedIsWritten(c)

DeliveryInv == \A c \in CPUs : DeliveryAt(c)

-----------------------------------------------------------------------------

(* The three kinds of step of CPU c, to split Next on: what moves          *)
(* SerialLock, what moves the guest's events, and what only moves c.       *)
LockMove(c) ==
  \/ LogTake(c) \/ LogSetHolder(c) \/ LogClearHolder(c) \/ LogFree(c)
  \/ NmiReleaseLock(c) \/ NmiReacquireLock(c)

EventMove(c) ==
  \/ VmEntry(c) \/ InjectException(c) \/ InjectExceptionWrite(c)
  \/ VmxResumeGuest(c) \/ NmiInject(c) \/ NmiWrite(c)

PlainMove(c) ==
  \/ VmxStartGuest(c) \/ VmExit(c) \/ Handle(c) \/ LogSend(c)
  \/ NothingToInject(c) \/ Nmi(c)

LEMMA NextMoves ==
  ASSUME Next
  PROVE  \E c \in CPUs : LockMove(c) \/ EventMove(c) \/ PlainMove(c)
  BY DEF Next, BaseStep, LogStep, NmiStep, LockMove, EventMove, PlainMove

-----------------------------------------------------------------------------

(* What IncrementPending and a VM entry do to the events that are owed.    *)
LEMMA CountedOwes ==
  ASSUME TypeOK, NEW c \in CPUs, NEW event \in Events, IncrementPending(c, event)
  PROVE  /\ PendingEventForInjection' \in [CPUs -> Nat]
         /\ PendingEventForInjection'[c] >= 1
         /\ owed' \in [CPUs -> Seq(Events)]
         /\ NmiOwed(c)' <=> NmiOwed(c) \/ event = "nmi"
         /\ \A d \in CPUs \ {c} :
              /\ PendingEventForInjection'[d] = PendingEventForInjection[d]
              /\ NmiOwed(d)' <=> NmiOwed(d)
<1>1. owed[c] \in Seq(Events) /\ PendingEventForInjection[c] \in Nat
  BY DEF TypeOK
<1>2. /\ PendingEventForInjection' \in [CPUs -> Nat]
      /\ PendingEventForInjection'[c] >= 1
      /\ \A d \in CPUs \ {c} : PendingEventForInjection'[d] = PendingEventForInjection[d]
  BY <1>1 DEF IncrementPending, TypeOK
<1>3. owed' = [owed EXCEPT ![c] = Append(owed[c], event)]
  BY DEF IncrementPending
<1>4. /\ Append(owed[c], event) \in Seq(Events)
      /\ Len(Append(owed[c], event)) = Len(owed[c]) + 1
      /\ \A i \in 1 .. Len(owed[c]) : Append(owed[c], event)[i] = owed[c][i]
      /\ Append(owed[c], event)[Len(owed[c]) + 1] = event
  BY <1>1
<1>5. owed' \in [CPUs -> Seq(Events)]
  BY <1>3, <1>4 DEF TypeOK
<1>6. owed'[c] = Append(owed[c], event) /\ \A d \in CPUs \ {c} : owed'[d] = owed[d]
  BY <1>3 DEF TypeOK
<1>7. \A d \in CPUs \ {c} : NmiOwed(d)' <=> NmiOwed(d)
  BY <1>6 DEF NmiOwed
<1>8. /\ DOMAIN owed[c] = 1 .. Len(owed[c]) /\ Len(owed[c]) \in Nat
      /\ DOMAIN owed'[c] = 1 .. Len(owed[c]) + 1
  BY <1>1, <1>4, <1>6
<1>9. NmiOwed(c)' <=> NmiOwed(c) \/ event = "nmi"
  <2>1. NmiOwed(c) => NmiOwed(c)'
    BY <1>4, <1>6, <1>8 DEF NmiOwed
  <2>2. event = "nmi" => NmiOwed(c)'
    <3>1. Len(owed[c]) + 1 \in DOMAIN owed'[c] /\ owed'[c][Len(owed[c]) + 1] = event
      BY <1>4, <1>6, <1>8
    <3>2. QED
      BY <3>1 DEF NmiOwed
  <2>3. NmiOwed(c)' => NmiOwed(c) \/ event = "nmi"
    <3> SUFFICES ASSUME NEW i \in DOMAIN owed'[c], owed'[c][i] = "nmi", event # "nmi"
                 PROVE  NmiOwed(c)
      BY DEF NmiOwed
    <3>1. i \in 1 .. Len(owed[c])
      BY <1>4, <1>6, <1>8
    <3>2. QED
      BY <3>1, <1>4, <1>6, <1>8 DEF NmiOwed
  <2>4. QED
    BY <2>1, <2>2, <2>3
<1>10. QED
  BY <1>2, <1>5, <1>7, <1>9

-----------------------------------------------------------------------------

LEMMA TypeInit == Init => TypeOK
<1> SUFFICES ASSUME Init PROVE TypeOK
  OBVIOUS
<1>1. activity \in [CPUs -> {"active", "waitForSIPI"}]
  BY DEF Init
<1>2. owed \in [CPUs -> Seq(Events)]
  BY DEF Init
<1>3. QED
  BY <1>1, <1>2 DEF Init, TypeOK, Events, Labels, Stopped

(* Every variable of every CPU keeps its type.                             *)
THEOREM TypeCorrect == Spec => []TypeOK
<1>1. Init => TypeOK
  BY TypeInit
<1>2. TypeOK /\ [Next]_vars => TypeOK'
  <2> SUFFICES ASSUME TypeOK, [Next]_vars PROVE TypeOK'
    OBVIOUS
  <2> USE NmiAssumption DEF TypeOK, Labels, Stopped, Goto, GotoNmi, lockVars, vcpuVars
  <2>1. CASE UNCHANGED vars
    BY <2>1 DEF vars
  <2>2. CASE Next
    <3>1. PICK c \in CPUs : LockMove(c) \/ EventMove(c) \/ PlainMove(c)
      BY <2>2, NextMoves
    <3>2. CASE LockMove(c)
      <4>1. CASE LogTake(c) \/ LogSetHolder(c) \/ LogClearHolder(c) \/ LogFree(c)
        BY <4>1 DEF LogTake, LogSetHolder, LogClearHolder, LogFree
      <4>2. CASE NmiReleaseLock(c)
        BY <4>2 DEF NmiReleaseLock
      <4>3. CASE NmiReacquireLock(c)
        BY <4>3 DEF NmiReacquireLock
      <4>4. QED
        BY <3>2, <4>1, <4>2, <4>3 DEF LockMove
    <3>3. CASE EventMove(c)
      <4>1. CASE VmEntry(c)
        <5>1. owed' \in [CPUs -> Seq(Events)]
          BY <4>1, << >> \in Seq(Events) DEF VmEntry
        <5>2. QED
          BY <4>1, <5>1 DEF VmEntry
      <4>2. CASE InjectException(c)
        <5>1. /\ PendingEventForInjection' \in [CPUs -> Nat]
              /\ owed' \in [CPUs -> Seq(Events)]
          BY <4>2, CountedOwes, "exception" \in Events DEF InjectException, Events
        <5>2. QED
          BY <4>2, <5>1 DEF InjectException
      <4>3. CASE InjectExceptionWrite(c)
        BY <4>3 DEF InjectExceptionWrite, WriteIntInfo, Events
      <4>4. CASE VmxResumeGuest(c)
        BY <4>4 DEF VmxResumeGuest
      <4>5. CASE NmiInject(c)
        <5>1. /\ PendingEventForInjection' \in [CPUs -> Nat]
              /\ owed' \in [CPUs -> Seq(Events)]
          BY <4>5, CountedOwes, "nmi" \in Events DEF NmiInject, Events
        <5>2. QED
          BY <4>5, <5>1 DEF NmiInject
      <4>6. CASE NmiWrite(c)
        BY <4>6 DEF NmiWrite, WriteIntInfo, Events
      <4>7. QED
        BY <3>3, <4>1, <4>2, <4>3, <4>4, <4>5, <4>6 DEF EventMove
    <3>4. CASE PlainMove(c)
      <4>1. CASE VmxStartGuest(c) \/ VmExit(c)
        BY <4>1 DEF VmxStartGuest, VmExit
      <4>2. CASE Handle(c) \/ LogSend(c) \/ NothingToInject(c)
        BY <4>2 DEF Handle, LogSend, NothingToInject
      <4>3. CASE Nmi(c)
        BY <4>3 DEF Nmi
      <4>4. QED
        BY <3>4, <4>1, <4>2, <4>3 DEF PlainMove
    <3>5. QED
      BY <3>1, <3>2, <3>3, <3>4
  <2>3. QED
    BY <2>1, <2>2
<1>3. QED
  BY <1>1, <1>2, PTL DEF Spec

-----------------------------------------------------------------------------

LEMMA LockInvInit == Init => LockInv
<1> SUFFICES ASSUME Init PROVE LockInv
  OBVIOUS
<1>1. TypeOK
  BY TypeInit
<1>2. \A c \in CPUs : pc[c] = "start" /\ nmi[c] = "none" /\ Has(c) = "nothing"
  BY DEF Init, Has, Took
<1>3. QED
  BY <1>1, <1>2, NmiAssumption
     DEF Init, LockInv, HandlerIsOnTop, HandlerKnows, OwnerIsRecorded,
         LockAssertHolds, HandlerBusy

(* A step of c leaves where every other CPU is, and so what it has.        *)
LEMMA OthersStay ==
  ASSUME TypeOK, NEW c \in CPUs, LockMove(c) \/ EventMove(c) \/ PlainMove(c),
         NEW d \in CPUs, d # c
  PROVE  /\ pc'[d] = pc[d] /\ nmi'[d] = nmi[d]
         /\ releasedLock'[d] = releasedLock[d]
         /\ Has(d)' = Has(d)
<1> USE DEF TypeOK, Goto, GotoNmi
<1>1. pc'[d] = pc[d]
  <2>1. CASE LockMove(c)
    BY <2>1 DEF LockMove, LogTake, LogSetHolder, LogClearHolder, LogFree,
                NmiReleaseLock, NmiReacquireLock
  <2>2. CASE EventMove(c)
    BY <2>2 DEF EventMove, VmEntry, InjectException, InjectExceptionWrite,
                VmxResumeGuest, NmiInject, NmiWrite
  <2>3. CASE PlainMove(c)
    BY <2>3 DEF PlainMove, VmxStartGuest, VmExit, Handle, LogSend,
                NothingToInject, Nmi
  <2>4. QED
    BY <2>1, <2>2, <2>3
<1>2. nmi'[d] = nmi[d]
  <2>1. CASE LockMove(c)
    BY <2>1 DEF LockMove, LogTake, LogSetHolder, LogClearHolder, LogFree,
                NmiReleaseLock, NmiReacquireLock
  <2>2. CASE EventMove(c)
    BY <2>2 DEF EventMove, VmEntry, InjectException, InjectExceptionWrite,
                VmxResumeGuest, NmiInject, NmiWrite
  <2>3. CASE PlainMove(c)
    BY <2>3 DEF PlainMove, VmxStartGuest, VmExit, Handle, LogSend,
                NothingToInject, Nmi
  <2>4. QED
    BY <2>1, <2>2, <2>3
<1>3. releasedLock'[d] = releasedLock[d]
  <2>1. CASE LockMove(c)
    BY <2>1 DEF LockMove, LogTake, LogSetHolder, LogClearHolder, LogFree,
                NmiReleaseLock, NmiReacquireLock
  <2>2. CASE EventMove(c)
    BY <2>2 DEF EventMove, VmEntry, InjectException, InjectExceptionWrite,
                VmxResumeGuest, NmiInject, NmiWrite
  <2>3. CASE PlainMove(c)
    BY <2>3 DEF PlainMove, VmxStartGuest, VmExit, Handle, LogSend,
                NothingToInject, Nmi
  <2>4. QED
    BY <2>1, <2>2, <2>3
<1>4. QED
  BY <1>1, <1>2, <1>3 DEF Has, GivenAway, HandlerBusy

(* How a step of c can change what it has of the lock, and the lock.       *)
KeepsLock(c) ==
  /\ owner' = owner /\ Holder' = Holder
  /\ Has(c)' = Has(c) \/ (Has(c)' = "nothing" /\ Has(c) # "both")

GetsLock(c) ==
  \/ /\ Has(c) = "nothing" /\ Has(c)' = "state"
     /\ owner = NoCpu /\ owner' = c /\ Holder' = Holder
  \/ /\ Has(c) = "nothing" /\ Has(c)' = "both"
     /\ owner = NoCpu /\ owner' = c /\ Holder' = c

ChangesHolder(c) ==
  \/ Has(c) = "state" /\ Has(c)' = "both" /\ owner' = owner /\ Holder' = c
  \/ Has(c) = "both" /\ Has(c)' = "state" /\ owner' = owner /\ Holder' = NoCpu

GivesLock(c) ==
  \/ Has(c) = "state" /\ Has(c)' = "nothing" /\ owner' = NoCpu /\ Holder' = Holder
  \/ Has(c) = "both" /\ Has(c)' = "nothing" /\ owner' = NoCpu /\ Holder' = NoCpu

(* Every step is one of these, and leaves the handler on top of code that  *)
(* has not stopped and knowing what it gave away.                          *)
CpuStaysSound(c) ==
  /\ nmi'[c] # "none" => pc'[c] \notin Stopped \cup {"guest"}
  /\ HandlerBusy(c)' => (releasedLock'[c] <=> pc'[c] \in WroteHolder)
  /\ pc'[c] # "lockPanic"

LEMMA PlainKeepsLock ==
  ASSUME LockInv, NEW c \in CPUs, PlainMove(c)
  PROVE  KeepsLock(c) /\ CpuStaysSound(c)
<1> USE DEF LockInv, TypeOK, HandlerIsOnTop, HandlerKnows, LockAssertHolds,
            KeepsLock, CpuStaysSound, Has, GivenAway, HandlerBusy, Took,
            WroteHolder, Stopped, Goto, GotoNmi, At, lockVars
<1>1. CASE VmxStartGuest(c) \/ VmExit(c)
  BY <1>1 DEF VmxStartGuest, VmExit
<1>2. CASE Handle(c) \/ LogSend(c) \/ NothingToInject(c)
  BY <1>2 DEF Handle, LogSend, NothingToInject
<1>3. CASE Nmi(c)
  BY <1>3 DEF Nmi
<1>4. QED
  BY <1>1, <1>2, <1>3 DEF PlainMove

LEMMA EventKeepsLock ==
  ASSUME LockInv, NEW c \in CPUs, EventMove(c)
  PROVE  KeepsLock(c) /\ CpuStaysSound(c)
<1> USE DEF LockInv, TypeOK, HandlerIsOnTop, HandlerKnows, LockAssertHolds,
            KeepsLock, CpuStaysSound, Has, GivenAway, HandlerBusy, Took,
            WroteHolder, Stopped, Goto, GotoNmi, At, InNmi, lockVars
<1>1. CASE VmEntry(c)
  BY <1>1 DEF VmEntry
<1>2. CASE InjectException(c)
  BY <1>2 DEF InjectException
<1>3. CASE InjectExceptionWrite(c) \/ VmxResumeGuest(c)
  BY <1>3 DEF InjectExceptionWrite, VmxResumeGuest
<1>4. CASE NmiInject(c)
  BY <1>4 DEF NmiInject
<1>5. CASE NmiWrite(c)
  BY <1>5 DEF NmiWrite
<1>6. QED
  BY <1>1, <1>2, <1>3, <1>4, <1>5 DEF EventMove

LEMMA LockMoveIsOne ==
  ASSUME LockInv, NEW c \in CPUs, LockMove(c)
  PROVE  /\ KeepsLock(c) \/ GetsLock(c) \/ ChangesHolder(c) \/ GivesLock(c)
         /\ CpuStaysSound(c)
<1> USE DEF LockInv, TypeOK, HandlerIsOnTop, HandlerKnows, LockAssertHolds,
            CpuStaysSound, Has, GivenAway, HandlerBusy, Took,
            WroteHolder, Stopped, Goto, GotoNmi, At, InNmi
<1>a. Has(c) = "both" <=> Holder = c
  BY DEF OwnerIsRecorded
<1>1. CASE LogTake(c)
  BY <1>1 DEF LogTake, GetsLock
<1>2. CASE LogSetHolder(c)
  BY <1>2 DEF LogSetHolder, ChangesHolder
<1>3. CASE LogClearHolder(c)
  <2>1. Has(c) = "both"
    BY <1>3 DEF LogClearHolder
  <2>2. QED
    BY <1>a, <1>3, <2>1 DEF LogClearHolder, ChangesHolder
<1>4. CASE LogFree(c)
  BY <1>4 DEF LogFree, GivesLock
<1>5. CASE NmiReleaseLock(c)
  <2>1. CASE Holder = c
    BY <1>a, <1>5, <2>1 DEF NmiReleaseLock, GivesLock
  <2>2. CASE Holder # c
    BY <1>a, <1>5, <2>2 DEF NmiReleaseLock, KeepsLock
  <2>3. QED
    BY <2>1, <2>2
<1>6. CASE NmiReacquireLock(c)
  <2>1. CASE releasedLock[c]
    BY <1>6, <2>1 DEF NmiReacquireLock, GetsLock
  <2>2. CASE ~ releasedLock[c]
    BY <1>6, <2>2 DEF NmiReacquireLock, KeepsLock
  <2>3. QED
    BY <2>1, <2>2
<1>7. QED
  BY <1>1, <1>2, <1>3, <1>4, <1>5, <1>6 DEF LockMove

LEMMA LockInvStep ==
  ASSUME LockInv, TypeOK', [Next]_vars
  PROVE  LockInv'
<1>1. CASE UNCHANGED vars
  BY <1>1 DEF vars, lockVars, vcpuVars, LockInv, TypeOK, HandlerIsOnTop, HandlerKnows,
              OwnerIsRecorded, LockAssertHolds, HandlerBusy, Has, GivenAway
<1>2. CASE Next
  <2>1. PICK c \in CPUs : LockMove(c) \/ EventMove(c) \/ PlainMove(c)
    BY <1>2, NextMoves
  <2>2. \A d \in CPUs \ {c} :
          /\ pc'[d] = pc[d] /\ nmi'[d] = nmi[d]
          /\ releasedLock'[d] = releasedLock[d] /\ Has(d)' = Has(d)
    BY <2>1, OthersStay DEF LockInv
  <2>3. /\ KeepsLock(c) \/ GetsLock(c) \/ ChangesHolder(c) \/ GivesLock(c)
        /\ CpuStaysSound(c)
    BY <2>1, PlainKeepsLock, EventKeepsLock, LockMoveIsOne
  <2>4. HandlerIsOnTop' /\ HandlerKnows' /\ LockAssertHolds'
    BY <2>2, <2>3 DEF LockInv, CpuStaysSound, HandlerIsOnTop, HandlerKnows,
                      LockAssertHolds, HandlerBusy
  <2>5. OwnerIsRecorded'
    <3> USE NmiAssumption DEF LockInv, TypeOK, OwnerIsRecorded
    <3>1. CASE KeepsLock(c)
      <4>1. owner' = owner /\ Holder' = Holder
        BY <3>1 DEF KeepsLock
      <4>2. CASE Has(c)' = Has(c)
        <5>1. \A d \in CPUs : Has(d)' = Has(d)
          BY <2>2, <4>2
        <5>2. QED
          BY <4>1, <5>1
      <4>3. CASE Has(c)' = "nothing" /\ Has(c) # "both"
        BY <2>2, <4>1, <4>3
      <4>4. QED
        BY <3>1, <4>2, <4>3 DEF KeepsLock
    <3>2. CASE GetsLock(c)
      BY <2>2, <3>2 DEF GetsLock
    <3>3. CASE ChangesHolder(c)
      BY <2>2, <3>3 DEF ChangesHolder
    <3>4. CASE GivesLock(c)
      BY <2>2, <3>4 DEF GivesLock
    <3>5. QED
      BY <2>3, <3>1, <3>2, <3>3, <3>4
  <2>6. QED
    BY <2>4, <2>5 DEF LockInv
<1>3. QED
  BY <1>1, <1>2

(* The ASSERT in ReleaseLock: whatever instruction the NMI struck, the LOG *)
(* it interrupted finds itself the Holder of SerialLock again.             *)
THEOREM LockAssertAlwaysHolds == Spec => []LockAssertHolds
<1>1. Init => LockInv
  BY LockInvInit
<1>2. LockInv /\ TypeOK' /\ [Next]_vars => LockInv'
  BY LockInvStep
<1>3. LockInv => LockAssertHolds
  BY DEF LockInv
<1>4. QED
  BY <1>1, <1>2, <1>3, TypeCorrect, PTL DEF Spec

-----------------------------------------------------------------------------

(* A step of c leaves the events of every other CPU's guest alone.         *)
LEMMA OthersKeepEvents ==
  ASSUME TypeOK, NEW c \in CPUs, LockMove(c) \/ EventMove(c) \/ PlainMove(c),
         NEW d \in CPUs, d # c
  PROVE  DeliveryAt(d)' <=> DeliveryAt(d)
<1>1. pc'[d] = pc[d] /\ nmi'[d] = nmi[d]
  BY OthersStay
<1>2. CASE LockMove(c) \/ PlainMove(c)
  <2>1. UNCHANGED << PendingEventForInjection, intInfo, owed >>
    BY <1>2 DEF LockMove, LogTake, LogSetHolder, LogClearHolder, LogFree,
                NmiReleaseLock, NmiReacquireLock, PlainMove, VmxStartGuest, VmExit,
                Handle, LogSend, NothingToInject, Nmi, vcpuVars
  <2>2. QED
    BY <1>1, <2>1 DEF DeliveryAt, OwedIsCounted, ExceptionFirst, NothingOwedInGuest,
                      OwedIsWritten, NmiOwed
<1>3. CASE EventMove(c)
  <2>1. /\ PendingEventForInjection'[d] = PendingEventForInjection[d]
        /\ intInfo'[d] = intInfo[d] /\ owed'[d] = owed[d]
    BY <1>3 DEF TypeOK, EventMove, VmEntry, InjectException, InjectExceptionWrite,
                VmxResumeGuest, NmiInject, NmiWrite, IncrementPending, WriteIntInfo
  <2>2. QED
    BY <1>1, <2>1 DEF DeliveryAt, OwedIsCounted, ExceptionFirst, NothingOwedInGuest,
                      OwedIsWritten, NmiOwed
<1>4. QED
  BY <1>2, <1>3

(* A step that touches no event: c goes where the counter may be smaller,  *)
(* or stays; it leaves the guest owing nothing, and never for injectWrite. *)
LEMMA QuietDelivers ==
  ASSUME LockInv, DeliveryInv, NEW c \in CPUs, LockMove(c) \/ PlainMove(c)
  PROVE  DeliveryAt(c)'
<1>1. UNCHANGED << PendingEventForInjection, intInfo, owed >>
  BY DEF LockMove, LogTake, LogSetHolder, LogClearHolder, LogFree,
         NmiReleaseLock, NmiReacquireLock, PlainMove, VmxStartGuest, VmExit,
         Handle, LogSend, NothingToInject, Nmi, vcpuVars
<1>2. NmiOwed(c)' = NmiOwed(c)
  BY <1>1 DEF NmiOwed
<1> USE <1>1, <1>2
        DEF DeliveryInv, DeliveryAt, OwedIsCounted, ExceptionFirst,
            NothingOwedInGuest, OwedIsWritten, LockInv, TypeOK, Took, Stopped,
            Goto, GotoNmi, At, InNmi
<1>3. CASE LogTake(c) \/ LogSetHolder(c)
  BY <1>3 DEF LogTake, LogSetHolder
<1>4. CASE LogClearHolder(c) \/ LogFree(c)
  BY <1>4 DEF LogClearHolder, LogFree
<1>5. CASE NmiReleaseLock(c)
  BY <1>5 DEF NmiReleaseLock
<1>6. CASE NmiReacquireLock(c)
  BY <1>6 DEF NmiReacquireLock
<1>7. CASE VmxStartGuest(c) \/ VmExit(c)
  BY <1>7 DEF VmxStartGuest, VmExit
<1>8. CASE Handle(c) \/ LogSend(c) \/ NothingToInject(c)
  BY <1>8 DEF Handle, LogSend, NothingToInject
<1>9. CASE Nmi(c)
  BY <1>9 DEF Nmi
<1>10. QED
  BY <1>3, <1>4, <1>5, <1>6, <1>7, <1>8, <1>9 DEF LockMove, PlainMove

(* A step that moves an event.                                             *)
LEMMA EventDelivers ==
  ASSUME LockInv, DeliveryInv, NEW c \in CPUs, EventMove(c)
  PROVE  DeliveryAt(c)'
<1> USE DEF DeliveryInv, DeliveryAt, OwedIsCounted, ExceptionFirst,
            NothingOwedInGuest, OwedIsWritten, LockInv, TypeOK, HandlerIsOnTop,
            Took, Stopped, Goto, GotoNmi, At, InNmi
<1>1. CASE VmEntry(c)
  <2>1. CASE pc'[c] = "entryFailure"
    BY <2>1
  <2>2. CASE pc'[c] # "entryFailure"
    <3>1. owed'[c] = << >> /\ pc'[c] = "guest"
      BY <1>1, <2>2 DEF VmEntry
    <3>2. ~ NmiOwed(c)'
      BY <3>1 DEF NmiOwed
    <3>3. QED
      BY <3>1, <3>2
  <2>3. QED
    BY <2>1, <2>2
<1>2. CASE InjectException(c)
  <2>1. /\ PendingEventForInjection'[c] >= 1
        /\ NmiOwed(c)' <=> NmiOwed(c)
    BY <1>2, CountedOwes DEF InjectException, Events
  <2>2. CASE FirstPending(c)
    <3>1. pc'[c] = "injectWrite" /\ nmi'[c] = "none" /\ pc[c] = "handled"
      BY <1>2, <2>2 DEF InjectException
    <3>2. ~ NmiOwed(c)
      BY <2>2, <3>1 DEF FirstPending
    <3>3. QED
      BY <2>1, <3>1, <3>2
  <2>3. CASE ~ FirstPending(c)
    BY <1>2, <2>3 DEF InjectException
  <2>4. QED
    BY <2>2, <2>3
<1>3. CASE InjectExceptionWrite(c)
  <2>1. NmiOwed(c)' = NmiOwed(c) /\ ~ NmiOwed(c)
    BY <1>3 DEF InjectExceptionWrite, NmiOwed
  <2>2. pc'[c] = "resume"
    BY <1>3 DEF InjectExceptionWrite
  <2>3. QED
    BY <2>1, <2>2
<1>4. CASE VmxResumeGuest(c)
  <2>1. NmiOwed(c)' = NmiOwed(c)
    BY <1>4 DEF VmxResumeGuest, NmiOwed
  <2>2. QED
    BY <1>4, <2>1 DEF VmxResumeGuest
<1>5. CASE NmiInject(c)
  <2>1. PendingEventForInjection'[c] >= 1
    BY <1>5, CountedOwes DEF NmiInject, Events
  <2>2. CASE FirstPending(c)
    <3>1. nmi'[c] = "write" /\ pc'[c] = pc[c]
      BY <1>5, <2>2 DEF NmiInject
    <3>2. pc[c] \notin { "injectWrite", "guest" }
      BY <1>5, <2>2 DEF NmiInject, FirstPending
    <3>3. QED
      BY <2>1, <3>1, <3>2
  <2>3. CASE ~ FirstPending(c)
    BY <1>5, <2>3 DEF NmiInject
  <2>4. QED
    BY <2>2, <2>3
<1>6. CASE NmiWrite(c)
  <2>1. NmiOwed(c)' = NmiOwed(c)
    BY <1>6 DEF NmiWrite, NmiOwed
  <2>2. /\ intInfo'[c] = "nmi" /\ pc'[c] = pc[c] /\ nmi[c] = "write"
        /\ PendingEventForInjection' = PendingEventForInjection
    BY <1>6 DEF NmiWrite, WriteIntInfo
  <2>3. QED
    BY <2>1, <2>2
<1>7. QED
  BY <1>1, <1>2, <1>3, <1>4, <1>5, <1>6 DEF EventMove

LEMMA DeliveryInvStep ==
  ASSUME LockInv, DeliveryInv, [Next]_vars
  PROVE  DeliveryInv'
<1>1. CASE UNCHANGED vars
  BY <1>1 DEF vars, vcpuVars, DeliveryInv, DeliveryAt, OwedIsCounted, ExceptionFirst,
              NothingOwedInGuest, OwedIsWritten, NmiOwed
<1>2. CASE Next
  <2>1. PICK c \in CPUs : LockMove(c) \/ EventMove(c) \/ PlainMove(c)
    BY <1>2, NextMoves
  <2>2. DeliveryAt(c)'
    BY <2>1, QuietDelivers, EventDelivers
  <2>3. \A d \in CPUs \ {c} : DeliveryAt(d)'
    BY <2>1, OthersKeepEvents DEF LockInv, DeliveryInv
  <2>4. QED
    BY <2>2, <2>3 DEF DeliveryInv
<1>3. QED
  BY <1>1, <1>2

(* No event the interrupted code or a later NMI writes replaces an NMI the *)
(* host took for its guest: the next VM entry delivers it.                 *)
THEOREM NmiIsAlwaysDelivered == Spec => []NmiIsDelivered
<1>1. Init => LockInv
  BY LockInvInit
<1>2. Init => DeliveryInv
  <2> SUFFICES ASSUME Init, NEW c \in CPUs PROVE DeliveryAt(c)
    BY DEF DeliveryInv
  <2>1. pc[c] = "start" /\ owed[c] = << >>
    BY DEF Init
  <2>2. ~ NmiOwed(c)
    BY <2>1 DEF NmiOwed
  <2>3. QED
    BY <2>1, <2>2 DEF DeliveryAt, OwedIsCounted, ExceptionFirst, NothingOwedInGuest,
                      OwedIsWritten
<1>3. LockInv /\ TypeOK' /\ [Next]_vars => LockInv'
  BY LockInvStep
<1>4. LockInv /\ DeliveryInv /\ [Next]_vars => DeliveryInv'
  BY DeliveryInvStep
<1>5. DeliveryInv => NmiIsDelivered
  <2> SUFFICES ASSUME DeliveryInv, NEW c \in CPUs, At(c, "enter"), NmiOwed(c)
               PROVE  intInfo[c] = "nmi"
    BY DEF NmiIsDelivered, NmiOwed
  <2>1. pc[c] \notin Stopped /\ nmi[c] # "write"
    BY DEF At, Stopped
  <2>2. QED
    BY <2>1 DEF DeliveryInv, DeliveryAt, OwedIsWritten
<1>6. QED
  BY <1>1, <1>2, <1>3, <1>4, <1>5, TypeCorrect, PTL DEF Spec

=============================================================================
