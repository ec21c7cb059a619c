---------------------------- MODULE RecRwSpinLock ----------------------------
(***************************************************************************)
(* REC_RW_SPINLOCK (CommonLib/src/rec_rw_spinlock.c): a readers-writer     *)
(* lock its exclusive holder may take again, up to MaxRecursivityDepth.    *)
(* It extends RwSpinLock, the inner lock, whose actions run whenever the   *)
(* code is inside RwSpinlockAcquire or RwSpinlockRelease and whose         *)
(* properties are checked of it in this use.                               *)
(*                                                                         *)
(* minihvex/dmp_common.c guards its dump buffers with one, of depth 2.     *)
(***************************************************************************)
EXTENDS RwSpinLock, Sequences

CONSTANT MaxRecursivityDepth  (* what RecRwSpinlockInit stores             *)

ASSUME RecAssumption == MaxRecursivityDepth \in 1..255

VARIABLES
  CurrentRecursivityDepth,
  Holder,
  outer,       (* outer[c]: what each outstanding Acquire returned to c,   *)
               (* the latest last                                          *)
  Exclusive,   (* Exclusive[c]: the argument of c's current call           *)
  callerIntr,  (* callerIntr[c]: Intr[c] outside of the lock (history)     *)
  recpc

recWords == << CurrentRecursivityDepth, Holder >>
recVars == << vars, recWords, outer, Exclusive, callerIntr, recpc >>

RecLabels ==
  { "idle", "enter", "acquiring", "setHolder", "held", "heldShared",
    "clearHolder", "callRelease", "releasing", "panic" }

RecAt(c, label) == recpc[c] = label
RecGoto(c, label) == recpc' = [recpc EXCEPT ![c] = label]

RecInit ==
  /\ Init
  /\ CurrentRecursivityDepth = 0
  /\ Holder = NoCpu
  /\ outer = [c \in CPUs |-> << >>]
  /\ Exclusive = [c \in CPUs |-> FALSE]
  /\ callerIntr = Intr
  /\ recpc = [c \in CPUs |-> "idle"]

-----------------------------------------------------------------------------
(* RecRwSpinlockAcquire                                                    *)

(* CpuIntrDisable.  Only the exclusive holder may call again, and only for *)
(* exclusive access (the SAL annotations of rec_rw_spinlock.h:36-38); its  *)
(* callers nest no deeper than the lock allows.                            *)
RecAcquire(c, excl) ==
  /\ \/ RecAt(c, "idle")
     \/ RecAt(c, "held") /\ excl /\ Len(outer[c]) < MaxRecursivityDepth
  /\ outer' = [outer EXCEPT ![c] = Append(@, Intr[c])]
  /\ Intr' = [Intr EXCEPT ![c] = INTR_OFF]
  /\ Exclusive' = [Exclusive EXCEPT ![c] = excl]
  /\ RecGoto(c, "enter")
  /\ UNCHANGED << WaitingWriters, ActiveWriter, ActiveReaders, IntrState,
                  pc, recWords, callerIntr >>

(* Mutant: the Holder is not compared.                                     *)
ReentersAnybody(c) == Exclusive[c] /\ Holder # NoCpu

Reenters(c) == Exclusive[c] /\ Holder = c

(* The holder comes back: ASSERT_INFO on the depth, then one level more.   *)
Reenter(c) ==
  /\ RecAt(c, "enter")
  /\ Reenters(c)
  /\ IF CurrentRecursivityDepth < MaxRecursivityDepth
     THEN /\ CurrentRecursivityDepth' = CurrentRecursivityDepth + 1
          /\ RecGoto(c, "held")
     ELSE /\ RecGoto(c, "panic")
          /\ UNCHANGED CurrentRecursivityDepth
  /\ UNCHANGED << vars, Holder, outer, Exclusive, callerIntr >>

(* Anybody else calls RwSpinlockAcquire.                                   *)
CallRwAcquire(c) ==
  /\ RecAt(c, "enter")
  /\ ~Reenters(c)
  /\ Acquire(c, Exclusive[c])
  /\ RecGoto(c, "acquiring")
  /\ UNCHANGED << recWords, outer, Exclusive, callerIntr >>

InsideRwAcquire(c) ==
  /\ RecAt(c, "acquiring")
  /\ AcquireStep(c)
  /\ UNCHANGED << recWords, outer, Exclusive, callerIntr, recpc >>

(* RwSpinlockAcquire returned: the two ASSERTs, then the depth.            *)
RwAcquired(c) ==
  /\ RecAt(c, "acquiring")
  /\ pc[c] = (IF Exclusive[c] THEN "writing" ELSE "reading")
  /\ IF Holder = NoCpu /\ CurrentRecursivityDepth = 0
     THEN IF Exclusive[c]
          THEN CurrentRecursivityDepth' = 1 /\ RecGoto(c, "setHolder")
          ELSE UNCHANGED CurrentRecursivityDepth /\ RecGoto(c, "heldShared")
     ELSE UNCHANGED CurrentRecursivityDepth /\ RecGoto(c, "panic")
  /\ UNCHANGED << vars, Holder, outer, Exclusive, callerIntr >>

SetHolder(c) ==
  /\ RecAt(c, "setHolder")
  /\ Holder' = c
  /\ RecGoto(c, "held")
  /\ UNCHANGED << vars, CurrentRecursivityDepth, outer, Exclusive, callerIntr >>

-----------------------------------------------------------------------------
(* RecRwSpinlockRelease, with the state the matching Acquire returned.     *)

(* ASSERT(INTR_OFF) and ASSERT(pCurrentCpu == Holder), one level less, and *)
(* nothing more while a level is left: Intr stays as it is.                *)
RecReleaseExclusive(c) ==
  /\ RecAt(c, "held")
  /\ IF Intr[c] = INTR_OFF /\ Holder = c
     THEN /\ CurrentRecursivityDepth' = CurrentRecursivityDepth - 1
          /\ IF CurrentRecursivityDepth' = 0
             THEN RecGoto(c, "clearHolder") /\ UNCHANGED outer
             ELSE /\ outer' = [outer EXCEPT ![c] = SubSeq(@, 1, Len(@) - 1)]
                  /\ UNCHANGED recpc
     ELSE RecGoto(c, "panic") /\ UNCHANGED << CurrentRecursivityDepth, outer >>
  /\ UNCHANGED << vars, Holder, Exclusive, callerIntr >>

RecReleaseShared(c) ==
  /\ RecAt(c, "heldShared")
  /\ RecGoto(c, IF Intr[c] = INTR_OFF THEN "clearHolder" ELSE "panic")
  /\ UNCHANGED << vars, recWords, outer, Exclusive, callerIntr >>

(* Mutant: the Holder stays.                                               *)
KeepHolder(c) ==
  /\ RecAt(c, "clearHolder")
  /\ RecGoto(c, "callRelease")
  /\ UNCHANGED << vars, recWords, outer, Exclusive, callerIntr >>

(* Spinlock->Holder = NULL, by a shared holder too.                        *)
ClearHolder(c) ==
  /\ RecAt(c, "clearHolder")
  /\ Holder' = NoCpu
  /\ RecGoto(c, "callRelease")
  /\ UNCHANGED << vars, CurrentRecursivityDepth, outer, Exclusive, callerIntr >>

(* Mutant: passes what RwSpinlockAcquire returned.                         *)
CallRwReleaseInner(c) ==
  /\ RecAt(c, "callRelease")
  /\ IF Exclusive[c] THEN ReleaseExclusive(c, IntrState[c])
                     ELSE ReleaseShared(c, IntrState[c])
  /\ outer' = [outer EXCEPT ![c] = << >>]
  /\ RecGoto(c, "releasing")
  /\ UNCHANGED << recWords, Exclusive, callerIntr >>

(* RwSpinlockRelease(&RwSpinlock, IntrState, Exclusive)                    *)
CallRwRelease(c) ==
  /\ RecAt(c, "callRelease")
  /\ LET OldIntrState == outer[c][Len(outer[c])]
     IN  IF Exclusive[c] THEN ReleaseExclusive(c, OldIntrState)
                         ELSE ReleaseShared(c, OldIntrState)
  /\ outer' = [outer EXCEPT ![c] = << >>]
  /\ RecGoto(c, "releasing")
  /\ UNCHANGED << recWords, Exclusive, callerIntr >>

InsideRwRelease(c) ==
  /\ RecAt(c, "releasing")
  /\ RestoreIntr(c)
  /\ RecGoto(c, "idle")
  /\ UNCHANGED << recWords, outer, Exclusive, callerIntr >>

-----------------------------------------------------------------------------

RecStep(c) ==
  \/ Reenter(c) \/ CallRwAcquire(c) \/ InsideRwAcquire(c)
  \/ RwAcquired(c) \/ SetHolder(c)
  \/ RecReleaseExclusive(c) \/ RecReleaseShared(c)
  \/ ClearHolder(c) \/ CallRwRelease(c) \/ InsideRwRelease(c)

RecNext ==
  \E c \in CPUs : (\E excl \in BOOLEAN : RecAcquire(c, excl)) \/ RecStep(c)

RecSpec == RecInit /\ [][RecNext]_recVars

(* Each CPU executes its next instruction eventually and gives back what   *)
(* it has acquired; it need not ask for the lock.                          *)
RecFairSpec == RecSpec /\ \A c \in CPUs : WF_recVars(RecStep(c))

-----------------------------------------------------------------------------

RecTypeOK ==
  /\ CurrentRecursivityDepth \in 0..MaxRecursivityDepth
  /\ Holder \in CPUs \cup {NoCpu}
  /\ outer \in [CPUs -> Seq({INTR_ON, INTR_OFF})]
  /\ \A c \in CPUs : Len(outer[c]) \in 0..MaxRecursivityDepth
  /\ Exclusive \in [CPUs -> BOOLEAN]
  /\ callerIntr \in [CPUs -> {INTR_ON, INTR_OFF}]
  /\ recpc \in [CPUs -> RecLabels]

(* The words count what the callers still have to give back: the holder's  *)
(* depth is its number of outstanding acquisitions, and no depth is left   *)
(* over when nobody holds the lock (rec_rw_spinlock.c:56, 69, 93).         *)
DepthIsOutstanding ==
  /\ \A c \in CPUs :
       RecAt(c, "held") => Holder = c /\ CurrentRecursivityDepth = Len(outer[c])
  /\ (\A c \in CPUs : recpc[c] \in {"idle", "heldShared"}) =>
       Holder = NoCpu /\ CurrentRecursivityDepth = 0

(* However deep the nesting, the interrupts stay off until the outermost   *)
(* Release and then return to what they were before the outermost Acquire  *)
(* (rec_rw_spinlock.c:44, 96-101).                                         *)
IntrRestored ==
  \A c \in CPUs :
    Intr[c] = IF RecAt(c, "idle") THEN callerIntr[c] ELSE INTR_OFF

-----------------------------------------------------------------------------
(* The inductive invariant of RecRwSpinLock_proofs.                        *)

(* The exclusive holder in the middle of a nested Acquire.                 *)
Nested(c) == RecAt(c, "enter") /\ pc[c] = "writing"

(* Where the inner lock is while the outer one is at a label.              *)
InnerFollows(c) ==
  /\ RecAt(c, "idle") => pc[c] = "idle"
  /\ RecAt(c, "enter") => pc[c] \in {"idle", "writing"}
  /\ RecAt(c, "acquiring") =>
       pc[c] \in IF Exclusive[c] THEN {"announce", "writerCas", "unannounce", "writing"}
                 ELSE {"readerCas", "countReader", "confess", "reading"}
  /\ recpc[c] \in {"setHolder", "held"} => pc[c] = "writing" /\ Exclusive[c]
  /\ RecAt(c, "heldShared") => pc[c] = "reading" /\ ~Exclusive[c]
  /\ recpc[c] \in {"clearHolder", "callRelease"} =>
       pc[c] = IF Exclusive[c] THEN "writing" ELSE "reading"
  /\ RecAt(c, "releasing") => pc[c] = "restore"

(* Who is in Holder, and what depth that CPU has.                          *)
IsHolder(c) ==
  \/ RecAt(c, "held") \/ Nested(c)
  \/ RecAt(c, "clearHolder") /\ Exclusive[c]
Deep(c) == recpc[c] \in {"setHolder", "held"} \/ Nested(c)

HolderFollows ==
  \A c \in CPUs : Holder = c <=> IsHolder(c)

DepthFollows ==
  /\ \A c \in CPUs :
       /\ RecAt(c, "held") => CurrentRecursivityDepth = Len(outer[c])
       /\ Nested(c) => Exclusive[c] /\ CurrentRecursivityDepth = Len(outer[c]) - 1
       /\ RecAt(c, "setHolder") => CurrentRecursivityDepth = 1
  /\ CurrentRecursivityDepth = 0 <=> \A c \in CPUs : ~Deep(c)

(* The first outstanding acquisition keeps the caller's interrupt state    *)
(* for the last Release.                                                   *)
OuterFollows(c) ==
  /\ recpc[c] \in {"idle", "releasing"} => Len(outer[c]) = 0
  /\ recpc[c] \notin {"idle", "releasing"} => Len(outer[c]) > 0 /\ outer[c][1] = callerIntr[c]
  /\ recpc[c] \notin {"idle", "releasing", "held"} /\ ~Nested(c) => Len(outer[c]) = 1
  /\ RecAt(c, "releasing") => IntrState[c] = callerIntr[c]

(* Neither the recursion's ASSERTs nor those of the inner lock fail, for   *)
(* any mix of nested exclusive and shared callers, although Holder is read *)
(* without the lock at entry and cleared by shared holders                 *)
(* (rec_rw_spinlock.c:49, 64-65, 92, 98): it is the caller itself who is   *)
(* in Holder or not, and the depth follows.                                *)
RecIInv ==
  /\ RecTypeOK
  /\ \A c \in CPUs : InnerFollows(c) /\ OuterFollows(c) /\ ~RecAt(c, "panic")
  /\ HolderFollows /\ DepthFollows
  /\ IntrRestored

=============================================================================
