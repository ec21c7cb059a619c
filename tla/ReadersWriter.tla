---------------------------- MODULE ReadersWriter ----------------------------
(***************************************************************************)
(* What a readers-writer lock promises, without its words: a writer is     *)
(* alone, readers share.                                                   *)
(***************************************************************************)

CONSTANTS CPUs, NoCpu

VARIABLES writer, readers

vars == << writer, readers >>

Init == writer = NoCpu /\ readers = {}

TakeExclusive(c) ==
  /\ writer = NoCpu
  /\ readers = {}
  /\ writer' = c
  /\ UNCHANGED readers

LeaveExclusive(c) ==
  /\ writer = c
  /\ writer' = NoCpu
  /\ UNCHANGED readers

TakeShared(c) ==
  /\ writer = NoCpu
  /\ readers' = readers \cup {c}
  /\ UNCHANGED writer

LeaveShared(c) ==
  /\ c \in readers
  /\ readers' = readers \ {c}
  /\ UNCHANGED writer

Next ==
  \E c \in CPUs :
    \/ TakeExclusive(c) \/ LeaveExclusive(c)
    \/ TakeShared(c)    \/ LeaveShared(c)

Spec == Init /\ [][Next]_vars

=============================================================================
