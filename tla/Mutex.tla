-------------------------------- MODULE Mutex --------------------------------
(***************************************************************************)
(* What a LOCK promises its callers, without its words: one owner at a     *)
(* time, and ownership passes from a CPU to another only through nobody.   *)
(***************************************************************************)

CONSTANTS CPUs, NoCpu

VARIABLE owner

Init == owner = NoCpu

Take(c) ==
  /\ owner = NoCpu
  /\ owner' = c

Leave(c) ==
  /\ owner = c
  /\ owner' = NoCpu

Next == \E c \in CPUs : Take(c) \/ Leave(c)

Spec == Init /\ [][Next]_owner

=============================================================================
