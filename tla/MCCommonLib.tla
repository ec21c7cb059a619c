-------------------------------- MODULE MCCommonLib --------------------------------
(* The parts of CommonLib that keep data for their users: heap, hash table, search and
   bitmap. They share no state, and a behaviour is one of one of them. *)
EXTENDS Heap, HashTable, Search

CONSTANTS e1, e2, e3, e4

VARIABLE part

\* Two elements with the same key, and keys of both buckets.
MCKeyOf == (e1 :> 0) @@ (e2 :> 2) @@ (e3 :> 2) @@ (e4 :> 1)

SearchIsOff == array = [i \in {0} |-> 0] /\ target = 1 /\ left = 0 /\ right = 0 /\ result = Null

MCInit ==
    /\ part \in {"heap", "table", "search", "bitmap"}
    /\ Init
    /\ HashTableInit
    /\ IF part = "search" THEN SearchInit ELSE SearchIsOff
    /\ BitmapInit

HeapStep   == Next /\ UNCHANGED <<tableVars, searchVars, bitmapVars>>
TableStep  == HashTableNext /\ UNCHANGED <<vars, searchVars, bitmapVars>>
SearchStep == SearchNext /\ UNCHANGED <<vars, tableVars, bitmapVars>>
BitmapStep == BitmapNext /\ UNCHANGED <<vars, tableVars, searchVars>>

MCNext ==
    /\ \/ part = "heap" /\ HeapStep
       \/ part = "table" /\ TableStep
       \/ part = "search" /\ SearchStep
       \/ part = "bitmap" /\ BitmapStep
    /\ UNCHANGED part

MCSpec == MCInit /\ [][MCNext]_<<vars, tableVars, searchVars, bitmapVars, part>>
===============================================================================
