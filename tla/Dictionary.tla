------------------------------- MODULE Dictionary -------------------------------
(* What the users of a hash table rely on (hash_table.h): a key finds the element that
   was inserted last under it, until that is removed, and the size is the number of
   keys that find one. *)
EXTENDS FiniteSets, Integers

CONSTANTS Elements, Keys, KeyOf, NoElement
VARIABLES dict, size

DictInit == dict = [k \in Keys |-> NoElement] /\ size = 0

DictInsert(e) == dict' = [dict EXCEPT ![KeyOf[e]] = e]
DictRemove(k) == dict[k] # NoElement /\ dict' = [dict EXCEPT ![k] = NoElement]

DictNext ==
    /\ (\E e \in Elements : DictInsert(e)) \/ (\E k \in Keys : DictRemove(k))
    /\ size' = Cardinality({k \in Keys : dict'[k] # NoElement})

DictSpec == DictInit /\ [][DictNext]_<<dict, size>>
===============================================================================
