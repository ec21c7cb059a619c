-------------------------------- MODULE HashTable --------------------------------
(* The hash table of CommonLib (hash_table.c) and the doubly linked list it is built
   from (list.c), pointer by pointer. A bucket is a list ordered by key; an insert
   under a key that is there takes the place of the element; the iterator goes through
   the buckets and may have the element it has just returned removed, as
   HashTableClear does. *)
EXTENDS Integers, Sequences, FiniteSets

CONSTANTS Elements, KeyOf, MaxKeys, NoElement

Keys == {KeyOf[e] : e \in Elements}
Buckets == 0..MaxKeys - 1
Nodes == Buckets \union Elements

\* There is memory for so many elements only, and the head of a bucket is none of them.
ASSUME HashTableAssumption ==
    /\ MaxKeys \in Nat \ {0} /\ KeyOf \in [Elements -> Nat] /\ IsFiniteSet(Elements)
    /\ NoElement \notin Nodes /\ Buckets \intersect Elements = {}

VARIABLES Flink, Blink,         \* the links of bucket heads and elements
          NumberOfElements,
          KeyIndex,             \* the iterator: the bucket it is in,
          CurrentEntry,         \* and the element it returns next
          inside,               \* is anyone iterating
          lastReturned,         \* what it has returned last
          due, seen             \* elements at the start of the iteration, and returned

tableVars == <<Flink, Blink, NumberOfElements, KeyIndex, CurrentEntry, inside,
               lastReturned, due, seen>>

\* HashFuncGenericIncremental
HashFunc(key) == key % MaxKeys

-------------------------------------------------------------------------------
(* list.c *)

\* The nodes from a list head on, by Flink.
Nth(head) == LET nth[n \in 0..Cardinality(Nodes)] ==
                     IF n = 0 THEN Flink[head] ELSE Flink[nth[n - 1]]
             IN nth

\* Mutant: the new entry is not linked backwards.
LinkForwardOnly(place, e) ==
    /\ Flink' = [Flink EXCEPT ![e] = Flink[place], ![place] = e]
    /\ Blink' = [Blink EXCEPT ![e] = place]

InsertHeadList(place, e) ==
    /\ Flink' = [Flink EXCEPT ![e] = Flink[place], ![place] = e]
    /\ Blink' = [Blink EXCEPT ![e] = place, ![Flink[place]] = e]

\* What is removed keeps its links until its owner frees it.
RemoveEntryList(e) ==
    /\ Flink' = [Flink EXCEPT ![Blink[e]] = Flink[e], ![e] = NoElement]
    /\ Blink' = [Blink EXCEPT ![Flink[e]] = Blink[e], ![e] = NoElement]

\* ListSearchForElement in an ordered list: where it stops.
SearchStop(bucket, key) ==
    LET nth == Nth(bucket)
        stops(n) == nth[n] = bucket \/ KeyOf[nth[n]] >= key
    IN nth[CHOOSE n \in DOMAIN nth : stops(n) /\ \A i \in 0..n - 1 : ~stops(i)]

IsFound(bucket, key) == LET stop == SearchStop(bucket, key)
                        IN stop # bucket /\ KeyOf[stop] = key

-------------------------------------------------------------------------------
(* hash_table.c *)

HashTableInit ==
    /\ Flink = [n \in Nodes |-> IF n \in Buckets THEN n ELSE NoElement]
    /\ Blink = Flink
    /\ NumberOfElements = 0
    /\ KeyIndex = 0 /\ CurrentEntry = 0 /\ inside = FALSE /\ lastReturned = NoElement
    /\ due = {} /\ seen = {}

IsIn(e) == Flink[e] # NoElement

HashTableLookup(key) ==
    LET bucket == HashFunc(key)
    IN IF IsFound(bucket, key) THEN SearchStop(bucket, key) ELSE NoElement

\* _HashTableSearchKeyInBucket: the element itself, or the one it belongs behind, which
\* is what the search stopped at when that has a smaller key.
Placeholder(bucket, key) ==
    LET stop == SearchStop(bucket, key)
    IN IF IsFound(bucket, key) THEN stop ELSE Blink[stop]

\* InsertHeadList behind the placeholder, which is removed if it has the same key.
Replace(old, e) ==
    LET next == Flink[old] IN
    /\ Flink' = [Flink EXCEPT ![e] = next, ![Blink[old]] = e, ![old] = NoElement]
    /\ Blink' = [Blink EXCEPT ![e] = Blink[old], ![next] = e, ![old] = NoElement]

HashTableInsert(e) ==
    /\ ~inside /\ ~IsIn(e)
    /\ LET bucket == HashFunc(KeyOf[e])
           place == Placeholder(bucket, KeyOf[e])
       IN IF IsFound(bucket, KeyOf[e])
          THEN Replace(place, e) /\ UNCHANGED NumberOfElements
          ELSE InsertHeadList(place, e) /\ NumberOfElements' = NumberOfElements + 1
    /\ UNCHANGED <<KeyIndex, CurrentEntry, inside, lastReturned, due, seen>>

HashTableRemoveEntry(e) ==
    /\ RemoveEntryList(e)
    /\ NumberOfElements' = NumberOfElements - 1

HashTableRemove(key) ==
    /\ ~inside
    /\ HashTableLookup(key) # NoElement
    /\ HashTableRemoveEntry(HashTableLookup(key))
    /\ UNCHANGED <<KeyIndex, CurrentEntry, inside, lastReturned, due, seen>>

\* ListIteratorInit of the first bucket.
HashTableIteratorInit ==
    /\ ~inside
    /\ inside' = TRUE
    /\ KeyIndex' = 0 /\ CurrentEntry' = Flink[0]
    /\ due' = {e \in Elements : IsIn(e)} /\ seen' = {} /\ lastReturned' = NoElement
    /\ UNCHANGED <<Flink, Blink, NumberOfElements>>

\* ListIteratorNext: the next element is looked up before this one is returned.
ReturnEntry ==
    /\ inside /\ KeyIndex < MaxKeys /\ CurrentEntry # KeyIndex
    /\ lastReturned' = CurrentEntry
    /\ seen' = seen \union {CurrentEntry}
    /\ CurrentEntry' = Flink[CurrentEntry]
    /\ UNCHANGED <<Flink, Blink, NumberOfElements, KeyIndex, inside, due>>

\* Mutant: the last bucket is taken for the end.
StopsEarly(index) == index + 1 < MaxKeys - 1

HasBucket(index) == index + 1 < MaxKeys

\* The bucket is done. Behind the last one ListIteratorInit reads a head that is not
\* there, and nothing is done with it.
NextBucket ==
    /\ inside /\ KeyIndex < MaxKeys /\ CurrentEntry = KeyIndex
    /\ IF HasBucket(KeyIndex)
       THEN KeyIndex' = KeyIndex + 1 /\ CurrentEntry' = Flink[KeyIndex + 1]
       ELSE KeyIndex' = MaxKeys /\ CurrentEntry' = NoElement
    /\ UNCHANGED <<Flink, Blink, NumberOfElements, inside, lastReturned, due, seen>>

\* The user's loop body: "we can safely remove it from the hash table".
RemoveReturned ==
    /\ inside /\ lastReturned # NoElement /\ IsIn(lastReturned)
    /\ HashTableRemoveEntry(lastReturned)
    /\ UNCHANGED <<KeyIndex, CurrentEntry, inside, lastReturned, due, seen>>

IterationEnds ==
    /\ inside /\ KeyIndex = MaxKeys
    /\ inside' = FALSE
    /\ UNCHANGED <<Flink, Blink, NumberOfElements, KeyIndex, CurrentEntry, lastReturned, due, seen>>

HashTableNext ==
    \/ \E e \in Elements : HashTableInsert(e)
    \/ \E key \in Keys : HashTableRemove(key)
    \/ HashTableIteratorInit \/ ReturnEntry \/ NextBucket \/ RemoveReturned \/ IterationEnds

HashTableSpec == HashTableInit /\ [][HashTableNext]_tableVars

-------------------------------------------------------------------------------
(* Properties *)

\* An iteration returns every element that was there when it started, once, although
\* its user removes what it is given and the links of what is removed are lost.
IterationIsComplete ==
    /\ CurrentEntry \in Elements => IsIn(CurrentEntry) /\ CurrentEntry \notin seen
    /\ KeyIndex = MaxKeys => seen = due

\* Lookup through the ordered buckets always finds what a dictionary would hold, and
\* NumberOfElements is its size, however inserts, replacements and removals have
\* relinked the lists.
AsDictionary == INSTANCE Dictionary WITH
    dict <- [k \in Keys |-> HashTableLookup(k)], size <- NumberOfElements
ImplementsDictionary == AsDictionary!DictSpec
===============================================================================
