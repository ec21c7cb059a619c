---------------------------------- MODULE Search ----------------------------------
(* The searches of CommonLib: BinarySearch in a sorted array (cl_algorithm.c), with
   DWORD arithmetic, turn by turn; and the scan of a bitmap for a run of bits, which
   BitmapScanFromToAndFlip then takes (bitmap.c). *)
EXTENDS Integers, FiniteSetsExt

CONSTANTS MaxDword,       \* a DWORD is 0..MaxDword
          Values,         \* what the arrays hold and what is searched
          MaxElements,    \* bound: the longest array
          BitCount        \* the size of the bitmap

ASSUME SearchAssumption ==
    MaxDword \in Nat /\ Values \subseteq Int /\ MaxElements \in 1..MaxDword /\ BitCount \in 1..MaxDword

VARIABLES array, target,    \* sorted, indexed from 0
          left, right,
          result,           \* how the search stands
          bits,             \* the bits of the bitmap that are set
          runs              \* the runs handed out by a scan and not yet cleared

searchVars == <<array, target, left, right, result>>
bitmapVars == <<bits, runs>>

Going == "going"
Found == "found"         \* the element in the middle
Null == "NULL"
Outside == "outside"     \* an element is read that is not in the array

Dword(n) == n % (MaxDword + 1)

-------------------------------------------------------------------------------
(* BinarySearch *)

Sorted(a) == \A i, j \in DOMAIN a : i < j => a[i] <= a[j]

SearchInit ==
    /\ \E n \in 1..MaxElements :
          /\ array \in {a \in [0..n - 1 -> Values] : Sorted(a)}
          /\ right = n - 1
    /\ target \in Values
    /\ left = 0 /\ result = Going

\* Mutant: an interval of one element is not looked at.
StrictlyOpen == left < right

Open == left <= right

Middle == (left + right) \div 2

Turn ==
    /\ result = Going /\ Open
    /\ IF Middle \notin DOMAIN array
       THEN result' = Outside /\ UNCHANGED <<left, right>>
       ELSE CASE array[Middle] > target ->
                   right' = Dword(Middle - 1) /\ UNCHANGED <<left, result>>
              [] array[Middle] < target ->
                   left' = Dword(Middle + 1) /\ UNCHANGED <<right, result>>
              [] OTHER -> result' = Found /\ UNCHANGED <<left, right>>
    /\ UNCHANGED <<array, target>>

GiveUp ==
    /\ result = Going /\ ~Open
    /\ result' = Null
    /\ UNCHANGED <<array, target, left, right>>

SearchNext == Turn \/ GiveUp

SearchSpec == SearchInit /\ [][SearchNext]_searchVars

-------------------------------------------------------------------------------
(* Bitmaps *)

Run(index, count) == index..index + count - 1

BitmapInit == bits = {} /\ runs = {}

\* Mutant: the last bit of a run is not looked at.
AllButLast(index, count) == Run(index, count - 1) \intersect bits = {}

AllClear(index, count) == Run(index, count) \intersect bits = {}

\* _BitmapScanInternal for clear bits: the first run.
Candidates(from, to, count) == {i \in from..to - count : AllClear(i, count)}

\* BitmapScanFromToAndFlip
ScanAndFlip(from, to, count) ==
    /\ from <= to
    /\ Candidates(from, to, count) # {}
    /\ LET run == Run(Min(Candidates(from, to, count)), count)
       IN bits' = bits \union run /\ runs' = runs \union {run}

\* BitmapSetBitsValue: the user clears what it was given.
ClearBits(run) == bits' = bits \ run /\ runs' = runs \ {run}

BitmapNext ==
    \/ \E from \in 0..BitCount - 1, to, count \in 1..BitCount : ScanAndFlip(from, to, count)
    \/ \E run \in runs : ClearBits(run)

BitmapSpec == BitmapInit /\ [][BitmapNext]_bitmapVars

-------------------------------------------------------------------------------
(* Properties *)

\* A search that ends with an element has found the target, and one that ends with
\* NULL could not. It never reads an element that is not there, but when all elements
\* are greater than the target: then middle - 1 is a DWORD below zero
\* (cl_algorithm.c:36).
SearchIsRight ==
    /\ result = Found => array[Middle] = target
    /\ result = Null => \A i \in DOMAIN array : array[i] # target
    /\ result = Outside => \A i \in DOMAIN array : array[i] > target

\* Two users who scan for bits are never given the same one, and a bit is set as long
\* as somebody has it.
RunsAreApart ==
    /\ bits = UNION runs
    /\ \A r, s \in runs : r # s => r \intersect s = {}
===============================================================================
