----------------------------- MODULE CommonLib_proofs -----------------------------
(* Proofs about the parts of CommonLib that keep data for their users: the binary
   search, the bitmap, the heap, and the hash table. *)
EXTENDS Heap, HashTable, Search, TLAPS, FiniteSetTheorems, SequenceTheorems,
        WellFoundedInduction

(* Arithmetic. *)

LEMMA Division ==
    ASSUME NEW x \in Nat, NEW d \in Nat \ {0}
    PROVE  /\ x \div d \in Nat
           /\ x % d \in 0..(d - 1)
           /\ x = d * (x \div d) + (x % d)
<1>1. x \div d \in Nat
  OBVIOUS
<1>2. x % d \in 0..(d - 1)
  OBVIOUS
<1>3. x = d * (x \div d) + (x % d)
  OBVIOUS
<1>4. QED
  BY <1>1, <1>2, <1>3

LEMMA Remainder ==
    ASSUME NEW x \in Nat, NEW d \in Nat \ {0}, NEW q \in Nat, NEW r \in 0..(d - 1),
           x = d * q + r
    PROVE  x % d = r
OBVIOUS

LEMMA NextRemainder ==
    ASSUME NEW x \in Nat, NEW d \in Nat \ {0}
    PROVE  (x + 1) % d = IF x % d = d - 1 THEN 0 ELSE (x % d) + 1
<1> DEFINE q == x \div d
           r == x % d
<1>1. q \in Nat /\ r \in 0..(d - 1) /\ x = d * q + r
  BY Division
<1> HIDE DEF q, r
<1>2. CASE r = d - 1
  <2>1. x + 1 = d * q + d
    BY <1>1, <1>2
  <2>2. d * q + d = d * (q + 1)
    BY <1>1
  <2>3. x + 1 = d * (q + 1) + 0
    BY <1>1, <2>1, <2>2
  <2>4. x + 1 \in Nat /\ q + 1 \in Nat /\ 0 \in 0..(d - 1)
    BY <1>1
  <2>5. (x + 1) % d = 0
    BY <2>3, <2>4, Remainder
  <2>6. QED
    BY <1>2, <2>5 DEF r
<1>3. CASE r # d - 1
  <2>1. x + 1 = d * q + (r + 1) /\ x + 1 \in Nat /\ r + 1 \in 0..(d - 1)
    BY <1>1, <1>3
  <2>2. (x + 1) % d = r + 1
    BY <1>1, <2>1, Remainder
  <2>3. QED
    BY <1>3, <2>2 DEF r
<1>4. QED
  BY <1>2, <1>3

LEMMA Halves ==
    ASSUME NEW l \in Nat, NEW r \in Nat
    PROVE  /\ (l + r) \div 2 \in Nat
           /\ l <= r => l <= (l + r) \div 2 /\ (l + r) \div 2 <= r
OBVIOUS

\* The smallest and the greatest number of a set are numbers of it.
LessThan == {pair \in Nat \X Nat : pair[1] < pair[2]}

LEMMA SmallestNumber ==
    ASSUME NEW S, S \subseteq Nat, S # {}
    PROVE  Min(S) \in S /\ \A y \in S : Min(S) <= y
<1>1. IsWellFoundedOn(LessThan, Nat)
  BY NatLessThanWellFounded DEF OpToRel, LessThan
<1>2. PICK x \in S : \A y \in S : ~ (<<y, x>> \in LessThan)
  BY <1>1, WFMin
<1>3. ASSUME NEW y \in S PROVE x <= y
  <2>1. <<y, x>> \in Nat \X Nat
    OBVIOUS
  <2>2. ~(y < x)
    BY <1>2, <2>1 DEF LessThan
  <2>3. x \in Nat /\ y \in Nat
    OBVIOUS
  <2>4. QED
    BY <2>2, <2>3
<1>4. \E z \in S : \A y \in S : z =< y
  BY <1>3
<1>5. QED
  BY <1>4 DEF Min

LEMMA GreatestNumber ==
    ASSUME NEW n \in Nat, NEW S, S \subseteq 0..n, S # {}
    PROVE  Max(S) \in S /\ \A y \in S : Max(S) >= y
<1> DEFINE R == {n - x : x \in S}
<1>1. R \subseteq Nat /\ R # {}
  <2>1. \A x \in S : n - x \in Nat
    OBVIOUS
  <2>2. QED
    BY <2>1
<1>2. Min(R) \in R /\ \A y \in R : Min(R) <= y
  BY <1>1, SmallestNumber
<1>3. PICK x \in S : Min(R) = n - x
  BY <1>2
<1>4. ASSUME NEW y \in S PROVE x >= y
  <2>1. n - x <= n - y
    BY <1>2, <1>3
  <2>2. QED
    BY <2>1
<1>5. \E z \in S : \A y \in S : z >= y
  BY <1>4
<1>6. QED
  BY <1>5 DEF Max

-------------------------------------------------------------------------------
(* BinarySearch, for any sorted array and any width of a DWORD: the elements before
   left are smaller than the target and those behind right are greater (Narrows);
   once middle - 1 has passed below zero all of them are greater (Wrapped), and every
   further turn finds that again or leaves the array. *)

SearchTypes ==
    /\ \E n \in 1..MaxElements : array \in [0..n - 1 -> Values]
    /\ Sorted(array)
    /\ target \in Values
    /\ left \in Nat /\ right \in 0..MaxDword
    /\ result \in {Going, Found, Null, Outside}

Narrows ==
    /\ right \in DOMAIN array
    /\ \A i \in DOMAIN array : i < left => array[i] < target
    /\ \A i \in DOMAIN array : i > right => array[i] > target

Wrapped ==
    /\ left = 0
    /\ \A i \in DOMAIN array : array[i] > target

SearchInv ==
    /\ SearchTypes
    /\ Narrows \/ Wrapped
    /\ SearchIsRight

LEMMA SearchConstants ==
    /\ MaxDword \in Nat /\ Values \subseteq Int /\ MaxElements \in Nat
    /\ 1 <= MaxElements /\ MaxElements <= MaxDword
BY SearchAssumption

LEMMA SearchTypesMeaning ==
    ASSUME SearchTypes
    PROVE  \E n \in 1..MaxElements :
               /\ array \in [0..n - 1 -> Values] /\ DOMAIN array = 0..(n - 1)
               /\ n \in Nat /\ n <= MaxDword
               /\ \A i \in 0..(n - 1) : array[i] \in Int
               /\ target \in Int /\ left \in Nat /\ right \in Nat /\ right <= MaxDword
<1>1. PICK n \in 1..MaxElements : array \in [0..n - 1 -> Values]
  BY DEF SearchTypes
<1>2. n \in Nat /\ n <= MaxDword
  BY SearchConstants
<1>3. DOMAIN array = 0..(n - 1) /\ \A i \in 0..(n - 1) : array[i] \in Values
  BY <1>1
<1>4. \A v \in Values : v \in Int
  BY SearchConstants
<1>5. target \in Int /\ left \in Nat /\ right \in Nat /\ right <= MaxDword
  BY <1>4, SearchConstants DEF SearchTypes
<1>6. QED
  BY <1>1, <1>2, <1>3, <1>4, <1>5

LEMMA SearchStarts == SearchInit => SearchInv
<1> SUFFICES ASSUME SearchInit PROVE SearchInv
  OBVIOUS
<1>1. PICK n \in 1..MaxElements : array \in [0..n - 1 -> Values] /\ Sorted(array) /\ right = n - 1
  BY DEF SearchInit
<1>2. n \in Nat /\ n - 1 \in 0..(n - 1) /\ n - 1 \in 0..MaxDword /\ DOMAIN array = 0..(n - 1)
  BY <1>1, SearchConstants
<1>3. target \in Values /\ left = 0 /\ result = Going
  BY DEF SearchInit
<1>4. SearchTypes
  BY <1>1, <1>2, <1>3 DEF SearchTypes
<1>5. Narrows
  BY <1>1, <1>2, <1>3 DEF Narrows
<1>6. SearchIsRight
  BY <1>3 DEF SearchIsRight, Going, Found, Null, Outside
<1>7. QED
  BY <1>4, <1>5, <1>6 DEF SearchInv

LEMMA TurnKeeps == SearchInv /\ Turn => SearchInv'
<1> SUFFICES ASSUME SearchInv, Turn PROVE SearchInv'
  OBVIOUS
<1> DEFINE m == Middle
<1>1. PICK n \in 1..MaxElements :
        /\ array \in [0..n - 1 -> Values] /\ DOMAIN array = 0..(n - 1)
        /\ n \in Nat /\ n <= MaxDword
        /\ \A i \in 0..(n - 1) : array[i] \in Int
        /\ target \in Int /\ left \in Nat /\ right \in Nat /\ right <= MaxDword
  BY SearchTypesMeaning DEF SearchInv
<1>2. /\ n \in Nat /\ n <= MaxDword /\ MaxDword \in Nat /\ DOMAIN array = 0..(n - 1)
      /\ \A i \in 0..(n - 1) : array[i] \in Int
      /\ target \in Values /\ target \in Int /\ Sorted(array)
      /\ left \in Nat /\ right \in Nat /\ right <= MaxDword
  BY <1>1, SearchConstants DEF SearchInv, SearchTypes
<1>3. result = Going /\ left <= right /\ UNCHANGED <<array, target>>
  BY DEF Turn, Open
<1>4. m \in Nat /\ left <= m /\ m <= right
  BY <1>2, <1>3, Halves DEF Middle
<1>5. \A i, j \in 0..(n - 1) : i < j => array[i] <= array[j]
  BY <1>2 DEF Sorted
<1> HIDE DEF m
<1>6. CASE m \notin DOMAIN array
  <2>1. result' = Outside /\ UNCHANGED <<left, right>>
    BY <1>6 DEF Turn, m
  <2>2. Wrapped
    BY <1>2, <1>4, <1>6 DEF SearchInv, Narrows
  <2>3. SearchTypes' /\ Wrapped'
    BY <1>1, <1>2, <1>3, <2>1, <2>2 DEF SearchTypes, Wrapped, Sorted
  <2>4. SearchIsRight'
    BY <2>1, <2>3 DEF SearchIsRight, Wrapped, Found, Null, Outside
  <2>5. QED
    BY <2>3, <2>4 DEF SearchInv
<1>7. ASSUME m \in DOMAIN array, array[m] > target PROVE SearchInv'
  <2>1. right' = Dword(m - 1) /\ UNCHANGED <<left, result>>
    BY <1>2, <1>7 DEF Turn, m
  <2>2. \A i \in 0..(n - 1) : i >= m => array[i] > target
    BY <1>2, <1>4, <1>5, <1>7
  <2>3. m <= MaxDword
    BY <1>2, <1>7
  <2>4. right' = IF m = 0 THEN MaxDword ELSE m - 1
    <3>1. CASE m = 0
      <4>1. (0 - 1) % (MaxDword + 1) = MaxDword
        BY <1>2
      <4>2. QED
        BY <2>1, <3>1, <4>1 DEF Dword
    <3>2. CASE m # 0
      <4>1. (m - 1) % (MaxDword + 1) = m - 1
        BY <1>2, <1>4, <2>3, <3>2
      <4>2. QED
        BY <2>1, <3>2, <4>1 DEF Dword
    <3>3. QED
      BY <3>1, <3>2
  <2>5. SearchTypes'
    BY <1>1, <1>2, <1>3, <1>4, <2>1, <2>3, <2>4 DEF SearchTypes, Sorted, SearchInv
  <2>6. SearchIsRight'
    BY <1>3, <2>1 DEF SearchIsRight, Going, Found, Null, Outside
  <2>7. CASE Wrapped
    <3>1. Wrapped'
      BY <1>3, <2>1, <2>7 DEF Wrapped
    <3>2. QED
      BY <2>5, <2>6, <3>1 DEF SearchInv
  <2>8. CASE Narrows /\ m = 0
    <3>1. Wrapped'
      BY <1>2, <1>3, <1>4, <2>1, <2>2, <2>8 DEF Wrapped
    <3>2. QED
      BY <2>5, <2>6, <3>1 DEF SearchInv
  <2>9. CASE Narrows /\ m # 0
    <3>1. right' = m - 1 /\ m - 1 \in 0..(n - 1)
      BY <1>2, <1>4, <1>7, <2>4, <2>9
    <3>2. \A i \in 0..(n - 1) : i > m - 1 => array[i] > target
      BY <1>2, <1>4, <2>2
    <3>3. \A i \in DOMAIN array : i < left => array[i] < target
      BY <2>9 DEF Narrows
    <3>4. Narrows'
      BY <1>2, <1>3, <2>1, <3>1, <3>2, <3>3 DEF Narrows
    <3>5. QED
      BY <2>5, <2>6, <3>4 DEF SearchInv
  <2>10. QED
    BY <2>7, <2>8, <2>9 DEF SearchInv
<1>8. ASSUME m \in DOMAIN array, array[m] < target PROVE SearchInv'
  <2>1. left' = Dword(m + 1) /\ UNCHANGED <<right, result>>
    <3>1. ~(array[m] > target)
      BY <1>2, <1>8
    <3>2. QED
      BY <1>8, <3>1 DEF Turn, m
  <2>2. Narrows
    BY <1>2, <1>8 DEF SearchInv, Wrapped
  <2>3. m + 1 \in Nat /\ left' = m + 1
    <3>1. m + 1 \in 0..MaxDword
      BY <1>2, <1>4, <1>8
    <3>2. (m + 1) % (MaxDword + 1) = m + 1
      BY <1>2, <3>1
    <3>3. QED
      BY <2>1, <3>1, <3>2 DEF Dword
  <2>4. \A i \in 0..(n - 1) : i < m + 1 => array[i] < target
    BY <1>2, <1>4, <1>5, <1>8
  <2>5. SearchTypes'
    BY <1>1, <1>2, <1>3, <2>1, <2>3 DEF SearchTypes, Sorted, SearchInv
  <2>6. SearchIsRight'
    BY <1>3, <2>1 DEF SearchIsRight, Going, Found, Null, Outside
  <2>7. Narrows'
    BY <1>2, <1>3, <2>1, <2>2, <2>3, <2>4 DEF Narrows
  <2>8. QED
    BY <2>5, <2>6, <2>7 DEF SearchInv
<1>9. ASSUME m \in DOMAIN array, array[m] = target PROVE SearchInv'
  <2>1. result' = Found /\ UNCHANGED <<left, right>>
    <3>1. ~(array[m] > target) /\ ~(array[m] < target)
      BY <1>2, <1>9
    <3>2. QED
      BY <1>9, <3>1 DEF Turn, m
  <2>2. SearchTypes'
    BY <1>1, <1>2, <1>3, <2>1 DEF SearchTypes, Sorted
  <2>3. (Narrows \/ Wrapped)'
    BY <1>3, <2>1 DEF SearchInv, Narrows, Wrapped
  <2>4. SearchIsRight'
    BY <1>3, <1>9, <2>1 DEF SearchIsRight, Found, Null, Outside, Middle, m
  <2>5. QED
    BY <2>2, <2>3, <2>4 DEF SearchInv
<1>10. m \in DOMAIN array => array[m] > target \/ array[m] < target \/ array[m] = target
  BY <1>2
<1>11. QED
  BY <1>6, <1>7, <1>8, <1>9, <1>10

LEMMA GiveUpKeeps == SearchInv /\ GiveUp => SearchInv'
<1> SUFFICES ASSUME SearchInv, GiveUp PROVE SearchInv'
  OBVIOUS
<1>1. /\ ~(left <= right) /\ result' = Null /\ UNCHANGED <<array, target, left, right>>
  BY DEF GiveUp, Open
<1>2. SearchTypes'
  BY <1>1 DEF SearchInv, SearchTypes, Sorted
<1>3. (Narrows \/ Wrapped)'
  BY <1>1 DEF SearchInv, Narrows, Wrapped
<1>4. PICK n \in 1..MaxElements :
        /\ array \in [0..n - 1 -> Values] /\ DOMAIN array = 0..(n - 1)
        /\ n \in Nat /\ n <= MaxDword
        /\ \A i \in 0..(n - 1) : array[i] \in Int
        /\ target \in Int /\ left \in Nat /\ right \in Nat /\ right <= MaxDword
  BY SearchTypesMeaning DEF SearchInv
<1>5. /\ left \in Nat /\ right \in Nat /\ DOMAIN array = 0..(n - 1) /\ n \in Nat
      /\ target \in Int /\ \A i \in 0..(n - 1) : array[i] \in Int
  BY <1>4
<1>6. Narrows
  BY <1>1, <1>5 DEF SearchInv, Wrapped
<1>7. ASSUME NEW i \in DOMAIN array PROVE array[i] # target
  <2>1. i \in Nat /\ (i < left \/ i > right)
    BY <1>1, <1>5
  <2>2. array[i] < target \/ array[i] > target
    BY <1>6, <2>1 DEF Narrows
  <2>3. QED
    BY <1>5, <2>2
<1>8. SearchIsRight'
  BY <1>1, <1>7 DEF SearchIsRight, Found, Null, Outside
<1>9. QED
  BY <1>2, <1>3, <1>8 DEF SearchInv

\* A search that ends with an element has found the target, one that ends with NULL
\* has missed nothing, and one that reads outside of the array was given a target
\* below all elements.
THEOREM SearchIsAlwaysRight == SearchSpec => []SearchIsRight
<1>1. SearchInv /\ [SearchNext]_searchVars => SearchInv'
  <2> SUFFICES ASSUME SearchInv, [SearchNext]_searchVars PROVE SearchInv'
    OBVIOUS
  <2>1. CASE UNCHANGED searchVars
    <3>1. SearchTypes'
      BY <2>1 DEF searchVars, SearchInv, SearchTypes, Sorted
    <3>2. (Narrows \/ Wrapped)'
      BY <2>1 DEF searchVars, SearchInv, Narrows, Wrapped
    <3>3. SearchIsRight'
      BY <2>1 DEF searchVars, SearchInv, SearchIsRight, Middle
    <3>4. QED
      BY <3>1, <3>2, <3>3 DEF SearchInv
  <2>2. QED
    BY <2>1, TurnKeeps, GiveUpKeeps DEF SearchNext
<1>2. SearchInv => SearchIsRight
  BY DEF SearchInv
<1>3. QED
  BY <1>1, <1>2, SearchStarts, PTL DEF SearchSpec

-------------------------------------------------------------------------------
(* The bitmap, for any size: a run is taken out of bits that are clear. *)

\* The runs of a scan are taken from clear bits, wherever it is told to look.
LEMMA FirstRunIsClear ==
    ASSUME NEW from \in Nat, NEW to \in Nat, NEW count \in Nat,
           Candidates(from, to, count) # {}
    PROVE  AllClear(Min(Candidates(from, to, count)), count)
<1>1. Candidates(from, to, count) \subseteq Nat
  BY DEF Candidates
<1>2. Min(Candidates(from, to, count)) \in Candidates(from, to, count)
  BY <1>1, SmallestNumber
<1>3. QED
  BY <1>2 DEF Candidates

\* No bit is given to two users at a time, and none is clear while somebody has it.
THEOREM RunsStayApart == BitmapSpec => []RunsAreApart
<1>1. BitmapInit => RunsAreApart
  BY DEF BitmapInit, RunsAreApart
<1>2. RunsAreApart /\ [BitmapNext]_bitmapVars => RunsAreApart'
  <2> SUFFICES ASSUME RunsAreApart, [BitmapNext]_bitmapVars PROVE RunsAreApart'
    OBVIOUS
  <2>1. CASE UNCHANGED bitmapVars
    BY <2>1 DEF bitmapVars, RunsAreApart
  <2>2. ASSUME NEW from \in 0..BitCount - 1, NEW to \in 1..BitCount, NEW count \in 1..BitCount,
               ScanAndFlip(from, to, count)
        PROVE  RunsAreApart'
    <3> DEFINE run == Run(Min(Candidates(from, to, count)), count)
    <3>1. from \in Nat /\ to \in Nat /\ count \in Nat
      BY SearchAssumption
    <3>2. run \intersect bits = {}
      BY <2>2, <3>1, FirstRunIsClear DEF ScanAndFlip, AllClear
    <3>3. bits' = bits \union run /\ runs' = runs \union {run}
      BY <2>2 DEF ScanAndFlip
    <3> HIDE DEF run
    <3>4. bits' = UNION runs'
      BY <3>3 DEF RunsAreApart
    <3>5. \A r \in runs : r \intersect run = {}
      BY <3>2 DEF RunsAreApart
    <3>6. \A r, s \in runs' : r # s => r \intersect s = {}
      BY <3>3, <3>5 DEF RunsAreApart
    <3>7. QED
      BY <3>4, <3>6 DEF RunsAreApart
  <2>3. ASSUME NEW run \in runs, ClearBits(run) PROVE RunsAreApart'
    <3>1. bits' = bits \ run /\ runs' = runs \ {run}
      BY <2>3 DEF ClearBits
    <3>2. bits' = UNION runs'
      BY <3>1 DEF RunsAreApart
    <3>3. QED
      BY <3>1, <3>2 DEF RunsAreApart
  <2>4. QED
    BY <2>1, <2>2, <2>3 DEF BitmapNext
<1>3. QED
  BY <1>1, <1>2, PTL DEF BitmapSpec

-------------------------------------------------------------------------------
(* The heap. First, what inserting into a list and removing from it do. *)

LEMMA InsertedAt ==
    ASSUME NEW S, NEW s \in Seq(S), NEW place \in 1..(Len(s) + 1), NEW x \in S
    PROVE  /\ InsertAt(s, place, x) \in Seq(S)
           /\ Len(InsertAt(s, place, x)) = Len(s) + 1
           /\ InsertAt(s, place, x) =
                  [i \in 1..(Len(s) + 1) |->
                      IF i < place THEN s[i] ELSE IF i = place THEN x ELSE s[i - 1]]
<1> DEFINE k     == place - 1
           n     == Len(s)
           front == SubSeq(s, 1, k)
           back  == SubSeq(s, k + 1, n)
           most  == front \o <<x>>
<1>1. n \in Nat /\ k \in Nat /\ k <= n /\ place = k + 1 /\ \A i \in 1..n : s[i] \in S
  <2>1. n \in Nat /\ \A i \in 1..n : s[i] \in S
    BY LenProperties, ElementOfSeq
  <2>2. QED
    BY <2>1
<1> HIDE DEF k
<1>2. front \in Seq(S) /\ Len(front) = k /\ \A i \in 1..k : front[i] = s[i]
  <2>1. \A i \in 1..k : s[i] \in S /\ 1 + i - 1 = i
    BY <1>1
  <2>2. QED
    BY <1>1, <2>1, SubSeqProperties
<1>3. back \in Seq(S) /\ Len(back) = n - k /\ \A i \in 1..(n - k) : back[i] = s[k + i]
  <2>1. \A i \in (k + 1)..n : s[i] \in S
    BY <1>1
  <2>2. \A i \in 1..(n - k) : (k + 1) + i - 1 = k + i
    BY <1>1
  <2>3. QED
    BY <1>1, <2>1, <2>2, SubSeqProperties
<1>4. <<x>> \in Seq(S) /\ Len(<<x>>) = 1 /\ <<x>>[1] = x
  OBVIOUS
<1>5. InsertAt(s, k + 1, x) = most \o back
  <2>1. (k + 1) - 1 = k
    BY <1>1
  <2>2. QED
    BY <2>1 DEF InsertAt
<1> HIDE DEF front, back, n
<1>6. /\ most \in Seq(S) /\ Len(most) = k + 1
      /\ \A i \in 1..(k + 1) : most[i] = IF i <= k THEN s[i] ELSE x
  <2>1. /\ most \in Seq(S) /\ Len(most) = k + 1
        /\ \A i \in 1..(k + 1) : most[i] = IF i <= k THEN front[i] ELSE <<x>>[i - k]
    BY <1>2, <1>4, ConcatProperties
  <2>2. ASSUME NEW i \in 1..(k + 1) PROVE most[i] = IF i <= k THEN s[i] ELSE x
    <3>1. CASE i <= k
      BY <1>1, <1>2, <2>1, <3>1
    <3>2. CASE i = k + 1
      <4>1. i - k = 1 /\ ~(i <= k)
        BY <1>1, <3>2
      <4>2. QED
        BY <1>4, <2>1, <4>1
    <3>3. i <= k \/ i = k + 1
      BY <1>1
    <3>4. QED
      BY <3>1, <3>2, <3>3
  <2>3. QED
    BY <2>1, <2>2
<1> HIDE DEF most
<1>7. /\ most \o back \in Seq(S) /\ Len(most \o back) = n + 1
      /\ \A i \in 1..(n + 1) : (most \o back)[i] =
            IF i <= k + 1 THEN most[i] ELSE back[i - (k + 1)]
  <2>1. /\ most \o back \in Seq(S) /\ Len(most \o back) = Len(most) + Len(back)
        /\ \A i \in 1..(Len(most) + Len(back)) : (most \o back)[i] =
              IF i <= Len(most) THEN most[i] ELSE back[i - Len(most)]
    BY <1>3, <1>6, ConcatProperties
  <2>2. Len(most) = k + 1 /\ Len(most) + Len(back) = n + 1
    BY <1>1, <1>3, <1>6
  <2>3. QED
    BY <2>1, <2>2
<1> DEFINE all == most \o back
<1> HIDE DEF all
<1>8. ASSUME NEW i \in 1..(n + 1)
      PROVE  all[i] = IF i <= k THEN s[i] ELSE IF i = k + 1 THEN x ELSE s[i - 1]
  <2>1. CASE i <= k + 1
    <3>1. i \in 1..(k + 1) /\ (i <= k \/ i = k + 1)
      BY <1>1, <2>1
    <3>2. all[i] = most[i] /\ (i = k + 1 => ~(i <= k))
      BY <1>1, <1>7, <2>1 DEF all
    <3>3. QED
      BY <1>6, <3>1, <3>2
  <2>2. CASE i > k + 1
    <3>1. /\ i - (k + 1) \in 1..(n - k) /\ k + (i - (k + 1)) = i - 1
          /\ ~(i <= k + 1) /\ ~(i <= k) /\ i # k + 1
      BY <1>1, <2>2
    <3>2. QED
      BY <1>3, <1>7, <3>1 DEF all
  <2>3. i <= k + 1 \/ i > k + 1
    BY <1>1
  <2>4. QED
    BY <2>1, <2>2, <2>3
<1>9. InsertAt(s, k + 1, x) = all /\ all \in Seq(S) /\ Len(all) = n + 1
  BY <1>5, <1>7 DEF all
<1>10. ASSUME NEW i \in 1..(n + 1)
       PROVE  all[i] = IF i < place THEN s[i] ELSE IF i = place THEN x ELSE s[i - 1]
  <2>1. (i <= k <=> i < place) /\ (i = k + 1 <=> i = place)
    BY <1>1
  <2>2. QED
    BY <1>8, <2>1
<1>11. all = [i \in 1..(n + 1) |->
                 IF i < place THEN s[i] ELSE IF i = place THEN x ELSE s[i - 1]]
  <2>1. DOMAIN all = 1..(n + 1) /\ all = [i \in DOMAIN all |-> all[i]]
    BY <1>9, LenProperties
  <2>2. QED
    BY <1>10, <2>1
<1>12. QED
  BY <1>1, <1>9, <1>11 DEF n

LEMMA RemovedAt ==
    ASSUME NEW S, NEW s \in Seq(S), NEW k \in 1..Len(s)
    PROVE  /\ RemoveAt(s, k) \in Seq(S)
           /\ Len(RemoveAt(s, k)) = Len(s) - 1
           /\ \A i \in 1..(Len(s) - 1) :
                 RemoveAt(s, k)[i] = IF i < k THEN s[i] ELSE s[i + 1]
<1> DEFINE n     == Len(s)
           front == SubSeq(s, 1, k - 1)
           back  == SubSeq(s, k + 1, n)
<1>1. n \in Nat /\ k \in Nat /\ 1 <= k /\ k <= n /\ \A i \in 1..n : s[i] \in S
  BY LenProperties, ElementOfSeq
<1>2. front \in Seq(S) /\ Len(front) = k - 1 /\ \A i \in 1..(k - 1) : front[i] = s[i]
  <2>1. \A i \in 1..(k - 1) : s[i] \in S /\ 1 + i - 1 = i
    BY <1>1
  <2>2. QED
    BY <1>1, <2>1, SubSeqProperties
<1>3. back \in Seq(S) /\ Len(back) = n - k /\ \A i \in 1..(n - k) : back[i] = s[k + i]
  <2>1. \A i \in (k + 1)..n : s[i] \in S
    BY <1>1
  <2>2. \A i \in 1..(n - k) : (k + 1) + i - 1 = k + i
    BY <1>1
  <2>3. QED
    BY <1>1, <2>1, <2>2, SubSeqProperties
<1>4. RemoveAt(s, k) = front \o back
  BY DEF RemoveAt
<1> HIDE DEF front, back, n
<1>5. /\ front \o back \in Seq(S) /\ Len(front \o back) = n - 1
      /\ \A i \in 1..(n - 1) : (front \o back)[i] =
            IF i <= k - 1 THEN front[i] ELSE back[i - (k - 1)]
  <2>1. /\ front \o back \in Seq(S) /\ Len(front \o back) = Len(front) + Len(back)
        /\ \A i \in 1..(Len(front) + Len(back)) : (front \o back)[i] =
              IF i <= Len(front) THEN front[i] ELSE back[i - Len(front)]
    BY <1>2, <1>3, ConcatProperties
  <2>2. Len(front) = k - 1 /\ Len(front) + Len(back) = n - 1
    BY <1>1, <1>2, <1>3
  <2>3. QED
    BY <2>1, <2>2
<1> DEFINE all == front \o back
<1> HIDE DEF all
<1>6. ASSUME NEW i \in 1..(n - 1)
      PROVE  all[i] = IF i < k THEN s[i] ELSE s[i + 1]
  <2>1. CASE i < k
    <3>1. i <= k - 1 /\ i \in 1..(k - 1)
      BY <1>1, <2>1
    <3>2. QED
      BY <1>2, <1>5, <2>1, <3>1 DEF all
  <2>2. CASE i >= k
    <3>1. /\ i - (k - 1) \in 1..(n - k) /\ k + (i - (k - 1)) = i + 1
          /\ ~(i <= k - 1) /\ ~(i < k)
      BY <1>1, <2>2
    <3>2. QED
      BY <1>3, <1>5, <3>1 DEF all
  <2>3. i < k \/ i >= k
    BY <1>1
  <2>4. QED
    BY <2>1, <2>2, <2>3
<1>7. QED
  BY <1>4, <1>5, <1>6 DEF n, all

-------------------------------------------------------------------------------
(* Where a new entry is placed. *)

LEMMA HeapConstants ==
    /\ BaseAddress \in Nat /\ HeapSizeMaximum \in Nat
    /\ FirstByte \in Nat /\ LastByte \in Nat /\ FirstByte <= LastByte
    /\ FirstByte > BaseAddress
    /\ \A Size \in AllocationSizes : Size \in Nat /\ Size > 0
    /\ \A alignment \in Alignments : alignment \in Nat \ {0}
BY HeapAssumption DEF FirstByte, LastByte, sizeofHEADER, sizeofENTRY

LEMMA UpperIsAbove ==
    ASSUME NEW addr \in Nat, NEW alignment \in Nat \ {0}
    PROVE  /\ AlignAddressUpper(addr, alignment) \in Nat
           /\ AlignAddressUpper(addr, alignment) >= addr
           /\ AlignAddressUpper(addr, alignment) % alignment = 0
<1> DEFINE x == addr + alignment - 1
           q == x \div alignment
<1>1. x \in Nat
  OBVIOUS
<1>2. q \in Nat /\ x % alignment \in 0..(alignment - 1) /\ x = alignment * q + (x % alignment)
  BY <1>1, Division
<1>3. AlignAddressUpper(addr, alignment) = q * alignment
  BY DEF AlignAddressUpper
<1> HIDE DEF q
<1>4. q * alignment \in Nat /\ q * alignment = alignment * q
  BY <1>2
<1>5. q * alignment >= addr
  BY <1>1, <1>2, <1>4
<1>6. (q * alignment) % alignment = 0
  <2>1. q * alignment = alignment * q + 0 /\ 0 \in 0..(alignment - 1)
    BY <1>2, <1>4
  <2>2. QED
    BY <1>2, <1>4, <2>1, Remainder
<1>7. QED
  BY <1>3, <1>4, <1>5, <1>6

\* An entry that fits lies behind addr and ends in what is available.
LEMMA PlacedFits ==
    ASSUME NEW addr \in Nat, addr >= FirstByte, NEW Size \in AllocationSizes,
           NEW alignment \in Alignments, NEW available \in Int,
           Fits(addr, Size, alignment, available), addr + available <= LastByte + 1
    PROVE  LET new == Placed(addr, Size, alignment)
           IN  /\ new \in Entry
               /\ addr <= new.addr /\ EndOf(new) <= addr + available
               /\ EndOf(new) \in Nat /\ EndOf(new) > new.addr
               /\ Data(new) % alignment = 0
               /\ new.Size = Size
<1> DEFINE new   == Placed(addr, Size, alignment)
           start == AlignAddressUpper(addr + sizeofENTRY, alignment)
<1>1. addr + sizeofENTRY \in Nat /\ alignment \in Nat \ {0} /\ Size \in Nat
  BY HeapConstants DEF sizeofENTRY
<1>2. start \in Nat /\ start >= addr + sizeofENTRY /\ start % alignment = 0
  BY <1>1, UpperIsAbove
<1>3. new.addr = start - sizeofENTRY /\ new.Size = Size
  BY DEF Placed
<1>4. /\ new = [addr |-> new.addr, Size |-> Size]
      /\ EndOf(new) = new.addr + Footprint(Size) /\ Data(new) = new.addr + sizeofENTRY
  BY DEF Placed, EndOf, Data
<1>5. available >= EndOf(new) - addr
  BY DEF Fits
<1> HIDE DEF new, start
<1>6. new.addr \in Nat /\ new.addr >= addr /\ Data(new) = start
  BY <1>1, <1>2, <1>3, <1>4 DEF sizeofENTRY
<1>7. EndOf(new) \in Nat /\ EndOf(new) > new.addr
  BY <1>1, <1>4, <1>6 DEF Footprint, sizeofENTRY, sizeofTAIL
<1>8. EndOf(new) <= addr + available
  BY <1>5, <1>7
<1>9. new \in Entry
  <2>1. new.addr \in FirstByte..LastByte
    BY <1>6, <1>7, <1>8, HeapConstants
  <2>2. QED
    BY <1>4, <2>1 DEF Entry
<1>10. QED
  BY <1>2, <1>3, <1>6, <1>7, <1>8, <1>9 DEF new

-------------------------------------------------------------------------------
(* What OrderedByAddress says of the entries, index by index. *)
LEMMA EntriesInOrder ==
    ASSUME OrderedByAddress
    PROVE  /\ Len(HeapAllocations) \in Nat
           /\ DOMAIN HeapAllocations = 1..Len(HeapAllocations)
           /\ \A i \in 1..Len(HeapAllocations) :
                 /\ HeapAllocations[i] \in Entry
                 /\ HeapAllocations[i].addr \in Nat /\ HeapAllocations[i].addr >= FirstByte
                 /\ HeapAllocations[i].Size \in AllocationSizes
                 /\ EndOf(HeapAllocations[i]) \in Nat
                 /\ EndOf(HeapAllocations[i]) > HeapAllocations[i].addr
                 /\ EndOf(HeapAllocations[i]) <= FreeAddress
           /\ FreeAddress \in Nat /\ FreeAddress >= FirstByte /\ FreeAddress <= LastByte + 1
<1> DEFINE H == HeapAllocations
           n == Len(H)
<1>1. H \in Seq(Entry) /\ n \in Nat /\ DOMAIN H = 1..n /\ \A i \in 1..n : H[i] \in Entry
  BY LenProperties, ElementOfSeq DEF OrderedByAddress
<1>2. ASSUME NEW e \in Entry
      PROVE  /\ e.addr \in Nat /\ e.addr >= FirstByte /\ e.Size \in AllocationSizes
             /\ EndOf(e) \in Nat /\ EndOf(e) > e.addr
  <2>1. e.addr \in FirstByte..LastByte /\ e.Size \in AllocationSizes
    BY DEF Entry
  <2>2. e.addr \in Nat /\ e.addr >= FirstByte /\ e.Size \in Nat
    BY <2>1, HeapConstants
  <2>3. QED
    BY <2>1, <2>2 DEF EndOf, Footprint, sizeofENTRY, sizeofTAIL
<1>3. /\ H = <<>> => FreeAddress = FirstByte
      /\ H # <<>> => FreeAddress = EndOf(H[n]) /\ n \in 1..n
      /\ H = <<>> => n = 0
  <2>1. H = <<>> <=> n = 0
    BY <1>1, EmptySeq
  <2>2. QED
    BY <1>1, <2>1 DEF OrderedByAddress, Last
<1>4. FreeAddress \in Nat /\ FreeAddress >= FirstByte /\ FreeAddress <= LastByte + 1
  <2>1. CASE H = <<>>
    BY <1>3, <2>1, HeapConstants DEF OrderedByAddress
  <2>2. CASE H # <<>>
    <3>1. H[n] \in Entry /\ FreeAddress = EndOf(H[n])
      BY <1>1, <1>3, <2>2
    <3>2. EndOf(H[n]) \in Nat /\ EndOf(H[n]) > H[n].addr /\ H[n].addr >= FirstByte
          /\ H[n].addr \in Nat
      BY <1>2, <3>1
    <3>3. QED
      BY <3>1, <3>2, HeapConstants DEF OrderedByAddress
  <2>3. QED
    BY <2>1, <2>2
<1>5. ASSUME NEW i \in 1..n PROVE EndOf(H[i]) <= FreeAddress
  <2>1. H # <<>> /\ n \in 1..n
    BY <1>1, <1>3
  <2>2. /\ FreeAddress = EndOf(H[n]) /\ EndOf(H[n]) \in Nat /\ EndOf(H[i]) \in Nat
        /\ EndOf(H[n]) > H[n].addr /\ H[n].addr \in Nat
    BY <1>1, <1>2, <1>3, <2>1
  <2>3. i < n => EndOf(H[i]) <= H[n].addr
    BY <1>1, <2>1 DEF OrderedByAddress
  <2>4. i = n \/ i < n
    <3>1. n \in Nat
      BY <1>1
    <3> HIDE DEF n
    <3>2. QED
      BY <3>1
  <2>5. QED
    BY <2>2, <2>3, <2>4
<1>6. QED
  BY <1>1, <1>2, <1>4, <1>5

LEMMA AtEndKeepsOrder ==
    ASSUME OrderedByAddress, NEW Size \in AllocationSizes, NEW alignment \in Alignments,
           AllocateAtEnd(Size, alignment)
    PROVE  OrderedByAddress'
<1> DEFINE H   == HeapAllocations
           n   == Len(H)
           new == Placed(FreeAddress, Size, alignment)
<1>1. /\ H \in Seq(Entry) /\ n \in Nat /\ DOMAIN H = 1..n
      /\ \A i \in 1..n : EndOf(H[i]) \in Nat /\ EndOf(H[i]) <= FreeAddress
      /\ FreeAddress \in Nat /\ FreeAddress >= FirstByte
  BY EntriesInOrder DEF OrderedByAddress
<1>2. SizeUntilEnd \in Int /\ FreeAddress + SizeUntilEnd <= LastByte + 1
  BY <1>1, HeapConstants DEF SizeUntilEnd, sizeofENTRY, LastByte
<1>3. Fits(FreeAddress, Size, alignment, SizeUntilEnd)
  BY DEF AllocateAtEnd, FitsAtEnd
<1>4. /\ new \in Entry /\ FreeAddress <= new.addr /\ new.addr \in Nat
      /\ EndOf(new) \in Nat /\ EndOf(new) <= FreeAddress + SizeUntilEnd
  <2>1. /\ new \in Entry /\ FreeAddress <= new.addr /\ EndOf(new) \in Nat
        /\ EndOf(new) <= FreeAddress + SizeUntilEnd
    BY <1>1, <1>2, <1>3, PlacedFits
  <2>2. new.addr \in FirstByte..LastByte
    BY <2>1 DEF Entry
  <2>3. QED
    BY <2>1, <2>2, HeapConstants
<1>5. H' = Append(H, new) /\ FreeAddress' = EndOf(new)
  BY DEF AllocateAtEnd
<1> HIDE DEF H, n, new
<1>6. /\ H' \in Seq(Entry) /\ Len(H') = n + 1 /\ H' # <<>>
      /\ \A i \in 1..n : H'[i] = H[i]
      /\ H'[n + 1] = new
  BY <1>1, <1>4, <1>5, AppendProperties DEF n
<1>7. ASSUME NEW i \in 1..(n + 1), NEW j \in 1..(n + 1), i < j
      PROVE  EndOf(H'[i]) <= H'[j].addr
  <2>1. CASE j \in 1..n
    <3>1. i \in 1..n
      BY <1>1, <1>7, <2>1
    <3>2. EndOf(H[i]) <= H[j].addr
      BY <1>1, <1>7, <2>1, <3>1 DEF OrderedByAddress, H
    <3>3. QED
      BY <1>6, <2>1, <3>1, <3>2
  <2>2. CASE j = n + 1
    <3>1. i \in 1..n /\ H'[i] = H[i] /\ H'[j] = new
      BY <1>1, <1>6, <1>7, <2>2
    <3>2. EndOf(H[i]) \in Nat /\ EndOf(H[i]) <= FreeAddress
      BY <1>1, <3>1
    <3>3. QED
      BY <1>1, <1>4, <3>1, <3>2
  <2>3. j \in 1..n \/ j = n + 1
    BY <1>1
  <2>4. QED
    BY <2>1, <2>2, <2>3
<1>8. DOMAIN H' = 1..(n + 1)
  BY <1>6, LenProperties
<1>9. FreeAddress' = EndOf(Last(H')) /\ FreeAddress' <= LastByte + 1
  <2>1. Last(H') = new
    BY <1>6 DEF Last
  <2>2. QED
    BY <1>2, <1>4, <1>5, <2>1, <1>1, HeapConstants
<1>10. \A i, j \in DOMAIN H' : i < j => EndOf(H'[i]) <= H'[j].addr
  BY <1>7, <1>8
<1>11. QED
  BY <1>6, <1>9, <1>10 DEF OrderedByAddress, H, EndOf, Footprint, FirstByte, LastByte, Entry

LEMMA FreeKeepsOrder ==
    ASSUME OrderedByAddress, NEW k \in DOMAIN HeapAllocations, Free(k)
    PROVE  OrderedByAddress'
<1> DEFINE H == HeapAllocations
           n == Len(H)
<1>1. /\ H \in Seq(Entry) /\ n \in Nat /\ DOMAIN H = 1..n /\ k \in 1..n
      /\ FreeAddress \in Nat /\ FreeAddress <= LastByte + 1 /\ FreeAddress >= FirstByte
      /\ \A i \in 1..n :
            /\ EndOf(H[i]) \in Nat /\ EndOf(H[i]) <= FreeAddress
            /\ H[i].addr \in Nat /\ EndOf(H[i]) > H[i].addr
  BY EntriesInOrder DEF OrderedByAddress
<1>2. \A i, j \in 1..n : i < j => EndOf(H[i]) <= H[j].addr
  BY <1>1 DEF OrderedByAddress
<1>3. H # <<>> /\ FreeAddress = EndOf(H[n]) /\ n \in 1..n
  <2>1. n # 0 /\ n \in 1..n
    BY <1>1
  <2>2. H # <<>>
    BY <1>1, <2>1, EmptySeq
  <2>3. QED
    BY <2>1, <2>2 DEF OrderedByAddress, Last
<1>4. /\ H' = RemoveAt(H, k)
      /\ FreeAddress' = IF EndOf(H[k]) # FreeAddress THEN FreeAddress
                        ELSE IF k = 1 THEN FirstByte ELSE EndOf(H[k - 1])
  BY DEF Free, HandStaff
<1> HIDE DEF H, n
<1>5. /\ H' \in Seq(Entry) /\ Len(H') = n - 1 /\ DOMAIN H' = 1..(n - 1)
      /\ \A i \in 1..(n - 1) : H'[i] = IF i < k THEN H[i] ELSE H[i + 1]
  <2>1. /\ H' \in Seq(Entry) /\ Len(H') = n - 1
        /\ \A i \in 1..(n - 1) : H'[i] = IF i < k THEN H[i] ELSE H[i + 1]
    BY <1>1, <1>4, RemovedAt DEF n
  <2>2. QED
    BY <2>1, LenProperties
<1>6. \A i \in 1..(n - 1) : \E o \in 1..n : H'[i] = H[o] /\ (o = i \/ o = i + 1) /\ (o = i <=> i < k)
  <2> SUFFICES ASSUME NEW i \in 1..(n - 1)
               PROVE  \E o \in 1..n : H'[i] = H[o] /\ (o = i \/ o = i + 1) /\ (o = i <=> i < k)
    OBVIOUS
  <2>1. i \in 1..n /\ i + 1 \in 1..n /\ i + 1 # i
    BY <1>1
  <2>2. CASE i < k
    BY <1>5, <2>1, <2>2
  <2>3. CASE ~(i < k)
    BY <1>5, <2>1, <2>3
  <2>4. QED
    BY <2>2, <2>3
<1>7. ASSUME NEW i \in 1..(n - 1), NEW j \in 1..(n - 1), i < j
      PROVE  EndOf(H'[i]) <= H'[j].addr
  <2>1. PICK o \in 1..n : H'[i] = H[o] /\ (o = i \/ o = i + 1) /\ (o = i <=> i < k)
    BY <1>6
  <2>2. PICK p \in 1..n : H'[j] = H[p] /\ (p = j \/ p = j + 1) /\ (p = j <=> j < k)
    BY <1>6
  <2>3. o < p
    BY <1>1, <1>7, <2>1, <2>2
  <2>4. QED
    BY <1>2, <2>1, <2>2, <2>3
<1>8. /\ FreeAddress' = IF H' = <<>> THEN FirstByte ELSE EndOf(Last(H'))
      /\ FreeAddress' <= LastByte + 1
  <2>1. H' = <<>> <=> n = 1
    <3>1. H' = <<>> <=> Len(H') = 0
      BY <1>5, EmptySeq
    <3>2. QED
      BY <1>1, <1>5, <3>1
  <2>2. CASE k = n
    <3>1. EndOf(H[k]) = FreeAddress
      BY <1>3, <2>2
    <3>2. CASE n = 1
      BY <1>1, <1>4, <2>1, <2>2, <3>1, <3>2, HeapConstants
    <3>3. CASE n # 1
      <4>1. n - 1 \in 1..(n - 1) /\ n - 1 < k /\ n - 1 \in 1..n
        BY <1>1, <2>2, <3>3
      <4>2. Last(H') = H[n - 1]
        BY <1>5, <4>1 DEF Last
      <4>3. FreeAddress' = EndOf(H[n - 1])
        BY <1>4, <2>2, <3>1, <3>3
      <4>4. EndOf(H[n - 1]) \in Nat /\ EndOf(H[n - 1]) <= FreeAddress
        BY <1>1, <4>1
      <4>5. QED
        BY <1>1, <2>1, <3>3, <4>2, <4>3, <4>4, HeapConstants
    <3>4. QED
      BY <3>2, <3>3
  <2>3. CASE k # n
    <3>1. k < n /\ n # 1 /\ n - 1 \in 1..(n - 1) /\ ~(n - 1 < k) /\ (n - 1) + 1 = n
      BY <1>1, <2>3
    <3>2. EndOf(H[k]) # FreeAddress
      <4>1. EndOf(H[k]) <= H[n].addr
        BY <1>1, <1>2, <1>3, <3>1
      <4>2. EndOf(H[n]) > H[n].addr /\ H[n].addr \in Nat /\ EndOf(H[k]) \in Nat /\ EndOf(H[n]) \in Nat
        BY <1>1, <1>3
      <4>3. QED
        BY <1>3, <4>1, <4>2
    <3>3. Last(H') = H[n]
      BY <1>5, <3>1 DEF Last
    <3>4. QED
      BY <1>1, <1>3, <1>4, <2>1, <3>1, <3>2, <3>3
  <2>4. QED
    BY <2>2, <2>3
<1>9. \A i, j \in DOMAIN H' : i < j => EndOf(H'[i]) <= H'[j].addr
  BY <1>5, <1>7
<1>10. QED
  BY <1>5, <1>8, <1>9 DEF OrderedByAddress, H, EndOf, Footprint, FirstByte, LastByte, Entry

-------------------------------------------------------------------------------
(* The search for a gap. The code takes the entry it looked at in the turn before for
   the one in front of the gap, also when it has stepped over the head since. *)

LEMMA RingTurns ==
    ASSUME OrderedByAddress, RestartsInList
    PROVE  /\ Restart \in Nat
           /\ \A t \in Nat :
                 /\ Behind(t) \in 0..Len(HeapAllocations)
                 /\ Behind(t + 1) = IF Behind(t) = Len(HeapAllocations) THEN 0 ELSE Behind(t) + 1
<1> DEFINE n == Len(HeapAllocations)
<1>1. n \in Nat /\ DOMAIN HeapAllocations = 1..n
  BY EntriesInOrder
<1>2. Restart \in Nat
  <2>1. CASE EntryToRestartSearch = HEAD
    BY <2>1 DEF Restart
  <2>2. CASE EntryToRestartSearch # HEAD
    <3>1. \E i \in DOMAIN HeapAllocations : HeapAllocations[i].addr = EntryToRestartSearch
      BY <2>2 DEF RestartsInList, IsLive
    <3>2. Restart \in DOMAIN HeapAllocations
      BY <2>2, <3>1 DEF Restart
    <3>3. QED
      BY <1>1, <3>2
  <2>3. QED
    BY <2>1, <2>2
<1> HIDE DEF n
<1>3. ASSUME NEW t \in Nat
      PROVE  Behind(t) \in 0..n /\ Behind(t + 1) = IF Behind(t) = n THEN 0 ELSE Behind(t) + 1
  <2> DEFINE x == Restart + t
  <2>1. x \in Nat /\ n + 1 \in Nat \ {0} /\ Restart + (t + 1) = x + 1 /\ (n + 1) - 1 = n
    BY <1>1, <1>2
  <2>2. Behind(t) = x % (n + 1) /\ Behind(t + 1) = (x + 1) % (n + 1)
    BY <2>1 DEF Behind, n
  <2> HIDE DEF x
  <2>3. x % (n + 1) \in 0..n
    BY <2>1, Division
  <2>4. (x + 1) % (n + 1) = IF x % (n + 1) = n THEN 0 ELSE (x % (n + 1)) + 1
    BY <2>1, NextRemainder
  <2>5. QED
    BY <2>2, <2>3, <2>4
<1>4. QED
  BY <1>2, <1>3 DEF n

\* The entries around a gap that is taken are neighbours in the list.
LEMMA GapIsBetweenNeighbours ==
    ASSUME OrderedByAddress, RestartsInList,
           NEW Size \in AllocationSizes, NEW turn \in Turns,
           PreviousHeapEntry(turn) # 0, SizeBetween(turn) >= Footprint(Size)
    PROVE  /\ PreviousHeapEntry(turn) = PreviousEntry(turn)
           /\ CurEntry(turn) = PreviousEntry(turn) + 1
           /\ PreviousEntry(turn) \in 1..(Len(HeapAllocations) - 1)
<1> DEFINE H == HeapAllocations
           n == Len(H)
           c == CurEntry(turn)
           p == PreviousHeapEntry(turn)
           before == {t \in Turns : t < turn}
<1>1. /\ n \in Nat /\ H \in Seq(Entry)
      /\ \A i \in 1..n : /\ EndOf(H[i]) \in Nat /\ EndOf(H[i]) > H[i].addr
                         /\ H[i].addr \in Nat
      /\ \A i, j \in 1..n : i < j => EndOf(H[i]) <= H[j].addr
  BY EntriesInOrder DEF OrderedByAddress
<1>2. \A t \in Nat : Behind(t) \in 0..n /\ Behind(t + 1) = IF Behind(t) = n THEN 0 ELSE Behind(t) + 1
  BY RingTurns
<1> HIDE DEF n
<1>3. \A t \in Turns : /\ t \in 1..(n - 1) /\ t \in Nat /\ t >= 1
                       /\ Behind(t) \in 1..n /\ Behind(t + 1) \in 1..n
                       /\ Behind(t + 1) = Behind(t) + 1
  <2> SUFFICES ASSUME NEW t \in Turns
               PROVE  /\ t \in 1..(n - 1) /\ t \in Nat /\ t >= 1
                      /\ Behind(t) \in 1..n /\ Behind(t + 1) \in 1..n
                      /\ Behind(t + 1) = Behind(t) + 1
    OBVIOUS
  <2>1. t \in 1..(n - 1) /\ Behind(t) # 0 /\ Behind(t + 1) # 0
    BY DEF Turns, PreviousEntry, CurEntry, n
  <2>2. t \in Nat /\ t >= 1 /\ t + 1 \in Nat
    BY <1>1, <2>1
  <2>3. Behind(t) \in 0..n /\ Behind(t + 1) \in 0..n
        /\ Behind(t + 1) = IF Behind(t) = n THEN 0 ELSE Behind(t) + 1
    BY <1>2, <2>2
  <2>4. QED
    BY <1>1, <2>1, <2>2, <2>3
<1>4. /\ turn \in Nat /\ turn >= 1 /\ turn \in 1..(n - 1)
      /\ PreviousEntry(turn) \in 1..(n - 1) /\ c = PreviousEntry(turn) + 1 /\ c \in 1..n
  <2>1. /\ turn \in Nat /\ turn >= 1 /\ turn \in 1..(n - 1)
        /\ Behind(turn) \in 1..n /\ Behind(turn + 1) \in 1..n
        /\ Behind(turn + 1) = Behind(turn) + 1
    BY <1>3
  <2>2. QED
    BY <1>1, <2>1 DEF PreviousEntry, CurEntry
<1>5. CASE turn = 1
  BY <1>1, <1>4, <1>5 DEF PreviousHeapEntry, n
<1>6. CASE turn # 1
  <2>1. before # {} /\ p = CurEntry(Max(before))
    BY <1>6 DEF PreviousHeapEntry
  <2>2. Max(before) \in before /\ \A t \in before : Max(before) >= t
    <3>1. before \subseteq 0..(n - 1)
      BY <1>1, <1>3
    <3>2. n - 1 \in Nat
      BY <1>1, <1>4
    <3>3. QED
      BY <2>1, <3>1, <3>2, GreatestNumber
  <2>3. p \in 1..n
    BY <1>3, <2>1, <2>2 DEF CurEntry
  <2>4. p < c
    <3>1. EndOf(H[p]) \in Nat /\ H[c].addr \in Nat /\ H[p].addr \in Nat /\ EndOf(H[p]) > H[p].addr
          /\ EndOf(H[c]) \in Nat /\ EndOf(H[c]) > H[c].addr
      BY <1>1, <1>4, <2>3
    <3>2. H[c].addr - EndOf(H[p]) >= Footprint(Size) /\ Footprint(Size) \in Nat /\ Footprint(Size) > 0
      BY HeapConstants DEF SizeBetween, StartAddress, Footprint, sizeofENTRY, sizeofTAIL
    <3>3. H[c].addr > EndOf(H[p])
      BY <3>1, <3>2
    <3>4. c < p => EndOf(H[c]) <= H[p].addr
      BY <1>1, <1>4, <2>3
    <3>5. c # p /\ ~(c < p)
      BY <3>1, <3>3, <3>4
    <3>6. QED
      BY <1>1, <1>4, <2>3, <3>5
  <2> DEFINE last == Max(before)
  <2>5. last \in Turns /\ last \in Nat /\ last >= 1 /\ last < turn
        /\ \A t \in before : last >= t
    BY <1>3, <2>2
  <2>6. p = Behind(last + 1)
    BY <2>1 DEF CurEntry
  <2> HIDE DEF p, last
  <2>7. CASE last + 1 = turn
    BY <1>1, <1>4, <2>6, <2>7 DEF PreviousEntry, n, p
  <2>8. CASE last + 1 # turn
    <3>1. turn - 1 \in 1..(n - 1) /\ turn - 1 < turn /\ turn - 1 > last /\ turn - 1 \in Nat
          /\ (turn - 1) + 1 = turn
      BY <1>1, <1>4, <2>5, <2>8
    <3>2. turn - 1 \notin Turns
      BY <2>5, <3>1
    <3>3. Behind(turn - 1) = 0
      BY <1>4, <3>1, <3>2 DEF Turns, PreviousEntry, CurEntry, n
    <3>4. Behind(turn) = 1
      <4>1. Behind((turn - 1) + 1) = IF Behind(turn - 1) = n THEN 0 ELSE Behind(turn - 1) + 1
        BY <1>2, <3>1
      <4>2. n # 0
        BY <1>1, <1>4
      <4>3. QED
        BY <3>1, <3>3, <4>1, <4>2
    <3>5. c = 2
      BY <1>4, <3>4 DEF PreviousEntry
    <3>6. p = 1
      <4>1. p \in 1..n /\ p < 2 /\ p \in Int
        BY <1>1, <2>3, <2>4, <3>5
      <4>2. QED
        BY <4>1, <1>1
    <3>7. QED
      BY <1>1, <1>4, <3>4, <3>6 DEF PreviousEntry, n, p
  <2>9. QED
    BY <2>7, <2>8
<1>7. QED
  BY <1>5, <1>6

\* Where AllocateInGap puts the new entry.
LEMMA GapIsFound ==
    ASSUME OrderedByAddress, NEW Size \in AllocationSizes, NEW alignment \in Alignments,
           AllocateInGap(Size, alignment)
    PROVE  \E k \in 1..(Len(HeapAllocations) - 1), new \in Entry :
               /\ HeapAllocations' = InsertAt(HeapAllocations, k + 1, new)
               /\ EndOf(HeapAllocations[k]) <= new.addr
               /\ EndOf(new) <= HeapAllocations[k + 1].addr
               /\ Data(new) % alignment = 0 /\ new.Size = Size
<1> DEFINE H == HeapAllocations
<1>1. PICK turn \in LastTurn(Size, alignment) :
        /\ PreviousHeapEntry(turn) # 0
        /\ H' = InsertAt(H, PreviousEntry(turn) + 1, Placed(StartAddress(turn), Size, alignment))
  BY DEF AllocateInGap
<1>2. turn \in Turns /\ FitsAt(turn, Size, alignment)
  BY <1>1 DEF LastTurn
<1>3. SizeBetween(turn) >= Footprint(Size) /\ Fits(StartAddress(turn), Size, alignment, SizeBetween(turn))
  BY <1>2 DEF FitsAt
<1>4. RestartsInList
  BY DEF AllocateInGap
<1> DEFINE k     == PreviousEntry(turn)
           start == StartAddress(turn)
           new   == Placed(start, Size, alignment)
<1>5. PreviousHeapEntry(turn) = k /\ CurEntry(turn) = k + 1 /\ k \in 1..(Len(H) - 1)
  BY <1>1, <1>2, <1>3, <1>4, GapIsBetweenNeighbours
<1>6. start = EndOf(H[k]) /\ SizeBetween(turn) = H[k + 1].addr - start
  BY <1>5 DEF StartAddress, SizeBetween
<1>7. /\ k \in 1..Len(H) /\ k + 1 \in 1..Len(H)
  BY <1>5, EntriesInOrder
<1>8. /\ start \in Nat /\ start >= FirstByte
      /\ H[k + 1].addr \in Nat /\ H[k + 1].addr <= LastByte + 1
  <2>1. /\ EndOf(H[k]) \in Nat /\ EndOf(H[k]) > H[k].addr /\ H[k].addr >= FirstByte /\ H[k].addr \in Nat
    BY <1>7, EntriesInOrder
  <2>2. /\ H[k + 1].addr \in Nat /\ EndOf(H[k + 1]) > H[k + 1].addr /\ EndOf(H[k + 1]) \in Nat
        /\ EndOf(H[k + 1]) <= FreeAddress /\ FreeAddress <= LastByte + 1 /\ FreeAddress \in Nat
    BY <1>7, EntriesInOrder
  <2>3. QED
    BY <1>6, <2>1, <2>2, HeapConstants
<1> HIDE DEF H, k, start
<1>9. SizeBetween(turn) \in Int /\ start + SizeBetween(turn) = H[k + 1].addr
  BY <1>6, <1>8
<1>10. Fits(start, Size, alignment, SizeBetween(turn)) /\ start + SizeBetween(turn) <= LastByte + 1
  BY <1>3, <1>8, <1>9 DEF start
<1>11. /\ new \in Entry /\ start <= new.addr /\ EndOf(new) <= start + SizeBetween(turn)
       /\ Data(new) % alignment = 0 /\ new.Size = Size
  BY <1>8, <1>9, <1>10, PlacedFits
<1>12. H' = InsertAt(H, k + 1, new)
  BY <1>1 DEF H, k, start
<1> HIDE DEF new
<1>13. k \in 1..(Len(H) - 1)
  BY <1>5
<1>14. EndOf(H[k]) <= new.addr /\ EndOf(new) <= H[k + 1].addr
  BY <1>6, <1>9, <1>11
<1>15. QED
  BY <1>11, <1>12, <1>13, <1>14 DEF H

LEMMA InGapKeepsOrder ==
    ASSUME OrderedByAddress, NEW Size \in AllocationSizes, NEW alignment \in Alignments,
           AllocateInGap(Size, alignment)
    PROVE  OrderedByAddress'
<1> DEFINE H == HeapAllocations
           n == Len(H)
<1>1. PICK k \in 1..(n - 1), new \in Entry :
        /\ H' = InsertAt(H, k + 1, new)
        /\ EndOf(H[k]) <= new.addr /\ EndOf(new) <= H[k + 1].addr
  BY GapIsFound
<1>2. /\ H \in Seq(Entry) /\ n \in Nat /\ DOMAIN H = 1..n
      /\ FreeAddress \in Nat /\ FreeAddress <= LastByte + 1
      /\ \A i \in 1..n : /\ EndOf(H[i]) \in Nat /\ H[i].addr \in Nat
                         /\ EndOf(H[i]) > H[i].addr
  BY EntriesInOrder DEF OrderedByAddress
<1>3. \A i, j \in 1..n : i < j => EndOf(H[i]) <= H[j].addr
  BY <1>2 DEF OrderedByAddress
<1>4. H # <<>> => FreeAddress = EndOf(H[n])
  BY DEF OrderedByAddress, Last
<1>5. FreeAddress' = FreeAddress
  BY DEF AllocateInGap
<1>6. new.addr \in Nat /\ EndOf(new) \in Nat
  <2>1. new.addr \in FirstByte..LastByte /\ new.Size \in AllocationSizes
    BY DEF Entry
  <2>2. new.addr \in Nat /\ new.Size \in Nat
    BY <2>1, HeapConstants
  <2>3. QED
    BY <2>2 DEF EndOf, Footprint, sizeofENTRY, sizeofTAIL
<1> HIDE DEF H, n
<1>7. k \in Nat /\ k >= 1 /\ k <= n - 1 /\ k \in 0..n /\ k \in 1..n /\ k + 1 \in 1..n
  BY <1>2
<1>8. /\ H' \in Seq(Entry) /\ Len(H') = n + 1 /\ DOMAIN H' = 1..(n + 1)
      /\ \A i \in 1..(n + 1) :
            H'[i] = IF i <= k THEN H[i] ELSE IF i = k + 1 THEN new ELSE H[i - 1]
  <2>1. /\ H' \in Seq(Entry) /\ Len(H') = n + 1
        /\ \A i \in 1..(n + 1) :
              H'[i] = IF i <= k THEN H[i] ELSE IF i = k + 1 THEN new ELSE H[i - 1]
    <3>1. PICK place \in 1..(Len(H) + 1) : place = k + 1
      BY <1>2, <1>7 DEF n
    <3>2. H' = InsertAt(H, place, new) /\ n = Len(H)
      BY <1>1, <3>1 DEF n
    <3>3. H \in Seq(Entry) /\ new \in Entry
      BY <1>2
    <3>4. /\ InsertAt(H, place, new) \in Seq(Entry)
          /\ Len(InsertAt(H, place, new)) = Len(H) + 1
          /\ \A i \in 1..(Len(H) + 1) :
                InsertAt(H, place, new)[i] =
                    IF i < place THEN H[i] ELSE IF i = place THEN new ELSE H[i - 1]
      <4>1. place \in 1..(Len(H) + 1)
        OBVIOUS
      <4>2. InsertAt(H, place, new) \in Seq(Entry)
        BY ONLY <3>3, <4>1, InsertedAt
      <4>3. Len(InsertAt(H, place, new)) = Len(H) + 1
        BY ONLY <3>3, <4>1, InsertedAt
      <4>4. InsertAt(H, place, new) =
               [i \in 1..(Len(H) + 1) |->
                   IF i < place THEN H[i] ELSE IF i = place THEN new ELSE H[i - 1]]
        BY ONLY <3>3, <4>1, InsertedAt
      <4>5. QED
        BY ONLY <4>2, <4>3, <4>4
    <3>5. \A i \in 1..(n + 1) : (i <= k <=> i < place) /\ (i = k + 1 <=> i = place)
      BY <1>2, <1>7, <3>1
    <3>6. QED
      BY <3>2, <3>4, <3>5
  <2>2. QED
    BY <2>1, LenProperties
<1>9. ASSUME NEW i \in 1..(n + 1), NEW j \in 1..(n + 1), i < j
      PROVE  EndOf(H'[i]) <= H'[j].addr
  <2>1. CASE j <= k
    <3>1. i \in 1..n /\ j \in 1..n /\ i <= k
      BY <1>2, <1>7, <1>9, <2>1
    <3>2. H'[i] = H[i] /\ H'[j] = H[j]
      BY <1>8, <2>1, <3>1
    <3>3. QED
      BY <1>3, <1>9, <3>1, <3>2
  <2>2. CASE j = k + 1
    <3>1. i \in 1..n /\ i <= k /\ ~(j <= k)
      BY <1>2, <1>7, <1>9, <2>2
    <3>2. H'[i] = H[i] /\ H'[j] = new
      BY <1>8, <2>2, <3>1
    <3>3. i < k => EndOf(H[i]) <= H[k].addr
      BY <1>3, <1>7, <3>1
    <3>4. /\ EndOf(H[i]) \in Nat /\ EndOf(H[k]) \in Nat /\ H[k].addr \in Nat
          /\ EndOf(H[k]) > H[k].addr
      BY <1>2, <1>7, <3>1
    <3>5. i = k \/ i < k
      BY <1>7, <3>1
    <3>6. EndOf(H[i]) <= new.addr
      BY <1>1, <1>6, <3>3, <3>4, <3>5
    <3>7. QED
      BY <3>2, <3>6
  <2>3. CASE j > k + 1 /\ i <= k
    <3>1. i \in 1..n /\ j - 1 \in 1..n /\ i < j - 1 /\ ~(j <= k) /\ j # k + 1
      BY <1>2, <1>7, <2>3
    <3>2. H'[i] = H[i] /\ H'[j] = H[j - 1]
      BY <1>8, <2>3, <3>1
    <3>3. QED
      BY <1>3, <3>1, <3>2
  <2>4. CASE j > k + 1 /\ i = k + 1
    <3>1. j - 1 \in 1..n /\ ~(j <= k) /\ j # k + 1 /\ ~(i <= k) /\ k + 1 <= j - 1
      BY <1>2, <1>7, <2>4
    <3>2. H'[i] = new /\ H'[j] = H[j - 1]
      BY <1>8, <2>4, <3>1
    <3>3. k + 1 < j - 1 => EndOf(H[k + 1]) <= H[j - 1].addr
      BY <1>3, <1>7, <3>1
    <3>4. /\ EndOf(H[k + 1]) \in Nat /\ H[k + 1].addr \in Nat
          /\ EndOf(H[k + 1]) > H[k + 1].addr /\ H[j - 1].addr \in Nat
      BY <1>2, <1>7, <3>1
    <3>5. k + 1 = j - 1 \/ k + 1 < j - 1
      BY <1>7, <3>1
    <3>6. EndOf(new) <= H[j - 1].addr
      BY <1>1, <1>6, <3>3, <3>4, <3>5
    <3>7. QED
      BY <3>2, <3>6
  <2>5. CASE i > k + 1
    <3>1. /\ i - 1 \in 1..n /\ j - 1 \in 1..n /\ i - 1 < j - 1
          /\ ~(j <= k) /\ j # k + 1 /\ ~(i <= k) /\ i # k + 1
      BY <1>2, <1>7, <1>9, <2>5
    <3>2. H'[i] = H[i - 1] /\ H'[j] = H[j - 1]
      BY <1>8, <3>1
    <3>3. QED
      BY <1>3, <3>1, <3>2
  <2>6. \/ j <= k \/ j = k + 1 \/ (j > k + 1 /\ i <= k)
        \/ (j > k + 1 /\ i = k + 1) \/ i > k + 1
    BY <1>2, <1>7, <1>9
  <2>7. QED
    BY <2>1, <2>2, <2>3, <2>4, <2>5, <2>6
<1>10. H' # <<>> /\ Last(H') = H[n] /\ H # <<>>
  <2>1. n + 1 # 0 /\ n # 0 /\ n + 1 \in 1..(n + 1) /\ ~(n + 1 <= k) /\ n + 1 # k + 1
        /\ (n + 1) - 1 = n
    BY <1>2, <1>7
  <2>2. H'[n + 1] = H[n]
    BY <1>8, <2>1
  <2>3. Last(H') = H[n]
    BY <1>8, <2>2 DEF Last
  <2>4. H # <<>> /\ H' # <<>>
    <3>1. H = <<>> => n = 0
      BY DEF n
    <3>2. H' = <<>> => Len(H') = 0
      OBVIOUS
    <3>3. QED
      BY <1>8, <2>1, <3>1, <3>2
  <2>5. QED
    BY <2>3, <2>4
<1>11. /\ FreeAddress' = IF H' = <<>> THEN FirstByte ELSE EndOf(Last(H'))
       /\ FreeAddress' <= LastByte + 1
  BY <1>2, <1>4, <1>5, <1>10
<1>12. \A i, j \in DOMAIN H' : i < j => EndOf(H'[i]) <= H'[j].addr
  BY <1>8, <1>9
<1>13. QED
  BY <1>8, <1>11, <1>12 DEF OrderedByAddress, H, EndOf, Footprint, FirstByte, LastByte, Entry

LEMMA OrderIsKept == OrderedByAddress /\ [Next]_vars => OrderedByAddress'
<1> SUFFICES ASSUME OrderedByAddress, [Next]_vars PROVE OrderedByAddress'
  OBVIOUS
<1>1. CASE UNCHANGED <<HeapAllocations, FreeAddress>>
  BY <1>1 DEF OrderedByAddress, EndOf, Footprint, FirstByte, LastByte, Entry
<1>2. UNCHANGED vars => UNCHANGED <<HeapAllocations, FreeAddress>>
  BY DEF vars
<1>3. ASSUME NEW Size \in AllocationSizes, NEW alignment \in Alignments, Allocate(Size, alignment)
      PROVE  OrderedByAddress'
  <2>1. SearchStops(Size, alignment) => UNCHANGED <<HeapAllocations, FreeAddress>>
    BY DEF SearchStops
  <2>2. QED
    BY <1>1, <1>3, <2>1, AtEndKeepsOrder, InGapKeepsOrder DEF Allocate
<1>4. QED
  BY <1>1, <1>2, <1>3, FreeKeepsOrder DEF Next

LEMMA OrderAtStart == Init => OrderedByAddress
<1> SUFFICES ASSUME Init PROVE OrderedByAddress
  OBVIOUS
<1>1. HeapAllocations = <<>> /\ FreeAddress = FirstByte
  BY DEF Init
<1>2. HeapAllocations \in Seq(Entry) /\ DOMAIN HeapAllocations = {}
  BY <1>1
<1>3. FirstByte <= LastByte + 1
  BY HeapConstants
<1>4. QED
  BY <1>1, <1>2, <1>3 DEF OrderedByAddress

\* "this list is always ordered by address": whatever is allocated and freed, of any
\* sizes and alignments, no entry reaches into the next one or past the end, and
\* FreeAddress is where the last one ends.
THEOREM AlwaysOrderedByAddress == Spec => []OrderedByAddress
BY OrderAtStart, OrderIsKept, PTL DEF Spec

-------------------------------------------------------------------------------
(* What the two ways of allocating have in common: one entry of the size asked for
   more, somewhere in the list. *)

NewEntryAt(place, new, Size, alignment) ==
    /\ new.Size = Size /\ Data(new) % alignment = 0 /\ EndOf(new) <= LastByte + 1
    /\ Len(HeapAllocations') = Len(HeapAllocations) + 1
    /\ \A i \in 1..(Len(HeapAllocations) + 1) :
           HeapAllocations'[i] = IF i < place THEN HeapAllocations[i]
                                 ELSE IF i = place THEN new
                                 ELSE HeapAllocations[i - 1]

LEMMA AtEndInserts ==
    ASSUME OrderedByAddress, NEW Size \in AllocationSizes, NEW alignment \in Alignments,
           AllocateAtEnd(Size, alignment)
    PROVE  \E place \in 1..(Len(HeapAllocations) + 1), new \in Entry :
               NewEntryAt(place, new, Size, alignment)
<1> DEFINE H   == HeapAllocations
           n   == Len(H)
           new == Placed(FreeAddress, Size, alignment)
<1>1. /\ H \in Seq(Entry) /\ n \in Nat
      /\ FreeAddress \in Nat /\ FreeAddress >= FirstByte
  BY EntriesInOrder DEF OrderedByAddress
<1>2. SizeUntilEnd \in Int /\ FreeAddress + SizeUntilEnd <= LastByte + 1
  BY <1>1, HeapConstants DEF SizeUntilEnd, sizeofENTRY, LastByte
<1>3. Fits(FreeAddress, Size, alignment, SizeUntilEnd)
  BY DEF AllocateAtEnd, FitsAtEnd
<1>4. /\ new \in Entry /\ Data(new) % alignment = 0 /\ EndOf(new) \in Nat
      /\ new.Size = Size
      /\ EndOf(new) <= FreeAddress + SizeUntilEnd
  BY <1>1, <1>2, <1>3, PlacedFits
<1>5. EndOf(new) <= LastByte + 1
  BY <1>1, <1>2, <1>4, HeapConstants
<1>6. H' = Append(H, new)
  BY DEF AllocateAtEnd
<1> HIDE DEF H, n, new
<1>8. PICK place \in 1..(Len(H) + 1) : place = n + 1
  BY <1>1 DEF n
<1>9. /\ Len(H') = n + 1 /\ H'[n + 1] = new /\ \A i \in 1..n : H'[i] = H[i]
  BY <1>1, <1>4, <1>6, AppendProperties DEF n
<1>10. ASSUME NEW i \in 1..(n + 1)
       PROVE  H'[i] = IF i < place THEN H[i] ELSE IF i = place THEN new ELSE H[i - 1]
  <2>1. CASE i \in 1..n
    <3>1. i < place
      BY <1>1, <1>8, <2>1
    <3>2. QED
      BY <1>9, <2>1, <3>1
  <2>2. CASE i = n + 1
    <3>1. ~(i < place) /\ i = place
      BY <1>1, <1>8, <2>2
    <3>2. QED
      BY <1>9, <2>2, <3>1
  <2>3. i \in 1..n \/ i = n + 1
    BY <1>1
  <2>4. QED
    BY <2>1, <2>2, <2>3
<1>11. NewEntryAt(place, new, Size, alignment)
  BY <1>4, <1>5, <1>9, <1>10 DEF NewEntryAt, H, n
<1>12. QED
  BY <1>4, <1>8, <1>11 DEF H

LEMMA InGapInserts ==
    ASSUME OrderedByAddress, NEW Size \in AllocationSizes, NEW alignment \in Alignments,
           AllocateInGap(Size, alignment)
    PROVE  \E place \in 1..(Len(HeapAllocations) + 1), new \in Entry :
               NewEntryAt(place, new, Size, alignment)
<1> DEFINE H == HeapAllocations
           n == Len(H)
<1>1. PICK k \in 1..(n - 1), new \in Entry :
        /\ H' = InsertAt(H, k + 1, new)
        /\ EndOf(new) <= H[k + 1].addr
        /\ Data(new) % alignment = 0 /\ new.Size = Size
  BY GapIsFound
<1>2. H \in Seq(Entry) /\ n \in Nat
  BY EntriesInOrder DEF OrderedByAddress
<1>3. PICK place \in 1..(Len(H) + 1) : place = k + 1
  BY <1>2
<1>4. EndOf(new) <= LastByte + 1
  <2>1. k + 1 \in 1..n
    BY <1>2
  <2>2. EndOf(H[k + 1]) <= FreeAddress /\ EndOf(H[k + 1]) > H[k + 1].addr
        /\ EndOf(H[k + 1]) \in Nat /\ H[k + 1].addr \in Nat
        /\ FreeAddress \in Nat /\ FreeAddress <= LastByte + 1
    BY <2>1, EntriesInOrder
  <2>3. new.addr \in FirstByte..LastByte /\ new.Size \in AllocationSizes
    BY DEF Entry
  <2>4. new.addr \in Nat /\ new.Size \in Nat /\ LastByte \in Nat
    BY <2>3, HeapConstants
  <2>5. EndOf(new) \in Nat
    BY <2>4 DEF EndOf, Footprint, sizeofENTRY, sizeofTAIL
  <2>6. QED
    BY <1>1, <2>2, <2>4, <2>5
<1> HIDE DEF H, n
<1>6. H' = InsertAt(H, place, new)
  BY <1>1, <1>3
<1>7. /\ Len(InsertAt(H, place, new)) = Len(H) + 1
      /\ \A i \in 1..(Len(H) + 1) :
            InsertAt(H, place, new)[i] =
                IF i < place THEN H[i] ELSE IF i = place THEN new ELSE H[i - 1]
  <2>1. H \in Seq(Entry) /\ new \in Entry /\ place \in 1..(Len(H) + 1)
    BY <1>2
  <2>2. Len(InsertAt(H, place, new)) = Len(H) + 1
    BY ONLY <2>1, InsertedAt
  <2>3. InsertAt(H, place, new) =
           [i \in 1..(Len(H) + 1) |->
               IF i < place THEN H[i] ELSE IF i = place THEN new ELSE H[i - 1]]
    BY ONLY <2>1, InsertedAt
  <2>4. QED
    BY ONLY <2>2, <2>3
<1>8. NewEntryAt(place, new, Size, alignment)
  BY <1>1, <1>4, <1>6, <1>7 DEF NewEntryAt, H, n
<1>9. QED
  BY <1>8 DEF H

-------------------------------------------------------------------------------
(* How much of the heap is used: f gives the sum of the first n entries. *)
Sums(f, s) ==
    /\ f \in [0..Len(s) -> Int] /\ f[0] = 0
    /\ \A n \in 1..Len(s) : f[n] = f[n - 1] + Footprint(s[n].Size)

LEMMA FootprintIsNat ==
    ASSUME NEW e \in Entry
    PROVE  Footprint(e.Size) \in Nat
<1>1. e.Size \in Nat
  BY HeapConstants DEF Entry
<1>2. QED
  BY <1>1 DEF Footprint, sizeofENTRY, sizeofTAIL

LEMMA SumsExist ==
    ASSUME NEW s \in Seq(Entry)
    PROVE  \E f : Sums(f, s)
<1> DEFINE n == Len(s)
           From(m) == \E f \in [0..m -> Int] :
                        /\ f[0] = 0
                        /\ \A i \in 1..m : f[i] = f[i - 1] + Footprint(s[i].Size)
           Bad == {m \in 0..n : ~From(m)}
<1>1. n \in Nat /\ \A i \in 1..n : Footprint(s[i].Size) \in Nat
  BY LenProperties, ElementOfSeq, FootprintIsNat
<1>2. From(0)
  <2> DEFINE f == [i \in 0..0 |-> 0]
  <2>1. f \in [0..0 -> Int] /\ f[0] = 0 /\ 1..0 = {}
    OBVIOUS
  <2>2. QED
    BY <2>1
<1>3. ASSUME NEW m \in 1..n, From(m - 1) PROVE From(m)
  <2>1. PICK f \in [0..(m - 1) -> Int] :
          /\ f[0] = 0
          /\ \A i \in 1..(m - 1) : f[i] = f[i - 1] + Footprint(s[i].Size)
    BY <1>3
  <2> DEFINE g == [i \in 0..m |-> IF i = m THEN f[m - 1] + Footprint(s[m].Size) ELSE f[i]]
  <2>2. m \in Nat /\ m >= 1 /\ m - 1 \in 0..(m - 1) /\ m # 0
    BY <1>1
  <2>3. f[m - 1] + Footprint(s[m].Size) \in Int
    BY <1>1, <2>2
  <2>4. \A i \in 0..m : i # m => i \in 0..(m - 1)
    BY <2>2
  <2>5. g \in [0..m -> Int]
    BY <2>3, <2>4
  <2>6. g[0] = 0
    BY <2>1, <2>2
  <2>7. ASSUME NEW i \in 1..m PROVE g[i] = g[i - 1] + Footprint(s[i].Size)
    <3>1. CASE i = m
      <4>1. i - 1 \in 0..m /\ i - 1 # m /\ i \in 0..m
        BY <2>2, <3>1
      <4>2. QED
        BY <3>1, <4>1
    <3>2. CASE i # m
      <4>1. i - 1 \in 0..m /\ i - 1 # m /\ i \in 0..m /\ i \in 1..(m - 1)
        BY <2>2, <3>2
      <4>2. QED
        BY <2>1, <3>2, <4>1
    <3>3. QED
      BY <3>1, <3>2
  <2> HIDE DEF g
  <2>8. QED
    BY <2>5, <2>6, <2>7
<1> HIDE DEF From, n
<1>4. Bad = {}
  <2>1. SUFFICES ASSUME Bad # {} PROVE FALSE
    OBVIOUS
  <2>2. Bad \subseteq Nat
    BY <1>1
  <2>3. Min(Bad) \in Bad /\ \A y \in Bad : Min(Bad) <= y
    BY <2>1, <2>2, SmallestNumber
  <2> DEFINE m == Min(Bad)
  <2>4. m \in 0..n /\ ~From(m) /\ \A y \in 0..n : ~From(y) => m <= y
    BY <2>3
  <2> HIDE DEF m
  <2>5. m # 0
    BY <1>2, <2>4
  <2>6. m \in 1..n /\ m - 1 \in 0..n /\ ~(m <= m - 1)
    BY <1>1, <2>4, <2>5
  <2>7. From(m - 1)
    BY <2>4, <2>6
  <2>8. QED
    BY <1>3, <2>4, <2>6, <2>7
<1>5. From(n)
  BY <1>1, <1>4
<1>6. QED
  BY <1>5 DEF From, n, Sums

\* What the recursive function of UsedBytes satisfies, whatever its values are.
AddsUp(f, s) ==
    /\ DOMAIN f = 0..Len(s) /\ f[0] = 0
    /\ \A n \in 1..Len(s) : f[n] = f[n - 1] + Footprint(s[n].Size)

LEMMA SumsAgree ==
    ASSUME NEW s \in Seq(Entry), NEW f, NEW g, AddsUp(f, s), AddsUp(g, s)
    PROVE  f[Len(s)] = g[Len(s)]
<1> DEFINE N == Len(s)
           Bad == {n \in 0..N : f[n] # g[n]}
<1>1. N \in Nat
  BY LenProperties
<1>2. /\ f[0] = g[0]
      /\ \A n \in 1..N : /\ f[n] = f[n - 1] + Footprint(s[n].Size)
                         /\ g[n] = g[n - 1] + Footprint(s[n].Size)
  BY DEF AddsUp
<1> HIDE DEF N
<1>3. SUFFICES ASSUME Bad # {} PROVE FALSE
  <2>1. N \in 0..N
    BY <1>1
  <2>2. QED
    BY <1>3, <2>1 DEF N
<1>4. Bad \subseteq Nat
  BY <1>1
<1>5. Min(Bad) \in Bad /\ \A y \in Bad : Min(Bad) <= y
  BY <1>3, <1>4, SmallestNumber
<1> DEFINE m == Min(Bad)
<1>6. m \in 0..N /\ f[m] # g[m] /\ \A y \in 0..N : f[y] # g[y] => m <= y
  BY <1>5
<1> HIDE DEF m
<1>7. m # 0
  BY <1>2, <1>6
<1>8. m \in 1..N /\ m - 1 \in 0..N /\ ~(m <= m - 1)
  BY <1>1, <1>6, <1>7
<1>9. f[m - 1] = g[m - 1]
  BY <1>6, <1>8
<1>10. QED
  BY <1>2, <1>6, <1>8, <1>9

LEMMA UsedIsSum ==
    ASSUME NEW s \in Seq(Entry), NEW f, Sums(f, s)
    PROVE  UsedBytes(s) = f[Len(s)]
<1> DEFINE N == Len(s)
           Next1(g) == [n \in 0..N |-> IF n = 0 THEN 0 ELSE g[n - 1] + Footprint(s[n].Size)]
           h == CHOOSE g : g = Next1(g)
<1>1. N \in Nat
  BY LenProperties
<1>2. UsedBytes(s) = h[N]
  BY DEF UsedBytes
<1> HIDE DEF N
<1>3. f = Next1(f)
  <2>1. f = [n \in 0..N |-> f[n]]
    BY DEF Sums, N
  <2>2. ASSUME NEW n \in 0..N PROVE f[n] = IF n = 0 THEN 0 ELSE f[n - 1] + Footprint(s[n].Size)
    <3>1. n = 0 \/ n \in 1..N
      BY <1>1
    <3>2. QED
      BY <3>1 DEF Sums, N
  <2>3. QED
    BY <2>1, <2>2
<1>4. h = Next1(h)
  BY <1>3
<1> HIDE DEF h
<1>5. DOMAIN h = 0..N /\ h[0] = 0 /\ \A n \in 1..N : h[n] = h[n - 1] + Footprint(s[n].Size)
  <2>1. DOMAIN h = 0..N /\ \A n \in 0..N : h[n] = IF n = 0 THEN 0 ELSE h[n - 1] + Footprint(s[n].Size)
    BY <1>4
  <2>2. 0 \in 0..N /\ \A n \in 1..N : n \in 0..N /\ n # 0
    BY <1>1
  <2>3. QED
    BY <2>1, <2>2
<1>6. AddsUp(h, s)
  BY <1>5 DEF AddsUp, N
<1>7. AddsUp(f, s)
  BY DEF AddsUp, Sums
<1>8. f[Len(s)] = h[Len(s)]
  BY <1>6, <1>7, SumsAgree
<1>9. QED
  BY <1>2, <1>8 DEF N

\* One entry more, wherever it is put, and its footprint is used.
LEMMA NewEntryIsUsed ==
    ASSUME NEW s \in Seq(Entry), NEW t \in Seq(Entry), NEW x \in Entry,
           NEW place \in 1..(Len(s) + 1), Len(t) = Len(s) + 1,
           \A i \in 1..(Len(s) + 1) :
               t[i] = IF i < place THEN s[i] ELSE IF i = place THEN x ELSE s[i - 1]
    PROVE  UsedBytes(t) = UsedBytes(s) + Footprint(x.Size)
<1> DEFINE n == Len(s)
           d == Footprint(x.Size)
<1>1. n \in Nat /\ d \in Nat
  BY LenProperties, FootprintIsNat
<1>2. PICK f : Sums(f, s)
  BY SumsExist
<1> DEFINE g == [i \in 0..(n + 1) |-> IF i < place THEN f[i] ELSE f[i - 1] + d]
<1> HIDE DEF d, n
<1>3. place \in Nat /\ place >= 1 /\ place <= n + 1 /\ place \in 1..(n + 1)
  BY <1>1 DEF n
<1>4. /\ f \in [0..n -> Int] /\ f[0] = 0
      /\ \A i \in 1..n : f[i] = f[i - 1] + Footprint(s[i].Size)
  BY <1>2 DEF Sums, n
<1>5. ASSUME NEW i \in 0..(n + 1)
      PROVE  g[i] = (IF i < place THEN f[i] ELSE f[i - 1] + d) /\ g[i] \in Int
  <2>1. CASE i < place
    <3>1. i \in 0..n
      BY <1>1, <1>3, <2>1
    <3>2. QED
      BY <1>4, <2>1, <3>1
  <2>2. CASE ~(i < place)
    <3>1. i - 1 \in 0..n
      BY <1>1, <1>3, <2>2
    <3>2. QED
      BY <1>1, <1>4, <2>2, <3>1
  <2>3. QED
    BY <2>1, <2>2
<1>6. DOMAIN g = 0..(n + 1) /\ g = [i \in 0..(n + 1) |-> g[i]]
  OBVIOUS
<1> HIDE DEF g
<1>7. g \in [0..(n + 1) -> Int]
  BY <1>5, <1>6
<1>8. g[0] = 0
  <2>1. 0 \in 0..(n + 1) /\ 0 < place
    BY <1>1, <1>3
  <2>2. QED
    BY <1>4, <1>5, <2>1
<1>9. ASSUME NEW i \in 1..(n + 1) PROVE g[i] = g[i - 1] + Footprint(t[i].Size)
  <2>0. i \in 0..(n + 1) /\ i - 1 \in 0..(n + 1) /\ i \in 1..(Len(s) + 1)
    BY <1>1 DEF n
  <2>1. CASE i < place
    <3>1. i \in 1..n /\ i - 1 < place
      BY <1>1, <1>3, <2>1
    <3>2. t[i] = s[i]
      BY <2>0, <2>1
    <3>3. g[i] = f[i] /\ g[i - 1] = f[i - 1]
      BY <1>5, <2>0, <2>1, <3>1
    <3>4. QED
      BY <1>4, <3>1, <3>2, <3>3
  <2>2. CASE i = place
    <3>1. ~(i < place) /\ i - 1 < place /\ i - 1 \in 0..n
      BY <1>1, <1>3, <2>2
    <3>2. t[i] = x
      BY <2>0, <2>2, <3>1
    <3>3. g[i] = f[i - 1] + d /\ g[i - 1] = f[i - 1]
      BY <1>5, <2>0, <3>1
    <3>4. QED
      BY <3>2, <3>3 DEF d
  <2>3. CASE i > place
    <3>1. /\ ~(i < place) /\ i # place /\ ~(i - 1 < place) /\ i - 1 \in 1..n
          /\ i - 1 \in 0..n /\ (i - 1) - 1 \in 0..n
      BY <1>1, <1>3, <2>3
    <3>2. t[i] = s[i - 1]
      BY <2>0, <3>1
    <3>3. g[i] = f[i - 1] + d /\ g[i - 1] = f[(i - 1) - 1] + d
      BY <1>5, <2>0, <3>1
    <3>4. f[i - 1] = f[(i - 1) - 1] + Footprint(s[i - 1].Size) /\ f[(i - 1) - 1] \in Int
      BY <1>4, <3>1
    <3>5. Footprint(s[i - 1].Size) \in Nat
      <4>1. s[i - 1] \in Entry
        BY <3>1, ElementOfSeq DEF n
      <4>2. QED
        BY <4>1, FootprintIsNat
    <3>6. QED
      BY <1>1, <3>2, <3>3, <3>4, <3>5
  <2>4. i < place \/ i = place \/ i > place
    BY <1>1, <1>3
  <2>5. QED
    BY <2>1, <2>2, <2>3, <2>4
<1>10. Len(t) = n + 1
  BY DEF n
<1>11. Sums(g, t)
  BY <1>7, <1>8, <1>9, <1>10 DEF Sums
<1>12. UsedBytes(t) = g[n + 1] /\ UsedBytes(s) = f[n]
  BY <1>2, <1>10, <1>11, UsedIsSum DEF n
<1>13. g[n + 1] = f[n] + d
  <2>1. n + 1 \in 0..(n + 1) /\ ~(n + 1 < place) /\ (n + 1) - 1 = n
    BY <1>1, <1>3
  <2>2. QED
    BY <1>5, <2>1
<1>14. QED
  BY <1>12, <1>13 DEF d

LEMMA UsedIsInt ==
    ASSUME NEW s \in Seq(Entry)
    PROVE  UsedBytes(s) \in Int /\ (s = <<>> => UsedBytes(s) = 0)
<1>1. PICK f : Sums(f, s)
  BY SumsExist
<1>2. UsedBytes(s) = f[Len(s)]
  BY <1>1, UsedIsSum
<1>3. Len(s) \in Nat /\ (s = <<>> => Len(s) = 0)
  BY LenProperties
<1>4. Len(s) \in 0..Len(s)
  BY <1>3
<1>5. QED
  BY <1>1, <1>2, <1>3, <1>4 DEF Sums

\* Freeing the entry at k is allocating it, read backwards.
LEMMA FreedEntryIsUnused ==
    ASSUME NEW s \in Seq(Entry), NEW k \in 1..Len(s)
    PROVE  UsedBytes(RemoveAt(s, k)) = UsedBytes(s) - Footprint(s[k].Size)
<1> DEFINE n == Len(s)
           t == RemoveAt(s, k)
<1>1. /\ t \in Seq(Entry) /\ Len(t) = n - 1
      /\ \A i \in 1..(n - 1) : t[i] = IF i < k THEN s[i] ELSE s[i + 1]
  BY RemovedAt
<1>2. n \in Nat /\ s[k] \in Entry /\ k \in 1..n
  BY LenProperties, ElementOfSeq
<1> HIDE DEF t, n
<1>3. Len(t) + 1 = n
  BY <1>1, <1>2
<1>4. ASSUME NEW i \in 1..n
      PROVE  s[i] = IF i < k THEN t[i] ELSE IF i = k THEN s[k] ELSE t[i - 1]
  <2>1. CASE i < k
    <3>1. i \in 1..(n - 1)
      BY <1>2, <2>1
    <3>2. QED
      BY <1>1, <2>1, <3>1
  <2>2. CASE i = k
    BY <1>2, <2>2
  <2>3. CASE i > k
    <3>1. i - 1 \in 1..(n - 1) /\ ~(i - 1 < k) /\ (i - 1) + 1 = i /\ ~(i < k) /\ i # k
      BY <1>2, <2>3
    <3>2. QED
      BY <1>1, <3>1
  <2>4. i < k \/ i = k \/ i > k
    BY <1>2
  <2>5. QED
    BY <2>1, <2>2, <2>3, <2>4
<1>5. UsedBytes(s) = UsedBytes(t) + Footprint(s[k].Size)
  <2>1. /\ k \in 1..(Len(t) + 1) /\ Len(s) = Len(t) + 1
        /\ \A i \in 1..(Len(t) + 1) :
              s[i] = IF i < k THEN t[i] ELSE IF i = k THEN s[k] ELSE t[i - 1]
    BY <1>2, <1>3, <1>4 DEF n
  <2>2. QED
    BY <1>1, <1>2, <2>1, NewEntryIsUsed
<1>6. UsedBytes(t) \in Int /\ Footprint(s[k].Size) \in Nat
  BY <1>1, <1>2, UsedIsInt, FootprintIsNat
<1>7. QED
  BY <1>5, <1>6 DEF t
LEMMA AllocationKeepsAccounts ==
    ASSUME OrderedByAddress, OrderedByAddress', Accounted, NEW Size \in AllocationSizes,
           Count(Size), UNCHANGED outcome,
           NEW place \in 1..(Len(HeapAllocations) + 1), NEW new \in Entry, NEW alignment,
           NewEntryAt(place, new, Size, alignment)
    PROVE  Accounted'
<1> DEFINE H == HeapAllocations
<1>1. H \in Seq(Entry) /\ H' \in Seq(Entry)
  BY DEF OrderedByAddress, Entry, FirstByte, LastByte
<1>2. /\ Len(H') = Len(H) + 1 /\ new.Size = Size
      /\ \A i \in 1..(Len(H) + 1) :
            H'[i] = IF i < place THEN H[i] ELSE IF i = place THEN new ELSE H[i - 1]
  BY DEF NewEntryAt
<1>3. UsedBytes(H') = UsedBytes(H) + Footprint(Size)
  BY <1>1, <1>2, NewEntryIsUsed
<1>4. UsedBytes(H) \in Int /\ Footprint(Size) \in Nat
  <2>1. Footprint(new.Size) \in Nat
    BY FootprintIsNat
  <2>2. QED
    BY <1>1, <1>2, <2>1, UsedIsInt
<1>5. /\ HeapNumberOfAllocations' = HeapNumberOfAllocations + 1
      /\ HeapSizeRemaining' = HeapSizeRemaining - Footprint(Size)
  BY DEF Count
<1>6. /\ HeapNumberOfAllocations = Len(H) /\ outcome # "listEmpty"
      /\ HeapSizeRemaining = HeapSizeMaximum - sizeofHEADER - UsedBytes(H)
  BY DEF Accounted
<1> HIDE DEF H
<1>7. HeapSizeRemaining' = HeapSizeMaximum - sizeofHEADER - UsedBytes(H')
  <2>1. HeapSizeMaximum \in Nat
    BY HeapConstants
  <2>2. QED
    BY ONLY <1>3, <1>4, <1>5, <1>6, <2>1 DEF sizeofHEADER
<1>8. HeapNumberOfAllocations' = Len(H') /\ outcome' # "listEmpty"
  BY <1>2, <1>5, <1>6
<1>9. QED
  BY <1>7, <1>8 DEF Accounted, UsedBytes, Footprint, H

LEMMA FreeKeepsAccounts ==
    ASSUME OrderedByAddress, Accounted, NEW k \in DOMAIN HeapAllocations, Free(k)
    PROVE  Accounted'
<1> DEFINE H == HeapAllocations
<1>1. H \in Seq(Entry) /\ k \in 1..Len(H) /\ Len(H) \in Nat
  BY EntriesInOrder DEF OrderedByAddress
<1>2. H' = RemoveAt(H, k) /\ UNCHANGED outcome
  BY DEF Free
<1>3. /\ HeapNumberOfAllocations' = HeapNumberOfAllocations - 1
      /\ HeapSizeRemaining' = HeapSizeRemaining + Footprint(H[k].Size)
  BY DEF Free, Uncount
<1>4. /\ HeapNumberOfAllocations = Len(H) /\ outcome # "listEmpty"
      /\ HeapSizeRemaining = HeapSizeMaximum - sizeofHEADER - UsedBytes(H)
  BY DEF Accounted
<1> HIDE DEF H
<1>5. UsedBytes(H') = UsedBytes(H) - Footprint(H[k].Size) /\ Len(H') = Len(H) - 1
  BY <1>1, <1>2, FreedEntryIsUnused, RemovedAt
<1>6. UsedBytes(H) \in Int /\ Footprint(H[k].Size) \in Nat
  <2>1. H[k] \in Entry
    BY <1>1, ElementOfSeq
  <2>2. QED
    BY <1>1, <2>1, UsedIsInt, FootprintIsNat
<1>7. HeapSizeRemaining' = HeapSizeMaximum - sizeofHEADER - UsedBytes(H')
  <2>1. HeapSizeMaximum \in Nat
    BY HeapConstants
  <2>2. QED
    BY ONLY <1>3, <1>4, <1>5, <1>6, <2>1 DEF sizeofHEADER
<1>8. HeapNumberOfAllocations' = Len(H') /\ outcome' # "listEmpty"
  BY <1>2, <1>3, <1>4, <1>5
<1>9. QED
  BY <1>7, <1>8 DEF Accounted, UsedBytes, Footprint, H

\* A list that is empty leaves room at the end only.
LEMMA EmptyListIsNotSearched ==
    ASSUME OrderedByAddress, Accounted, NEW Size \in AllocationSizes, NEW alignment,
           Searches(Size, alignment)
    PROVE  HeapAllocations # <<>>
<1> SUFFICES ASSUME HeapAllocations = <<>> PROVE FALSE
  OBVIOUS
<1>1. HeapSizeRemaining = HeapSizeMaximum - 72 /\ FreeAddress = BaseAddress + 72
  <2>1. HeapAllocations \in Seq(Entry)
    BY DEF OrderedByAddress
  <2>2. UsedBytes(HeapAllocations) = 0
    BY <2>1, UsedIsInt
  <2>3. HeapSizeMaximum \in Nat
    BY HeapConstants
  <2>4. QED
    BY <2>2, <2>3 DEF Accounted, OrderedByAddress, FirstByte, sizeofHEADER
<1>2. SizeBeforeCurrent = 0
  <2>1. HeapSizeMaximum \in Nat /\ BaseAddress \in Nat
    BY HeapConstants
  <2>2. QED
    BY <1>1, <2>1 DEF SizeBeforeCurrent, SizeUntilEnd, sizeofENTRY
<1>3. Footprint(Size) > 0
  <2>1. Size \in Nat
    BY HeapConstants
  <2>2. QED
    BY <2>1 DEF Footprint, sizeofENTRY, sizeofTAIL
<1>4. Footprint(Size) <= SizeBeforeCurrent
  BY DEF Searches
<1>5. Footprint(Size) \in Int
  <2>1. Size \in Nat
    BY HeapConstants
  <2>2. QED
    BY <2>1 DEF Footprint, sizeofENTRY, sizeofTAIL
<1>6. QED
  BY <1>2, <1>3, <1>4, <1>5

LEMMA StopKeepsAccounts ==
    ASSUME OrderedByAddress, Accounted, NEW Size \in AllocationSizes, NEW alignment,
           SearchStops(Size, alignment)
    PROVE  Accounted'
<1>1. HeapAllocations # <<>>
  BY EmptyListIsNotSearched DEF SearchStops
<1>2. outcome' \in Mishap(Size, alignment)
  BY DEF SearchStops
<1>3. outcome' \in {"undefined", "noPrevious"}
  BY <1>1, <1>2 DEF Mishap
<1>4. UNCHANGED <<HeapAllocations, HeapSizeRemaining, HeapNumberOfAllocations>>
  BY DEF SearchStops
<1>5. QED
  BY <1>3, <1>4 DEF Accounted, UsedBytes, Footprint

\* The header agrees with the list, and the list is never searched when it is empty:
\* "there is no way the list can be empty and we still don't have nay memory remaining".
THEOREM AlwaysAccounted == Spec => []Accounted
<1>1. Init => Accounted
  <2> SUFFICES ASSUME Init PROVE Accounted
    OBVIOUS
  <2>1. UsedBytes(HeapAllocations) = 0 /\ Len(HeapAllocations) = 0
    <3>1. HeapAllocations = <<>> /\ HeapAllocations \in Seq(Entry)
      BY DEF Init
    <3>2. QED
      BY <3>1, UsedIsInt
  <2>2. HeapSizeMaximum \in Nat
    BY HeapConstants
  <2>3. QED
    BY <2>1, <2>2 DEF Init, Accounted, sizeofHEADER
<1>2. OrderedByAddress /\ OrderedByAddress' /\ Accounted /\ [Next]_vars => Accounted'
  <2>1. SUFFICES ASSUME OrderedByAddress, OrderedByAddress', Accounted, [Next]_vars
                 PROVE  Accounted'
    OBVIOUS
  <2>2. CASE UNCHANGED vars
    BY <2>1, <2>2 DEF Accounted, UsedBytes, Footprint, vars
  <2>3. ASSUME NEW Size \in AllocationSizes, NEW alignment \in Alignments,
               Allocate(Size, alignment)
        PROVE  Accounted'
    <3>1. CASE AllocateAtEnd(Size, alignment) \/ AllocateInGap(Size, alignment)
      <4>1. PICK place \in 1..(Len(HeapAllocations) + 1), new \in Entry :
              NewEntryAt(place, new, Size, alignment)
        BY <2>1, <3>1, AtEndInserts, InGapInserts
      <4>2. Count(Size) /\ UNCHANGED outcome
        BY <3>1 DEF AllocateAtEnd, AllocateInGap
      <4>3. QED
        BY <2>1, <4>1, <4>2, AllocationKeepsAccounts
    <3>2. CASE SearchStops(Size, alignment)
      BY <2>1, <3>2, StopKeepsAccounts
    <3>3. QED
      BY <2>3, <3>1, <3>2 DEF Allocate
  <2>4. QED
    BY <2>1, <2>2, <2>3, FreeKeepsAccounts DEF Next
<1>3. QED
  BY <1>1, <1>2, AlwaysOrderedByAddress, PTL DEF Spec

-------------------------------------------------------------------------------
(* The heap hands out blocks as Allocator describes. *)

BlockOf(e) == [start |-> Data(e), size |-> e.Size]

LEMMA BlocksByIndex ==
    ASSUME NEW s \in Seq(Entry)
    PROVE  /\ DOMAIN s = 1..Len(s)
           /\ {[start |-> Data(e), size |-> e.Size] : e \in ToSet(s)} =
                  {BlockOf(s[i]) : i \in 1..Len(s)}
<1>1. DOMAIN s = 1..Len(s)
  BY LenProperties
<1>2. QED
  BY <1>1 DEF ToSet, BlockOf

\* Entries in order have blocks that share no byte.
LEMMA OrderKeepsApart ==
    ASSUME NEW a \in Entry, NEW b \in Entry, EndOf(a) <= b.addr
    PROVE  /\ Abstract!Apart(BlockOf(a), BlockOf(b)) /\ Abstract!Apart(BlockOf(b), BlockOf(a))
           /\ BlockOf(a) # BlockOf(b)
<1>1. /\ a.addr \in FirstByte..LastByte /\ a.Size \in AllocationSizes
      /\ b.addr \in FirstByte..LastByte /\ b.Size \in AllocationSizes
  BY DEF Entry
<1>2. /\ a.addr \in Nat /\ a.Size \in Nat /\ a.Size > 0
      /\ b.addr \in Nat /\ b.Size \in Nat
  BY <1>1, HeapConstants
<1>3. /\ BlockOf(a).start = a.addr + 32 /\ BlockOf(a).size = a.Size
      /\ BlockOf(b).start = b.addr + 32 /\ BlockOf(b).size = b.Size
  BY DEF BlockOf, Data, sizeofENTRY
<1>4. EndOf(a) = a.addr + (a.Size + 32 + 4)
  BY DEF EndOf, Footprint, sizeofENTRY, sizeofTAIL
<1>5. BlockOf(a).start + BlockOf(a).size <= BlockOf(b).start
  BY <1>2, <1>3, <1>4
<1>6. BlockOf(a).start # BlockOf(b).start
  BY <1>2, <1>3, <1>5
<1>7. QED
  BY <1>5, <1>6 DEF Abstract!Apart

LEMMA DataFits ==
    ASSUME NEW addr \in Nat, NEW Size \in Nat, Size > 0, NEW first \in Nat, NEW last \in Nat,
           addr >= first, addr + (Size + 32 + 4) <= last + 1
    PROVE  addr + 32 \in first..last /\ (addr + 32) + Size - 1 <= last
OBVIOUS

\* One new entry, wherever it is put into the list, is one block allocated.
LEMMA NewEntryIsAllocated ==
    ASSUME OrderedByAddress, OrderedByAddress', NEW Size, NEW alignment \in Alignments,
           NEW place \in 1..(Len(HeapAllocations) + 1), NEW new \in Entry,
           NewEntryAt(place, new, Size, alignment)
    PROVE  Abstract!Next
<1> DEFINE H == HeapAllocations
           n == Len(H)
           b == BlockOf(new)
<1>1. /\ H \in Seq(Entry) /\ n \in Nat /\ \A i \in 1..n : H[i] \in Entry
      /\ H' \in Seq(Entry)
      /\ \A i, j \in DOMAIN H' : i < j => EndOf(H'[i]) <= H'[j].addr
  BY EntriesInOrder DEF OrderedByAddress, EndOf, Footprint, Entry, FirstByte, LastByte
<1>2. Blocks = {BlockOf(H[i]) : i \in 1..n}
  BY <1>1, BlocksByIndex DEF Blocks
<1>3. /\ Data(new) % alignment = 0 /\ EndOf(new) <= LastByte + 1
      /\ \A i \in 1..(n + 1) :
            H'[i] = IF i < place THEN H[i] ELSE IF i = place THEN new ELSE H[i - 1]
      /\ Len(H') = n + 1
  BY DEF NewEntryAt
<1>4. Blocks' = {BlockOf(H'[i]) : i \in 1..(n + 1)} /\ DOMAIN H' = 1..(n + 1)
  BY <1>1, <1>3, BlocksByIndex DEF Blocks, Data
<1>5. place \in 1..(n + 1)
  BY DEF n
<1> HIDE DEF H, n
<1>6. H'[place] = new /\ place \in 1..(n + 1)
  BY <1>1, <1>3, <1>5
<1>7. ASSUME NEW i \in 1..n
      PROVE  \E j \in 1..(n + 1) : j # place /\ H'[j] = H[i]
  <2>1. CASE i < place
    <3>1. i \in 1..(n + 1) /\ i # place
      BY <1>1, <1>6, <2>1
    <3>2. H'[i] = H[i]
      BY <1>3, <2>1, <3>1
    <3>3. QED
      BY <3>1, <3>2
  <2>2. CASE ~(i < place)
    <3>1. i + 1 \in 1..(n + 1) /\ i + 1 # place /\ ~(i + 1 < place) /\ (i + 1) - 1 = i
      BY <1>1, <1>6, <2>2
    <3>2. H'[i + 1] = H[i]
      BY <1>3, <3>1
    <3>3. QED
      BY <3>1, <3>2
  <2>3. QED
    BY <2>1, <2>2
<1>8. ASSUME NEW j \in 1..(n + 1), j # place
      PROVE  \E i \in 1..n : H'[j] = H[i]
  <2>1. CASE j < place
    <3>1. j \in 1..n
      BY <1>1, <1>6, <2>1
    <3>2. H'[j] = H[j]
      BY <1>8, <1>3, <2>1
    <3>3. QED
      BY <3>1, <3>2
  <2>2. CASE ~(j < place)
    <3>1. j - 1 \in 1..n
      BY <1>1, <1>6, <1>8, <2>2
    <3>2. H'[j] = H[j - 1]
      BY <1>8, <1>3, <2>2
    <3>3. QED
      BY <3>1, <3>2
  <2>3. QED
    BY <2>1, <2>2
<1>9. Blocks' = Blocks \cup {b}
  <2>1. ASSUME NEW x \in Blocks' PROVE x \in Blocks \cup {b}
    <3>1. PICK j \in 1..(n + 1) : x = BlockOf(H'[j])
      BY <1>4
    <3>2. j # place => x \in Blocks
      BY <1>2, <1>8, <3>1
    <3>3. QED
      BY <1>6, <3>1, <3>2
  <2>2. ASSUME NEW x \in Blocks PROVE x \in Blocks'
    BY <1>2, <1>4, <1>7
  <2>3. b \in Blocks'
    BY <1>4, <1>6
  <2>4. QED
    BY <2>1, <2>2, <2>3
<1>10. ASSUME NEW other \in Blocks
      PROVE  Abstract!Apart(b, other) /\ b # other
  <2>1. PICK i \in 1..n : other = BlockOf(H[i])
    BY <1>2
  <2>2. PICK j \in 1..(n + 1) : j # place /\ H'[j] = H[i]
    BY <1>7
  <2>3. j < place \/ place < j
    BY <1>1, <1>6, <2>2
  <2>4. j < place => EndOf(H[i]) <= new.addr
    BY <1>1, <1>4, <1>6, <2>2
  <2>5. place < j => EndOf(new) <= H[i].addr
    BY <1>1, <1>4, <1>6, <2>2
  <2>6. H[i] \in Entry
    BY <1>1
  <2>7. QED
    BY <2>1, <2>3, <2>4, <2>5, <2>6, OrderKeepsApart
<1>11. /\ b.start = Data(new) /\ b.size = new.Size /\ b = [start |-> b.start, size |-> b.size]
  BY DEF BlockOf
<1>12. b \in Abstract!Block /\ b.start + b.size - 1 <= LastByte
  <2>1. new.addr \in FirstByte..LastByte /\ new.Size \in AllocationSizes
    BY DEF Entry
  <2>2. new.addr \in Nat /\ new.addr >= FirstByte /\ new.Size \in Nat /\ new.Size > 0
    BY <2>1, HeapConstants
  <2>3. EndOf(new) = new.addr + (new.Size + 32 + 4) /\ Data(new) = new.addr + 32
    BY DEF EndOf, Footprint, Data, sizeofENTRY, sizeofTAIL
  <2>4. FirstByte \in Nat /\ LastByte \in Nat
    BY HeapConstants
  <2>5. new.addr + (new.Size + 32 + 4) <= LastByte + 1
    BY <1>3, <2>3
  <2>6. /\ new.addr + 32 \in FirstByte..LastByte
        /\ (new.addr + 32) + new.Size - 1 <= LastByte
    BY ONLY <2>2, <2>4, <2>5, DataFits
  <2>7. QED
    BY <1>11, <1>3, <2>1, <2>3, <2>6 DEF Abstract!Block
<1>13. b \in Blocks' \ Blocks
  BY <1>9, <1>10
<1>14. Abstract!Allocate(b, alignment)
  BY <1>9, <1>10, <1>11, <1>12, <1>3 DEF Abstract!Allocate
<1>15. QED
  BY <1>12, <1>13, <1>14 DEF Abstract!Next

LEMMA FreeIsFree ==
    ASSUME OrderedByAddress, NEW k \in DOMAIN HeapAllocations, Free(k)
    PROVE  Abstract!Next
<1> DEFINE H == HeapAllocations
           n == Len(H)
<1>1. /\ H \in Seq(Entry) /\ n \in Nat /\ k \in 1..n /\ \A i \in 1..n : H[i] \in Entry
      /\ \A i, j \in 1..n : i < j => EndOf(H[i]) <= H[j].addr
  BY EntriesInOrder DEF OrderedByAddress
<1>2. H' = RemoveAt(H, k)
  BY DEF Free
<1>3. Blocks = {BlockOf(H[i]) : i \in 1..n}
  BY <1>1, BlocksByIndex DEF Blocks
<1> HIDE DEF H, n
<1>4. /\ H' \in Seq(Entry) /\ Len(H') = n - 1
      /\ \A i \in 1..(n - 1) : H'[i] = IF i < k THEN H[i] ELSE H[i + 1]
  BY <1>1, <1>2, RemovedAt DEF n
<1>5. Blocks' = {BlockOf(H'[i]) : i \in 1..(n - 1)}
  BY <1>4, BlocksByIndex DEF Blocks, Data, H
<1>6. ASSUME NEW i \in 1..n, i # k
      PROVE  \E j \in 1..(n - 1) : H'[j] = H[i]
  <2>1. CASE i < k
    <3>1. i \in 1..(n - 1)
      BY <1>1, <2>1
    <3>2. QED
      BY <1>4, <2>1, <3>1
  <2>2. CASE ~(i < k)
    <3>1. i - 1 \in 1..(n - 1) /\ ~(i - 1 < k) /\ (i - 1) + 1 = i
      BY <1>1, <1>6, <2>2
    <3>2. QED
      BY <1>4, <3>1
  <2>3. QED
    BY <2>1, <2>2
<1>7. ASSUME NEW j \in 1..(n - 1)
      PROVE  \E i \in 1..n : i # k /\ H'[j] = H[i]
  <2>1. CASE j < k
    <3>1. j \in 1..n /\ j # k
      BY <1>1, <2>1
    <3>2. QED
      BY <1>4, <2>1, <3>1
  <2>2. CASE ~(j < k)
    <3>1. j + 1 \in 1..n /\ j + 1 # k
      BY <1>1, <2>2
    <3>2. QED
      BY <1>4, <2>2, <3>1
  <2>3. QED
    BY <2>1, <2>2
<1>8. ASSUME NEW i \in 1..n, i # k
      PROVE  BlockOf(H[i]) # BlockOf(H[k])
  <2>1. i < k \/ k < i
    BY <1>1, <1>8
  <2>2. H[i] \in Entry /\ H[k] \in Entry
    BY <1>1
  <2>3. (i < k => EndOf(H[i]) <= H[k].addr) /\ (k < i => EndOf(H[k]) <= H[i].addr)
    BY <1>1
  <2>4. QED
    BY <2>1, <2>2, <2>3, OrderKeepsApart
<1> DEFINE b == BlockOf(H[k])
<1>9. Blocks' = Blocks \ {b} /\ b \in Blocks
  <2>1. ASSUME NEW x \in Blocks' PROVE x \in Blocks \ {b}
    <3>1. PICK j \in 1..(n - 1) : x = BlockOf(H'[j])
      BY <1>5
    <3>2. PICK i \in 1..n : i # k /\ H'[j] = H[i]
      BY <1>7
    <3>3. QED
      BY <1>3, <1>8, <3>1, <3>2
  <2>2. ASSUME NEW x \in Blocks \ {b} PROVE x \in Blocks'
    <3>1. PICK i \in 1..n : x = BlockOf(H[i])
      BY <1>3
    <3>2. i # k
      BY <2>2, <3>1
    <3>3. PICK j \in 1..(n - 1) : H'[j] = H[i]
      BY <1>6, <3>2
    <3>4. QED
      BY <1>5, <3>1, <3>3
  <2>3. b \in Blocks
    BY <1>1, <1>3
  <2>4. QED
    BY <2>1, <2>2, <2>3
<1>10. QED
  BY <1>9 DEF Abstract!Next, Abstract!Free

\* "The heap hands out blocks as Allocator describes": each call allocates one block,
\* aligned, inside the heap and apart from all others, or frees one, or changes none.
THEOREM HeapImplementsAllocator == Spec => ImplementsAllocator
<1>1. Init => Abstract!Init
  <2>1. SUFFICES ASSUME Init PROVE Blocks = {}
    BY DEF Abstract!Init
  <2>2. HeapAllocations = <<>>
    BY <2>1 DEF Init
  <2>3. DOMAIN HeapAllocations = {}
    BY <2>2
  <2>4. ToSet(HeapAllocations) = {}
    BY <2>3 DEF ToSet
  <2>5. QED
    BY <2>4 DEF Blocks
<1>2. OrderedByAddress /\ [Next]_vars => [Abstract!Next]_Blocks
  <2>1. SUFFICES ASSUME OrderedByAddress, [Next]_vars
                 PROVE  Abstract!Next \/ UNCHANGED Blocks
    OBVIOUS
  <2>2. UNCHANGED HeapAllocations => UNCHANGED Blocks
    BY DEF Blocks, Data, ToSet
  <2>3. UNCHANGED vars => UNCHANGED HeapAllocations
    BY DEF vars
  <2>4. ASSUME NEW Size \in AllocationSizes, NEW alignment \in Alignments,
               Allocate(Size, alignment)
        PROVE  Abstract!Next \/ UNCHANGED Blocks
    <3>1. SearchStops(Size, alignment) => UNCHANGED HeapAllocations
      BY DEF SearchStops
    <3>2. CASE AllocateAtEnd(Size, alignment) \/ AllocateInGap(Size, alignment)
      <4>1. PICK place \in 1..(Len(HeapAllocations) + 1), new \in Entry :
              NewEntryAt(place, new, Size, alignment)
        BY <2>1, <3>2, AtEndInserts, InGapInserts
      <4>2. OrderedByAddress'
        BY <2>1, OrderIsKept
      <4>3. QED
        BY <2>1, <4>1, <4>2, NewEntryIsAllocated
    <3>3. QED
      BY <2>2, <2>4, <3>1, <3>2 DEF Allocate
  <2>5. QED
    BY <2>1, <2>2, <2>3, <2>4, FreeIsFree DEF Next
<1>3. QED
  BY <1>1, <1>2, AlwaysOrderedByAddress, PTL DEF Spec, ImplementsAllocator, Abstract!Spec

-------------------------------------------------------------------------------
(* The hash table. Which element follows which is a matter of their keys: the links
   of a bucket go from its head through its elements by ascending key and back. *)

In == {e \in Elements : IsIn(e)}
BucketOf(e) == HashFunc(KeyOf[e])
Chain(b) == {e \in In : BucketOf(e) = b}
RingOf(b) == {b} \union Chain(b)

\* Going along the ring of b, n comes before e, and e before n.
Before(n, e, b) == n = b \/ KeyOf[n] < KeyOf[e]
After(n, e, b) == n = b \/ KeyOf[e] < KeyOf[n]

\* No element of the chain comes between n and m.
Adjacent(n, m, b, chain) ==
    /\ n # b => After(m, n, b)
    /\ \A e \in chain : ~(Before(n, e, b) /\ After(m, e, b))

Linked(flink, blink, b, chain) ==
    \A n \in {b} \union chain :
        /\ flink[n] \in {b} \union chain /\ blink[n] \in {b} \union chain
        /\ blink[flink[n]] = n /\ flink[blink[n]] = n
        /\ Adjacent(n, flink[n], b, chain)

TableInv ==
    /\ Flink \in [Nodes -> Nodes \union {NoElement}]
    /\ Blink \in [Nodes -> Nodes \union {NoElement}]
    /\ \A e, f \in In : KeyOf[e] = KeyOf[f] => e = f
    /\ \A b \in Buckets : Linked(Flink, Blink, b, Chain(b))
    /\ NumberOfElements = Cardinality(In)

\* An iteration has returned the elements of the buckets it is done with, and of the
\* bucket it is in those before the entry it returns next, removed by now or not.
IterationInv ==
    /\ due \subseteq Elements /\ seen \subseteq due
    /\ KeyIndex \in 0..MaxKeys
    /\ IF KeyIndex = MaxKeys THEN CurrentEntry = NoElement /\ seen = due
                             ELSE ~inside => CurrentEntry = KeyIndex
    /\ inside =>
          /\ In \subseteq due /\ due \ In \subseteq seen
          /\ KeyIndex < MaxKeys => CurrentEntry \in RingOf(KeyIndex)
          /\ lastReturned # NoElement => lastReturned \in seen
          /\ seen = {e \in due : \/ BucketOf(e) < KeyIndex
                                 \/ /\ BucketOf(e) = KeyIndex
                                    /\ After(CurrentEntry, e, KeyIndex)}

\* The elements, the heads of the buckets, and what the hash function gives.
LEMMA TableConstants ==
    /\ MaxKeys \in Nat \ {0} /\ IsFiniteSet(Elements)
    /\ NoElement \notin Elements /\ NoElement \notin Buckets
    /\ \A b \in Buckets : b \notin Elements
    /\ \A b \in Buckets : b \in Int /\ b >= 0 /\ b < MaxKeys
    /\ \A e \in Elements : KeyOf[e] \in Nat /\ BucketOf(e) \in Buckets
    /\ \A key \in Nat : HashFunc(key) \in Buckets
<1>1. ASSUME NEW key \in Nat PROVE HashFunc(key) \in Buckets
  <2>1. MaxKeys \in Nat \ {0}
    BY HashTableAssumption
  <2>2. key % MaxKeys \in 0..(MaxKeys - 1)
    BY <2>1, Division
  <2>3. QED
    BY <2>2 DEF HashFunc, Buckets
<1>2. ASSUME NEW e \in Elements PROVE KeyOf[e] \in Nat /\ BucketOf(e) \in Buckets
  BY <1>1, HashTableAssumption DEF BucketOf
<1>3. \A b \in Buckets : b \in Int /\ b >= 0 /\ b < MaxKeys
  BY HashTableAssumption DEF Buckets
<1>4. /\ NoElement \notin Elements /\ NoElement \notin Buckets
      /\ \A b \in Buckets : b \notin Elements
  BY HashTableAssumption DEF Nodes
<1>5. QED
  BY <1>1, <1>2, <1>3, <1>4, HashTableAssumption

\* What is in the ring of b is its head or an element of this bucket that is in.
LEMMA RingIs ==
    ASSUME NEW b \in Buckets, NEW n \in RingOf(b)
    PROVE  /\ n \in Nodes
           /\ n # b => n \in In /\ n \in Elements /\ BucketOf(n) = b /\ KeyOf[n] \in Nat
           /\ n \in Elements => n # b
BY TableConstants DEF RingOf, Chain, In, Nodes

\* And an element that is in is in the ring of its bucket.
LEMMA ChainIs ==
    ASSUME NEW e \in In
    PROVE  /\ e \in Elements /\ e \in Chain(BucketOf(e)) /\ e \in RingOf(BucketOf(e))
           /\ BucketOf(e) \in Buckets /\ e # BucketOf(e)
BY TableConstants DEF RingOf, Chain, In

-------------------------------------------------------------------------------
(* What the links of one ring are after list.c has changed them. *)

\* A chain with its links.
IsLinked(F, B, b, chain) ==
    /\ F \in [Nodes -> Nodes \union {NoElement}] /\ B \in [Nodes -> Nodes \union {NoElement}]
    /\ chain \subseteq Elements
    /\ \A e, f \in chain : KeyOf[e] = KeyOf[f] => e = f
    /\ Linked(F, B, b, chain)

\* Heads and elements are different nodes and elements have keys.
LEMMA ChainNodes ==
    ASSUME NEW b \in Buckets, NEW chain, chain \subseteq Elements
    PROVE  /\ b \in Nodes /\ chain \subseteq Nodes /\ b \notin chain
           /\ NoElement \notin Nodes
           /\ \A n \in {b} \union chain : n # b => n \in chain /\ KeyOf[n] \in Nat
BY TableConstants DEF Nodes

\* InsertHeadList behind p: e comes between p and what p was followed by.
LEMMA LinkBetween ==
    ASSUME NEW b \in Buckets, NEW F, NEW B, NEW chain, IsLinked(F, B, b, chain),
           NEW p \in {b} \union chain, NEW e \in Elements, e \notin chain,
           Before(p, e, b), After(F[p], e, b),
           NEW F2, F2 = [F EXCEPT ![e] = F[p], ![p] = e],
           NEW B2, B2 = [B EXCEPT ![e] = p, ![F[p]] = e]
    PROVE  IsLinked(F2, B2, b, chain \union {e})
<1> DEFINE m == F[p]
           ring == {b} \union chain
<1>1. /\ F \in [Nodes -> Nodes \union {NoElement}] /\ B \in [Nodes -> Nodes \union {NoElement}]
      /\ chain \subseteq Elements /\ Linked(F, B, b, chain)
      /\ \A f, g \in chain : KeyOf[f] = KeyOf[g] => f = g
  BY DEF IsLinked
<1>2. \A n \in ring : /\ F[n] \in ring /\ B[n] \in ring /\ B[F[n]] = n /\ F[B[n]] = n
                      /\ Adjacent(n, F[n], b, chain)
  BY <1>1 DEF Linked
<1>3. m \in ring /\ B[m] = p /\ Adjacent(p, m, b, chain) /\ p \in ring
  BY <1>2
<1>4. /\ ring \subseteq Nodes /\ e \in Nodes /\ e \notin ring /\ e # b
      /\ \A n \in ring : n # b => n \in chain /\ KeyOf[n] \in Nat
      /\ KeyOf[e] \in Nat
  BY <1>1, ChainNodes, TableConstants DEF Nodes
<1> HIDE DEF m
<1>5. /\ F2 = [F EXCEPT ![e] = m, ![p] = e] /\ B2 = [B EXCEPT ![e] = p, ![m] = e]
      /\ Before(p, e, b) /\ After(m, e, b)
  BY DEF m
<1>6. p \in Nodes /\ m \in Nodes /\ p # e /\ m # e
  BY <1>3, <1>4
<1>7. /\ F2 \in [Nodes -> Nodes \union {NoElement}] /\ B2 \in [Nodes -> Nodes \union {NoElement}]
      /\ F2[e] = m /\ F2[p] = e /\ B2[e] = p /\ B2[m] = e
      /\ \A n \in ring : n # p => F2[n] = F[n]
      /\ \A n \in ring : n # m => B2[n] = B[n]
  BY <1>1, <1>4, <1>5, <1>6
<1>8. (p # b => KeyOf[p] < KeyOf[e]) /\ (m # b => KeyOf[e] < KeyOf[m])
  BY <1>5 DEF Before, After
<1> DEFINE all == {b} \union (chain \union {e})
<1>9. all = ring \union {e}
  OBVIOUS
<1> HIDE DEF ring
<1>10. /\ \A n \in ring : n # p => F[n] # m
       /\ \A n \in ring : n # m => B[n] # p
  BY <1>2, <1>3 DEF m
<1>11. \A n \in all : F2[n] \in all /\ B2[n] \in all /\ B2[F2[n]] = n /\ F2[B2[n]] = n
  <2>1. SUFFICES ASSUME NEW n \in ring \union {e}
                 PROVE  /\ F2[n] \in ring \union {e} /\ B2[n] \in ring \union {e}
                        /\ B2[F2[n]] = n /\ F2[B2[n]] = n
    BY <1>9
  <2>2. CASE n = e
    BY <1>3, <1>7, <2>2
  <2>3. CASE n \in ring
    <3>1. F2[n] \in ring \union {e} /\ B2[F2[n]] = n
      <4>1. CASE n = p
        BY <1>7, <4>1
      <4>2. CASE n # p
        <5>1. F2[n] = F[n] /\ F[n] \in ring /\ F[n] # m /\ B[F[n]] = n
          BY <1>2, <1>7, <1>10, <2>3, <4>2
        <5>2. B2[F[n]] = B[F[n]]
          BY <1>7, <5>1
        <5>3. QED
          BY <5>1, <5>2
      <4>3. QED
        BY <4>1, <4>2
    <3>2. B2[n] \in ring \union {e} /\ F2[B2[n]] = n
      <4>1. CASE n = m
        BY <1>7, <4>1
      <4>2. CASE n # m
        <5>1. B2[n] = B[n] /\ B[n] \in ring /\ B[n] # p /\ F[B[n]] = n
          BY <1>2, <1>7, <1>10, <2>3, <4>2
        <5>2. F2[B[n]] = F[B[n]]
          BY <1>7, <5>1
        <5>3. QED
          BY <5>1, <5>2
      <4>3. QED
        BY <4>1, <4>2
    <3>3. QED
      BY <3>1, <3>2
  <2>4. QED
    BY <2>2, <2>3
<1>12. Adjacent(e, m, b, chain \union {e})
  <2>1. \A f \in chain : ~(Before(e, f, b) /\ After(m, f, b))
    <3>1. ASSUME NEW f \in chain, Before(e, f, b), After(m, f, b) PROVE FALSE
      <4>1. f \in ring /\ f # b /\ KeyOf[f] \in Nat /\ KeyOf[e] < KeyOf[f]
        BY <1>1, <1>4, <3>1, ChainNodes DEF Before, ring
      <4>2. p = b \/ (KeyOf[p] \in Nat /\ KeyOf[p] < KeyOf[e])
        BY <1>3, <1>4, <1>8
      <4>3. Before(p, f, b)
        BY <1>4, <4>1, <4>2 DEF Before
      <4>4. QED
        BY <1>3, <3>1, <4>3 DEF Adjacent
    <3>2. QED
      BY <3>1
  <2>2. ~Before(e, e, b)
    BY <1>4 DEF Before
  <2>3. QED
    BY <1>5, <2>1, <2>2 DEF Adjacent
<1>13. Adjacent(p, e, b, chain \union {e})
  <2>1. \A f \in chain : ~(Before(p, f, b) /\ After(e, f, b))
    <3>1. ASSUME NEW f \in chain, Before(p, f, b), After(e, f, b) PROVE FALSE
      <4>1. f \in ring /\ f # b /\ KeyOf[f] \in Nat /\ KeyOf[f] < KeyOf[e]
        BY <1>1, <1>4, <3>1, ChainNodes DEF After, ring
      <4>2. m = b \/ (KeyOf[m] \in Nat /\ KeyOf[e] < KeyOf[m])
        BY <1>3, <1>4, <1>8
      <4>3. After(m, f, b)
        BY <1>4, <4>1, <4>2 DEF After
      <4>4. QED
        BY <1>3, <3>1, <4>3 DEF Adjacent
    <3>2. QED
      BY <3>1
  <2>2. ~After(e, e, b)
    BY <1>4 DEF After
  <2>3. p # b => After(e, p, b)
    BY <1>8 DEF After
  <2>4. QED
    BY <2>1, <2>2, <2>3 DEF Adjacent
<1>14. ASSUME NEW n \in ring, n # p PROVE Adjacent(n, F[n], b, chain \union {e})
  <2>1. Adjacent(n, F[n], b, chain) /\ F[n] \in ring
    BY <1>2
  <2>2. ASSUME Before(n, e, b), After(F[n], e, b) PROVE FALSE
    <3>1. CASE p # b /\ Before(n, p, b)
      <4>1. p \in chain /\ KeyOf[p] \in Nat /\ KeyOf[p] < KeyOf[e]
        BY <1>3, <1>4, <1>8, <3>1
      <4>2. F[n] = b \/ (KeyOf[F[n]] \in Nat /\ KeyOf[e] < KeyOf[F[n]])
        BY <1>4, <2>1, <2>2 DEF After
      <4>3. After(F[n], p, b)
        BY <1>4, <4>1, <4>2 DEF After
      <4>4. QED
        BY <2>1, <3>1, <4>1, <4>3 DEF Adjacent
    <3>2. CASE n # b /\ Before(p, n, b)
      <4>1. n \in chain /\ KeyOf[n] \in Nat /\ KeyOf[n] < KeyOf[e]
        BY <1>4, <1>14, <2>2, <3>2 DEF Before
      <4>2. m = b \/ (KeyOf[m] \in Nat /\ KeyOf[e] < KeyOf[m])
        BY <1>3, <1>4, <1>8
      <4>3. After(m, n, b)
        BY <1>4, <4>1, <4>2 DEF After
      <4>4. QED
        BY <1>3, <3>2, <4>1, <4>3 DEF Adjacent
    <3>3. CASE n # b /\ p # b
      <4>1. n \in chain /\ KeyOf[n] \in Nat /\ p \in chain /\ KeyOf[p] \in Nat
        BY <1>3, <1>4, <1>14, <3>3
      <4>2. KeyOf[n] # KeyOf[p]
        BY <1>1, <1>14, <4>1
      <4>3. KeyOf[n] < KeyOf[p] \/ KeyOf[p] < KeyOf[n]
        BY <4>1, <4>2
      <4>4. QED
        BY <3>1, <3>2, <3>3, <4>3 DEF Before
    <3>4. QED
      BY <1>14, <3>1, <3>2, <3>3 DEF Before
  <2>3. QED
    BY <2>1, <2>2 DEF Adjacent
<1>15. \A n \in all : Adjacent(n, F2[n], b, chain \union {e})
  BY <1>7, <1>9, <1>12, <1>13, <1>14
<1>16. Linked(F2, B2, b, chain \union {e})
  BY <1>11, <1>15 DEF Linked
<1>17. ASSUME NEW f \in chain PROVE KeyOf[f] # KeyOf[e]
  <2>1. CASE f = p \/ (p # b /\ Before(f, p, b))
    BY <1>1, <1>3, <1>4, <1>8, <2>1, ChainNodes DEF Before, ring
  <2>2. CASE f # p /\ (p = b \/ Before(p, f, b))
    <3>1. f \in ring /\ f # b /\ KeyOf[f] \in Nat /\ Before(p, f, b)
      BY <1>1, <1>4, <2>2, ChainNodes DEF Before, ring
    <3>2. ~After(m, f, b)
      BY <1>3, <3>1 DEF Adjacent
    <3>3. m # b /\ KeyOf[m] \in Nat /\ ~(KeyOf[f] < KeyOf[m])
      BY <1>3, <1>4, <3>2 DEF After
    <3>4. QED
      BY <1>4, <1>8, <3>1, <3>3
  <2>3. CASE p # b /\ f # p
    <3>1. /\ p \in chain /\ KeyOf[p] \in Nat /\ KeyOf[f] \in Nat /\ KeyOf[f] # KeyOf[p]
      BY <1>1, <1>3, <1>4, <2>3, ChainNodes
    <3>2. KeyOf[f] < KeyOf[p] \/ KeyOf[p] < KeyOf[f]
      BY <3>1
    <3>3. QED
      BY <2>1, <2>2, <2>3, <3>2 DEF Before
  <2>4. QED
    BY <2>1, <2>2, <2>3
<1>18. QED
  BY <1>1, <1>7, <1>16, <1>17 DEF IsLinked

\* RemoveEntryList: the neighbours of e are linked to each other.
LEMMA LinkAround ==
    ASSUME NEW b \in Buckets, NEW F, NEW B, NEW chain, IsLinked(F, B, b, chain),
           NEW e \in chain,
           NEW F2, F2 = [F EXCEPT ![B[e]] = F[e], ![e] = NoElement],
           NEW B2, B2 = [B EXCEPT ![F[e]] = B[e], ![e] = NoElement]
    PROVE  IsLinked(F2, B2, b, chain \ {e})
<1> DEFINE p == B[e]
           m == F[e]
           ring == {b} \union chain
           rest == chain \ {e}
<1>1. /\ F \in [Nodes -> Nodes \union {NoElement}] /\ B \in [Nodes -> Nodes \union {NoElement}]
      /\ chain \subseteq Elements /\ Linked(F, B, b, chain)
      /\ \A f, g \in chain : KeyOf[f] = KeyOf[g] => f = g
  BY DEF IsLinked
<1>2. \A n \in ring : /\ F[n] \in ring /\ B[n] \in ring /\ B[F[n]] = n /\ F[B[n]] = n
                      /\ Adjacent(n, F[n], b, chain)
  BY <1>1 DEF Linked
<1>3. /\ ring \subseteq Nodes /\ e \in ring /\ e # b /\ KeyOf[e] \in Nat
      /\ \A n \in ring : n # b => n \in chain /\ KeyOf[n] \in Nat
      /\ \A n \in chain : n # b /\ n \in ring
  BY <1>1, ChainNodes
<1>4. /\ p \in ring /\ m \in ring /\ F[p] = e /\ B[m] = e
      /\ Adjacent(p, e, b, chain) /\ Adjacent(e, m, b, chain)
  BY <1>2, <1>3
<1>5. p # e /\ m # e
  <2>1. m # e
    BY <1>3, <1>4 DEF Adjacent, After
  <2>2. QED
    BY <1>3, <1>4, <2>1
<1> HIDE DEF p, m
<1>6. F2 = [F EXCEPT ![p] = m, ![e] = NoElement] /\ B2 = [B EXCEPT ![m] = p, ![e] = NoElement]
  BY DEF p, m
<1>7. /\ F2 \in [Nodes -> Nodes \union {NoElement}] /\ B2 \in [Nodes -> Nodes \union {NoElement}]
      /\ F2[p] = m /\ B2[m] = p
      /\ \A n \in ring : n # e /\ n # p => F2[n] = F[n]
      /\ \A n \in ring : n # e /\ n # m => B2[n] = B[n]
  BY <1>1, <1>3, <1>4, <1>5, <1>6
<1>8. /\ (p # b => KeyOf[p] < KeyOf[e]) /\ (m # b => KeyOf[e] < KeyOf[m])
      /\ p \in {b} \union rest /\ m \in {b} \union rest
      /\ \A n \in {b} \union rest : n \in ring /\ n # e
  BY <1>3, <1>4, <1>5 DEF Adjacent, After
<1>9. ASSUME NEW n \in {b} \union rest
      PROVE  F2[n] \in {b} \union rest /\ B2[F2[n]] = n
  <2>1. CASE n = p
    BY <1>7, <1>8, <2>1
  <2>2. CASE n # p
    <3>1. F2[n] = F[n] /\ F[n] \in ring /\ B[F[n]] = n
      BY <1>2, <1>7, <1>8, <1>9, <2>2
    <3>2. F[n] # e /\ F[n] # m
      BY <1>4, <1>8, <1>9, <2>2, <3>1 DEF p
    <3>3. B2[F[n]] = B[F[n]]
      BY <1>7, <3>1, <3>2
    <3>4. QED
      BY <3>1, <3>2, <3>3
  <2>3. QED
    BY <2>1, <2>2
<1>10. ASSUME NEW n \in {b} \union rest
       PROVE  B2[n] \in {b} \union rest /\ F2[B2[n]] = n
  <2>1. CASE n = m
    BY <1>7, <1>8, <2>1
  <2>2. CASE n # m
    <3>1. B2[n] = B[n] /\ B[n] \in ring /\ F[B[n]] = n
      BY <1>2, <1>7, <1>8, <1>10, <2>2
    <3>2. B[n] # e /\ B[n] # p
      BY <1>4, <1>8, <1>10, <2>2, <3>1 DEF m
    <3>3. F2[B[n]] = F[B[n]]
      BY <1>7, <3>1, <3>2
    <3>4. QED
      BY <3>1, <3>2, <3>3
  <2>3. QED
    BY <2>1, <2>2
<1>11. Adjacent(p, m, b, rest)
  <2>1. p # b => After(m, p, b)
    <3>1. ASSUME p # b, m # b PROVE KeyOf[p] < KeyOf[m]
      <4>1. /\ KeyOf[p] \in Nat /\ KeyOf[m] \in Nat
            /\ KeyOf[p] < KeyOf[e] /\ KeyOf[e] < KeyOf[m]
        BY <1>3, <1>4, <1>8, <3>1
      <4>2. QED
        BY <1>3, <4>1
    <3>2. QED
      BY <3>1 DEF After
  <2>2. ASSUME NEW f \in rest, Before(p, f, b), After(m, f, b) PROVE FALSE
    <3>1. f \in chain /\ f # e /\ KeyOf[f] \in Nat /\ KeyOf[f] # KeyOf[e]
      BY <1>1, <1>3
    <3>2. ~After(e, f, b) /\ ~Before(e, f, b)
      BY <1>4, <2>2, <3>1 DEF Adjacent
    <3>3. QED
      BY <1>3, <3>1, <3>2 DEF After, Before
  <2>3. QED
    BY <2>1, <2>2 DEF Adjacent
<1>12. ASSUME NEW n \in {b} \union rest, n # p PROVE Adjacent(n, F[n], b, rest)
  BY <1>2, <1>8, <1>12 DEF Adjacent
<1>13. \A n \in {b} \union rest : Adjacent(n, F2[n], b, rest)
  BY <1>7, <1>8, <1>11, <1>12
<1>14. Linked(F2, B2, b, rest)
  <2> HIDE DEF rest
  <2>1. QED
    BY <1>9, <1>10, <1>13 DEF Linked
<1>15. QED
  BY <1>1, <1>7, <1>14 DEF IsLinked

\* A ring none of whose nodes is touched.
LEMMA LinksStay ==
    ASSUME NEW b \in Buckets, NEW F, NEW B, NEW chain, IsLinked(F, B, b, chain),
           NEW F2 \in [Nodes -> Nodes \union {NoElement}],
           NEW B2 \in [Nodes -> Nodes \union {NoElement}],
           \A n \in {b} \union chain : F2[n] = F[n] /\ B2[n] = B[n]
    PROVE  IsLinked(F2, B2, b, chain)
BY DEF IsLinked, Linked

\* The table is its rings.
RingsInv ==
    /\ \A b \in Buckets : IsLinked(Flink, Blink, b, Chain(b))
    /\ NumberOfElements = Cardinality(In)

LEMMA TableIsRings == TableInv <=> RingsInv
<1>1. ASSUME TableInv PROVE \A b \in Buckets : IsLinked(Flink, Blink, b, Chain(b))
  BY <1>1 DEF TableInv, IsLinked, Chain, In
<1>2. ASSUME \A b \in Buckets : IsLinked(Flink, Blink, b, Chain(b)),
             NumberOfElements = Cardinality(In)
      PROVE  TableInv
  <2>1. 0 \in Buckets
    BY HashTableAssumption DEF Buckets
  <2>2. ASSUME NEW e \in In, NEW f \in In, KeyOf[e] = KeyOf[f] PROVE e = f
    <3>1. BucketOf(e) = BucketOf(f)
      BY <2>2 DEF BucketOf
    <3>2. e \in Chain(BucketOf(e)) /\ f \in Chain(BucketOf(e)) /\ BucketOf(e) \in Buckets
      BY <3>1, ChainIs
    <3>3. QED
      BY <1>2, <2>2, <3>2 DEF IsLinked
  <2>3. QED
    BY <1>2, <2>1, <2>2 DEF TableInv, IsLinked
<1>3. QED
  BY <1>1, <1>2 DEF TableInv, RingsInv

-------------------------------------------------------------------------------
(* Where a search stops. *)

\* N steps from x by F, within S.
IsWalk(g, S, x, F, N) ==
    g \in [0..N -> S] /\ g[0] = x /\ \A i \in 1..N : g[i] = F[g[i - 1]]

\* The recursive function in Nth exists.
LEMMA WalksExist ==
    ASSUME NEW S, NEW x \in S, NEW F, \A s \in S : F[s] \in S, NEW N \in Nat
    PROVE  \E g : IsWalk(g, S, x, F, N)
<1> DEFINE From(m) == \E g \in [0..m -> S] : g[0] = x /\ \A i \in 1..m : g[i] = F[g[i - 1]]
           Bad == {m \in 0..N : ~From(m)}
<1>1. From(0)
  <2> DEFINE g == [i \in 0..0 |-> x]
  <2>1. g \in [0..0 -> S] /\ g[0] = x /\ 1..0 = {}
    OBVIOUS
  <2>2. QED
    BY <2>1
<1>2. ASSUME NEW m \in 1..N, From(m - 1) PROVE From(m)
  <2>1. PICK f \in [0..(m - 1) -> S] :
          f[0] = x /\ \A i \in 1..(m - 1) : f[i] = F[f[i - 1]]
    BY <1>2
  <2> DEFINE g == [i \in 0..m |-> IF i = m THEN F[f[m - 1]] ELSE f[i]]
  <2>2. m \in Nat /\ m >= 1 /\ m - 1 \in 0..(m - 1) /\ m # 0
    OBVIOUS
  <2>3. F[f[m - 1]] \in S
    BY <2>1, <2>2
  <2>4. \A i \in 0..m : i # m => i \in 0..(m - 1)
    BY <2>2
  <2>5. g \in [0..m -> S]
    BY <2>3, <2>4
  <2>6. g[0] = x
    BY <2>1, <2>2
  <2>7. ASSUME NEW i \in 1..m PROVE g[i] = F[g[i - 1]]
    <3>1. i - 1 \in 0..m /\ i - 1 # m /\ i \in 0..m
      BY <2>2
    <3>2. g[i - 1] = f[i - 1]
      BY <3>1
    <3>3. CASE i = m
      BY <3>1, <3>2, <3>3
    <3>4. CASE i # m
      <4>1. i \in 1..(m - 1) /\ g[i] = f[i]
        BY <2>2, <3>1, <3>4
      <4>2. QED
        BY <2>1, <3>2, <4>1
    <3>5. QED
      BY <3>3, <3>4
  <2> HIDE DEF g
  <2>8. QED
    BY <2>5, <2>6, <2>7
<1> HIDE DEF From
<1>3. Bad = {}
  <2>1. SUFFICES ASSUME Bad # {} PROVE FALSE
    OBVIOUS
  <2>2. Bad \subseteq Nat
    OBVIOUS
  <2>3. Min(Bad) \in Bad /\ \A y \in Bad : Min(Bad) <= y
    BY <2>1, <2>2, SmallestNumber
  <2> DEFINE m == Min(Bad)
  <2>4. m \in 0..N /\ ~From(m) /\ \A y \in 0..N : ~From(y) => m <= y
    BY <2>3
  <2> HIDE DEF m
  <2>5. m # 0
    BY <1>1, <2>4
  <2>6. m \in 1..N /\ m - 1 \in 0..N /\ ~(m <= m - 1)
    BY <2>4, <2>5
  <2>7. From(m - 1)
    BY <2>4, <2>6
  <2>8. QED
    BY <1>2, <2>4, <2>6, <2>7
<1>4. From(N)
  BY <1>3
<1>5. QED
  BY <1>4 DEF From, IsWalk

\* A walk cannot be longer than there are nodes.
LEMMA NodesAreFinite == IsFiniteSet(Nodes) /\ Cardinality(Nodes) \in Nat
<1>1. IsFiniteSet(Buckets) /\ IsFiniteSet(Elements)
  BY HashTableAssumption, FS_Interval DEF Buckets
<1>2. IsFiniteSet(Nodes)
  BY <1>1, FS_Union DEF Nodes
<1>3. QED
  BY <1>2, FS_CardinalityType

\* From the head of a bucket the links lead from node to node of its ring.
LEMMA NthIs ==
    ASSUME TableInv, NEW b \in Buckets, NEW N, N = Cardinality(Nodes)
    PROVE  /\ DOMAIN Nth(b) = 0..N /\ Nth(b)[0] = Flink[b]
           /\ \A n \in 1..N : Nth(b)[n] = Flink[Nth(b)[n - 1]]
           /\ \A n \in 0..N : Nth(b)[n] \in RingOf(b)
<1> DEFINE Step1(g) == [n \in 0..N |-> IF n = 0 THEN Flink[b] ELSE Flink[g[n - 1]]]
           h == CHOOSE g : g = Step1(g)
<1>1. N \in Nat
  BY NodesAreFinite
<1>2. \A n \in RingOf(b) : Flink[n] \in RingOf(b)
  BY DEF TableInv, Linked, RingOf
<1>3. Flink[b] \in RingOf(b)
  BY <1>2 DEF RingOf
<1>4. PICK f \in [0..N -> RingOf(b)] : f[0] = Flink[b] /\ \A i \in 1..N : f[i] = Flink[f[i - 1]]
  <2>1. \E f : IsWalk(f, RingOf(b), Flink[b], Flink, N)
    BY <1>1, <1>2, <1>3, WalksExist
  <2>2. QED
    BY <2>1 DEF IsWalk
<1>5. \A n \in 0..N : n = 0 \/ n \in 1..N
  BY <1>1
<1>6. f = Step1(f)
  BY <1>4, <1>5
<1>7. h = Step1(h)
  BY <1>6
<1>8. Nth(b) = h
  BY DEF Nth
<1> HIDE DEF h
<1>9. DOMAIN h = 0..N /\ h[0] = Flink[b] /\ \A n \in 1..N : h[n] = Flink[h[n - 1]]
  <2>1. DOMAIN h = 0..N /\ \A n \in 0..N : h[n] = IF n = 0 THEN Flink[b] ELSE Flink[h[n - 1]]
    BY <1>7
  <2>2. 0 \in 0..N /\ \A n \in 1..N : n \in 0..N /\ n # 0
    BY <1>1
  <2>3. QED
    BY <2>1, <2>2
<1>10. \A n \in 0..N : h[n] \in RingOf(b)
  <2> DEFINE Bad == {n \in 0..N : h[n] \notin RingOf(b)}
  <2>1. SUFFICES ASSUME Bad # {} PROVE FALSE
    OBVIOUS
  <2>2. Bad \subseteq Nat
    BY <1>1
  <2>3. Min(Bad) \in Bad /\ \A y \in Bad : Min(Bad) <= y
    BY <2>1, <2>2, SmallestNumber
  <2> DEFINE m == Min(Bad)
  <2>4. m \in 0..N /\ h[m] \notin RingOf(b) /\ \A y \in 0..N : h[y] \notin RingOf(b) => m <= y
    BY <2>3
  <2> HIDE DEF m
  <2>5. m # 0
    BY <1>3, <1>9, <2>4
  <2>6. m \in 1..N /\ m - 1 \in 0..N /\ ~(m <= m - 1)
    BY <1>1, <2>4, <2>5
  <2>7. h[m - 1] \in RingOf(b)
    BY <2>4, <2>6
  <2>8. QED
    BY <1>2, <1>9, <2>4, <2>6, <2>7
<1>11. QED
  BY <1>8, <1>9, <1>10

\* The keys ascend, so that the links come back to the head.
LEMMA SearchEnds ==
    ASSUME TableInv, NEW b \in Buckets
    PROVE  \E n \in DOMAIN Nth(b) : Nth(b)[n] = b
<1> DEFINE N == Cardinality(Nodes)
           nth == Nth(b)
<1>1. N \in Nat /\ IsFiniteSet(Nodes)
  BY NodesAreFinite
<1>2. /\ DOMAIN nth = 0..N
      /\ \A n \in 1..N : nth[n] = Flink[nth[n - 1]]
      /\ \A n \in 0..N : nth[n] \in RingOf(b)
  BY NthIs
<1> HIDE DEF N
<1>3. SUFFICES ASSUME \A n \in 0..N : nth[n] # b PROVE FALSE
  BY <1>2
<1>4. \A n \in 0..N : /\ nth[n] \in Nodes /\ nth[n] \in RingOf(b) /\ KeyOf[nth[n]] \in Nat
  BY <1>2, <1>3, RingIs
<1> HIDE DEF nth
<1>5. ASSUME NEW n \in 1..N PROVE KeyOf[nth[n - 1]] < KeyOf[nth[n]]
  <2>1. n - 1 \in 0..N /\ n \in 0..N
    BY <1>1
  <2>2. Adjacent(nth[n - 1], Flink[nth[n - 1]], b, Chain(b))
    BY <1>4, <2>1 DEF TableInv, Linked, RingOf
  <2>3. QED
    BY <1>2, <1>3, <2>1, <2>2 DEF Adjacent, After
<1>6. ASSUME NEW i \in 0..N, NEW j \in 0..N, i < j PROVE KeyOf[nth[i]] < KeyOf[nth[j]]
  <2> DEFINE Bad == {k \in 0..N : i < k /\ ~(KeyOf[nth[i]] < KeyOf[nth[k]])}
  <2>1. SUFFICES ASSUME Bad # {} PROVE FALSE
    BY <1>6
  <2>2. Bad \subseteq Nat
    BY <1>1
  <2>3. Min(Bad) \in Bad /\ \A y \in Bad : Min(Bad) <= y
    BY <2>1, <2>2, SmallestNumber
  <2> DEFINE m == Min(Bad)
  <2>4. /\ m \in 0..N /\ i < m /\ ~(KeyOf[nth[i]] < KeyOf[nth[m]])
        /\ \A y \in 0..N : i < y /\ ~(KeyOf[nth[i]] < KeyOf[nth[y]]) => m <= y
    BY <2>3
  <2> HIDE DEF m
  <2>5. m \in 1..N /\ m - 1 \in 0..N /\ ~(m <= m - 1)
    BY <1>1, <2>4
  <2>6. KeyOf[nth[m - 1]] < KeyOf[nth[m]]
    BY <1>5, <2>5
  <2>7. i = m - 1 \/ i < m - 1
    BY <1>1, <2>4
  <2>8. i = m - 1 \/ KeyOf[nth[i]] < KeyOf[nth[m - 1]]
    BY <2>4, <2>5, <2>7
  <2>9. KeyOf[nth[i]] \in Nat /\ KeyOf[nth[m]] \in Nat /\ KeyOf[nth[m - 1]] \in Nat
    BY <1>4, <2>4, <2>5
  <2>10. QED
    BY <2>4, <2>6, <2>8, <2>9
<1> DEFINE f == [n \in 0..N |-> nth[n]]
<1>7. IsFiniteSet(0..N) /\ Cardinality(0..N) = N + 1
  BY <1>1, FS_Interval
<1>8. f \in [0..N -> Nodes]
  BY <1>4
<1>9. PICK x \in 0..N, y \in 0..N : x # y /\ f[x] = f[y]
  <2>1. Cardinality(Nodes) < Cardinality(0..N)
    BY <1>1, <1>7 DEF N
  <2> HIDE DEF f
  <2>2. QED
    BY <1>1, <1>7, <1>8, <2>1, FS_PigeonHole
<1>10. nth[x] = nth[y] /\ (x < y \/ y < x)
  BY <1>1, <1>9
<1>11. KeyOf[nth[x]] \in Nat /\ KeyOf[nth[x]] = KeyOf[nth[y]]
  BY <1>4, <1>10
<1>12. KeyOf[nth[x]] < KeyOf[nth[y]] \/ KeyOf[nth[y]] < KeyOf[nth[x]]
  BY <1>6, <1>10
<1>13. QED
  BY <1>11, <1>12

\* ListSearchForElement stops at the first element whose key is not smaller.
LEMMA SearchStopIs ==
    ASSUME TableInv, NEW b \in Buckets, NEW key \in Nat, NEW m, m = SearchStop(b, key)
    PROVE  /\ m \in RingOf(b)
           /\ m # b => KeyOf[m] >= key
           /\ \A e \in Chain(b) : KeyOf[e] >= key => m # b /\ KeyOf[m] <= KeyOf[e]
<1> DEFINE N == Cardinality(Nodes)
           nth == Nth(b)
           stops(n) == nth[n] = b \/ KeyOf[nth[n]] >= key
           First(n) == stops(n) /\ \A i \in 0..n - 1 : ~stops(i)
           Stops == {n \in 0..N : stops(n)}
           place == CHOOSE n \in DOMAIN nth : First(n)
<1>1. N \in Nat
  BY NodesAreFinite
<1>2. /\ DOMAIN nth = 0..N /\ nth[0] = Flink[b]
      /\ \A n \in 1..N : nth[n] = Flink[nth[n - 1]]
      /\ \A n \in 0..N : nth[n] \in RingOf(b)
  BY NthIs
<1>3. m = nth[place]
  BY DEF SearchStop
<1> HIDE DEF N
<1>4. \E n \in 0..N : First(n)
  <2>1. Stops # {} /\ Stops \subseteq Nat
    BY <1>1, <1>2, SearchEnds
  <2>2. Min(Stops) \in Stops /\ \A y \in Stops : Min(Stops) <= y
    BY <2>1, SmallestNumber
  <2> DEFINE s == Min(Stops)
  <2> HIDE DEF nth
  <2>3. s \in 0..N /\ stops(s) /\ \A y \in 0..N : stops(y) => s <= y
    BY <2>2
  <2> HIDE DEF s, stops
  <2>4. ASSUME NEW i \in 0..s - 1 PROVE ~stops(i)
    <3>1. i \in 0..N /\ ~(s <= i)
      BY <1>1, <2>3
    <3>2. QED
      BY <2>3, <3>1
  <2>5. QED
    BY <2>3, <2>4
<1> HIDE DEF nth
<1>5. place \in 0..N /\ First(place)
  <2> HIDE DEF First
  <2>1. QED
    BY <1>2, <1>4
<1> HIDE DEF place
<1>6. m \in RingOf(b) /\ (m # b => KeyOf[m] >= key)
  BY <1>2, <1>3, <1>5
<1>7. PICK p \in RingOf(b) : /\ Flink[p] = m
                             /\ p = b \/ ~(KeyOf[p] >= key)
  <2>1. CASE place = 0
    BY <1>2, <1>3, <2>1 DEF RingOf
  <2>2. CASE place # 0
    <3>1. place \in 1..N /\ place - 1 \in 0..N /\ place - 1 \in 0..place - 1
      BY <1>1, <1>5, <2>2
    <3>2. Flink[nth[place - 1]] = m /\ nth[place - 1] \in RingOf(b) /\ ~stops(place - 1)
      BY <1>2, <1>3, <1>5, <3>1
    <3>3. QED
      BY <3>2
  <2>3. QED
    BY <2>1, <2>2
<1>8. ASSUME NEW e \in Chain(b), KeyOf[e] >= key PROVE m # b /\ KeyOf[m] <= KeyOf[e]
  <2>1. Adjacent(p, m, b, Chain(b))
    BY <1>7 DEF TableInv, Linked, RingOf
  <2>2. e \in RingOf(b) /\ e # b /\ KeyOf[e] \in Nat
    BY RingIs, TableConstants DEF RingOf, Chain, In
  <2>3. Before(p, e, b)
    <3>1. p # b => KeyOf[p] \in Nat /\ ~(KeyOf[p] >= key)
      BY <1>7, RingIs
    <3>2. QED
      BY <1>8, <2>2, <3>1 DEF Before
  <2>4. ~After(m, e, b)
    BY <1>8, <2>1, <2>3 DEF Adjacent
  <2>5. m # b => KeyOf[m] \in Nat
    BY <1>6, RingIs
  <2>6. QED
    BY <2>2, <2>4, <2>5 DEF After
<1>9. QED
  BY <1>6, <1>8

\* Lookup finds the element with the key, if one is in.
LEMMA LookupIs ==
    ASSUME TableInv, NEW key \in Nat
    PROVE  /\ \A e \in In : KeyOf[e] = key => HashTableLookup(key) = e
           /\ (\A e \in In : KeyOf[e] # key) => HashTableLookup(key) = NoElement
           /\ IsFound(HashFunc(key), key) <=> \E e \in In : KeyOf[e] = key
<1> DEFINE b == HashFunc(key)
           m == SearchStop(b, key)
<1>1. b \in Buckets
  BY TableConstants
<1> HIDE DEF b
<1>2. /\ m \in RingOf(b)
      /\ m # b => KeyOf[m] >= key
      /\ \A e \in Chain(b) : KeyOf[e] >= key => m # b /\ KeyOf[m] <= KeyOf[e]
  BY <1>1, SearchStopIs
<1> HIDE DEF m
<1>3. m # b => m \in In /\ KeyOf[m] \in Nat
  BY <1>1, <1>2, RingIs
<1>4. IsFound(b, key) <=> m # b /\ KeyOf[m] = key
  BY DEF IsFound, m
<1>5. HashTableLookup(key) = IF IsFound(b, key) THEN m ELSE NoElement
  BY DEF HashTableLookup, b, m
<1>6. ASSUME NEW e \in In, KeyOf[e] = key PROVE m = e /\ e # b
  <2>1. e \in Chain(b) /\ e \in Elements
    BY <1>6 DEF Chain, BucketOf, b, In
  <2>2. m # b /\ KeyOf[m] <= key /\ KeyOf[m] >= key
    BY <1>2, <1>6, <2>1
  <2>3. KeyOf[m] = key
    BY <1>3, <2>2
  <2>4. m = e
    BY <1>3, <1>6, <2>2, <2>3 DEF TableInv
  <2>5. QED
    BY <2>2, <2>4
<1>7. QED
  BY <1>3, <1>4, <1>5, <1>6 DEF b

-------------------------------------------------------------------------------
(* What the functions of the table do to it. *)

\* One ring is linked anew and no other node is touched.
LEMMA OneRingChanges ==
    ASSUME TableInv, NEW b \in Buckets, NEW chain, chain \subseteq Elements,
           IsLinked(Flink', Blink', b, chain), \A e \in chain : BucketOf(e) = b,
           \A n \in Nodes : n \notin RingOf(b) \union chain =>
               Flink'[n] = Flink[n] /\ Blink'[n] = Blink[n],
           \A e \in Chain(b) : e \notin chain => Flink'[e] = NoElement
    PROVE  /\ In' = (In \ Chain(b)) \union chain
           /\ \A c \in Buckets : IsLinked(Flink', Blink', c, Chain(c)')
<1>1. /\ Flink' \in [Nodes -> Nodes \union {NoElement}]
      /\ Blink' \in [Nodes -> Nodes \union {NoElement}]
      /\ \A c \in Buckets : IsLinked(Flink, Blink, c, Chain(c))
  BY TableIsRings DEF IsLinked, RingsInv
<1>2. \A e \in Elements : e \in Nodes /\ e # b
  BY TableConstants DEF Nodes
<1>3. \A e \in chain : Flink'[e] # NoElement
  BY ChainNodes DEF IsLinked, Linked
<1>4. ASSUME NEW e \in Elements PROVE e \in In' <=> e \in (In \ Chain(b)) \union chain
  <2>1. e \in In' <=> Flink'[e] # NoElement
    BY DEF In, IsIn
  <2>2. e \in In <=> Flink[e] # NoElement
    BY DEF In, IsIn
  <2>3. CASE e \in chain
    BY <1>3, <2>1, <2>3
  <2>4. CASE e \notin chain /\ e \in Chain(b)
    BY <2>1, <2>4
  <2>5. CASE e \notin chain /\ e \notin Chain(b)
    <3>1. Flink'[e] = Flink[e]
      BY <1>2, <2>5 DEF RingOf
    <3>2. QED
      BY <2>1, <2>2, <2>5, <3>1
  <2>6. QED
    BY <2>3, <2>4, <2>5
<1>5. In' = (In \ Chain(b)) \union chain
  BY <1>4 DEF In
<1>6. Chain(b)' = chain /\ \A c \in Buckets : c # b => Chain(c)' = Chain(c)
  <2>1. ASSUME NEW c \in Buckets
        PROVE  Chain(c)' = {e \in (In \ Chain(b)) \union chain : BucketOf(e) = c}
    BY <1>5 DEF Chain, BucketOf
  <2>2. Chain(b)' = chain
    <3>1. \A e \in In : BucketOf(e) = b => e \in Chain(b)
      BY DEF Chain
    <3>2. QED
      BY <2>1, <3>1
  <2>3. ASSUME NEW c \in Buckets, c # b PROVE Chain(c)' = Chain(c)
    BY <2>1, <2>3 DEF Chain
  <2>4. QED
    BY <2>2, <2>3
<1>7. ASSUME NEW c \in Buckets, c # b PROVE IsLinked(Flink', Blink', c, Chain(c))
  <2>1. \A n \in {c} \union Chain(c) : n \in Nodes /\ n \notin RingOf(b) \union chain
    BY <1>7, TableConstants DEF RingOf, Chain, In, Nodes
  <2>2. QED
    BY <1>1, <2>1, LinksStay
<1>8. QED
  BY <1>5, <1>6, <1>7

\* The neighbours of an element.
LEMMA NeighboursAre ==
    ASSUME TableInv, NEW b \in Buckets, NEW n \in RingOf(b)
    PROVE  /\ Flink[n] \in RingOf(b) /\ Blink[n] \in RingOf(b)
           /\ Blink[Flink[n]] = n /\ Flink[Blink[n]] = n
           /\ Adjacent(n, Flink[n], b, Chain(b)) /\ Adjacent(Blink[n], n, b, Chain(b))
BY DEF TableInv, Linked, RingOf

\* The elements that are in can be counted.
LEMMA InIsFinite == IsFiniteSet(In) /\ Cardinality(In) \in Nat
<1>1. IsFiniteSet(Elements) /\ In \subseteq Elements
  BY HashTableAssumption DEF In
<1>2. QED
  BY <1>1, FS_Subset, FS_CardinalityType

\* RemoveEntryList of an element.
LEMMA RemoveIs ==
    ASSUME TableInv, NEW e \in In, HashTableRemoveEntry(e)
    PROVE  TableInv' /\ In' = In \ {e}
<1> DEFINE b == BucketOf(e)
<1>1. /\ b \in Buckets /\ e \in Chain(b) /\ e \in RingOf(b) /\ e \in Elements /\ e # b
  BY ChainIs
<1>2. /\ Flink' = [Flink EXCEPT ![Blink[e]] = Flink[e], ![e] = NoElement]
      /\ Blink' = [Blink EXCEPT ![Flink[e]] = Blink[e], ![e] = NoElement]
      /\ NumberOfElements' = NumberOfElements - 1
  BY DEF HashTableRemoveEntry, RemoveEntryList
<1> HIDE DEF b
<1>3. IsLinked(Flink, Blink, b, Chain(b))
  BY <1>1, TableIsRings DEF RingsInv
<1>4. IsLinked(Flink', Blink', b, Chain(b) \ {e})
  BY <1>1, <1>2, <1>3, LinkAround
<1>5. /\ Blink[e] \in RingOf(b) /\ Flink[e] \in RingOf(b)
      /\ Flink \in [Nodes -> Nodes \union {NoElement}] /\ Blink \in [Nodes -> Nodes \union {NoElement}]
      /\ e \in Nodes
  BY <1>1, NeighboursAre DEF TableInv, Nodes
<1>6. /\ \A n \in Nodes : n \notin RingOf(b) => Flink'[n] = Flink[n] /\ Blink'[n] = Blink[n]
      /\ Flink'[e] = NoElement
  BY <1>1, <1>2, <1>5
<1>7. /\ In' = (In \ Chain(b)) \union (Chain(b) \ {e})
      /\ \A c \in Buckets : IsLinked(Flink', Blink', c, Chain(c)')
  <2> DEFINE chain == Chain(b) \ {e}
  <2>1. chain \subseteq Elements /\ \A f \in chain : BucketOf(f) = b
    BY DEF Chain, In
  <2>2. \A f \in Chain(b) : f \notin chain => Flink'[f] = NoElement
    BY <1>6
  <2>3. IsLinked(Flink', Blink', b, chain)
    BY <1>4
  <2> HIDE DEF chain
  <2>4. /\ In' = (In \ Chain(b)) \union chain
        /\ \A c \in Buckets : IsLinked(Flink', Blink', c, Chain(c)')
    BY <1>1, <1>6, <2>1, <2>2, <2>3, OneRingChanges
  <2>5. QED
    BY <2>4 DEF chain
<1>8. In' = In \ {e}
  BY <1>1, <1>7 DEF Chain
<1>9. NumberOfElements' = Cardinality(In')
  BY <1>2, <1>8, InIsFinite, FS_RemoveElement DEF TableInv
<1>10. TableInv'
  <2>1. RingsInv'
    BY <1>7, <1>9 DEF RingsInv
  <2>2. QED
    BY <2>1, TableIsRings, PTL
<1>11. QED
  BY <1>8, <1>10

\* An insert takes the place of the element with the same key, if there is one.
LEMMA InsertIs ==
    ASSUME TableInv, NEW e \in Elements, HashTableInsert(e)
    PROVE  TableInv' /\ In' = {f \in In : KeyOf[f] # KeyOf[e]} \union {e}
<1> DEFINE key == KeyOf[e]
           b == HashFunc(key)
           stop == SearchStop(b, key)
<1>1. key \in Nat /\ b \in Buckets /\ BucketOf(e) = b /\ e # b
  BY TableConstants DEF BucketOf
<1>2. e \notin In
  BY DEF HashTableInsert, In
<1>3. IF IsFound(b, key)
      THEN Replace(stop, e) /\ UNCHANGED NumberOfElements
      ELSE InsertHeadList(Blink[stop], e) /\ NumberOfElements' = NumberOfElements + 1
  BY DEF HashTableInsert, Placeholder
<1>4. IsFound(b, key) <=> stop # b /\ KeyOf[stop] = key
  BY DEF IsFound
<1> HIDE DEF b, key
<1>5. /\ stop \in RingOf(b)
      /\ stop # b => KeyOf[stop] >= key
      /\ \A f \in Chain(b) : KeyOf[f] >= key => stop # b /\ KeyOf[stop] <= KeyOf[f]
  BY <1>1, SearchStopIs
<1> HIDE DEF stop
<1>6. /\ Flink \in [Nodes -> Nodes \union {NoElement}] /\ Blink \in [Nodes -> Nodes \union {NoElement}]
      /\ IsLinked(Flink, Blink, b, Chain(b))
      /\ e \in Nodes /\ e \notin Chain(b) /\ e \notin RingOf(b)
  BY <1>1, <1>2, TableIsRings DEF RingsInv, TableInv, Nodes, Chain, RingOf
<1>7. \A n \in RingOf(b) : /\ n \in Nodes /\ n # e
                           /\ n # b => n \in Chain(b) /\ KeyOf[n] \in Nat
  BY <1>1, <1>6, RingIs DEF RingOf
<1>8. CASE IsFound(b, key)
  <2> DEFINE p == Blink[stop]
             m == Flink[stop]
             F1 == [Flink EXCEPT ![p] = m, ![stop] = NoElement]
             B1 == [Blink EXCEPT ![m] = p, ![stop] = NoElement]
             rest == Chain(b) \ {stop}
  <2>1. stop \in Chain(b) /\ KeyOf[stop] = key /\ stop # b /\ stop \in In /\ stop \in Elements
    BY <1>4, <1>5, <1>8 DEF RingOf, Chain, In
  <2>2. IsLinked(F1, B1, b, rest)
    BY <1>1, <1>6, <2>1, LinkAround
  <2>3. /\ p \in RingOf(b) /\ m \in RingOf(b) /\ Flink[p] = stop
        /\ Adjacent(p, stop, b, Chain(b)) /\ Adjacent(stop, m, b, Chain(b))
    BY <1>1, <1>5, NeighboursAre
  <2>4. /\ Flink' = [Flink EXCEPT ![e] = m, ![p] = e, ![stop] = NoElement]
        /\ Blink' = [Blink EXCEPT ![e] = p, ![m] = e, ![stop] = NoElement]
        /\ NumberOfElements' = NumberOfElements
    BY <1>3, <1>8 DEF Replace
  <2> HIDE DEF p, m
  <2>5. /\ p # b => KeyOf[p] < key
        /\ m # b => key < KeyOf[m]
    BY <2>1, <2>3 DEF Adjacent, After
  <2>6. p # stop /\ m # stop /\ p # e /\ m # e /\ stop # e
    BY <1>1, <1>5, <1>7, <2>1, <2>3, <2>5
  <2>7. p \in {b} \union rest
    BY <2>3, <2>6 DEF RingOf
  <2>8. p \in Nodes /\ m \in Nodes /\ stop \in Nodes
    BY <1>5, <1>7, <2>3
  <2>9. F1[p] = m
    BY <1>6, <2>6, <2>8
  <2>10. Flink' = [F1 EXCEPT ![e] = F1[p], ![p] = e]
    BY <1>6, <2>4, <2>6, <2>8, <2>9
  <2>11. Blink' = [B1 EXCEPT ![e] = p, ![F1[p]] = e]
    BY <1>6, <2>4, <2>6, <2>8, <2>9
  <2>12. Before(p, e, b) /\ After(F1[p], e, b)
    BY <2>5, <2>9 DEF Before, After, key
  <2>13. e \notin rest
    BY <1>6
  <2> HIDE DEF rest, F1, B1
  <2>14. IsLinked(Flink', Blink', b, rest \union {e})
    BY <1>1, <2>2, <2>7, <2>10, <2>11, <2>12, <2>13, LinkBetween
  <2>15. /\ In' = (In \ Chain(b)) \union (rest \union {e})
         /\ \A c \in Buckets : IsLinked(Flink', Blink', c, Chain(c)')
    <3> DEFINE chain == rest \union {e}
    <3>1. chain \subseteq Elements /\ \A f \in chain : BucketOf(f) = b
      BY <1>1 DEF rest, Chain, In
    <3>2. \A n \in Nodes : n \notin RingOf(b) \union chain =>
              Flink'[n] = Flink[n] /\ Blink'[n] = Blink[n]
      <4>1. \A n \in Nodes : n \notin RingOf(b) \union chain =>
                n # p /\ n # m /\ n # stop /\ n # e
        BY <1>5, <2>3
      <4>2. QED
        BY <1>6, <2>4, <4>1
    <3>3. \A f \in Chain(b) : f \notin chain => Flink'[f] = NoElement
      <4>1. Flink'[stop] = NoElement
        BY <1>6, <2>4, <2>8
      <4>2. QED
        BY <4>1 DEF rest
    <3> HIDE DEF chain
    <3>4. /\ In' = (In \ Chain(b)) \union chain
          /\ \A c \in Buckets : IsLinked(Flink', Blink', c, Chain(c)')
      BY <1>1, <2>14, <3>1, <3>2, <3>3, OneRingChanges DEF chain
    <3>5. QED
      BY <3>4 DEF chain
  <2>16. In' = (In \ {stop}) \union {e}
    BY <2>1, <2>15 DEF rest, Chain
  <2>17. \A f \in In : KeyOf[f] # key <=> f # stop
    BY <2>1 DEF TableInv
  <2>18. In' = {f \in In : KeyOf[f] # KeyOf[e]} \union {e}
    BY <2>16, <2>17 DEF key
  <2>19. NumberOfElements' = Cardinality(In')
    <3>1. IsFiniteSet(In \ {stop}) /\ Cardinality(In \ {stop}) = Cardinality(In) - 1
      BY <2>1, InIsFinite, FS_RemoveElement
    <3>2. Cardinality(In') = Cardinality(In) - 1 + 1
      BY <1>2, <2>16, <3>1, FS_AddElement
    <3>3. QED
      BY <2>4, <3>2, InIsFinite DEF TableInv
  <2>20. TableInv'
    <3>1. RingsInv'
      BY <2>15, <2>19 DEF RingsInv
    <3>2. QED
      BY <3>1, TableIsRings, PTL
  <2>21. QED
    BY <2>18, <2>20
<1>9. CASE ~IsFound(b, key)
  <2> DEFINE p == Blink[stop]
  <2>1. p \in RingOf(b) /\ Flink[p] = stop /\ Adjacent(p, stop, b, Chain(b))
    BY <1>1, <1>5, NeighboursAre
  <2>2. /\ Flink' = [Flink EXCEPT ![e] = Flink[p], ![p] = e]
        /\ Blink' = [Blink EXCEPT ![e] = p, ![Flink[p]] = e]
        /\ NumberOfElements' = NumberOfElements + 1
    BY <1>3, <1>9 DEF InsertHeadList
  <2> HIDE DEF p
  <2>3. After(Flink[p], e, b)
    <3>1. stop # b => KeyOf[stop] \in Nat /\ KeyOf[stop] >= key /\ KeyOf[stop] # key
      BY <1>4, <1>5, <1>7, <1>9
    <3>2. QED
      BY <1>1, <2>1, <3>1 DEF After, key
  <2>4. Before(p, e, b)
    <3>1. ASSUME p # b PROVE KeyOf[p] < key
      <4>1. p \in Chain(b) /\ KeyOf[p] \in Nat
        BY <1>7, <2>1, <3>1
      <4>2. stop = b \/ (KeyOf[stop] \in Nat /\ KeyOf[p] < KeyOf[stop])
        BY <1>5, <1>7, <2>1, <3>1 DEF Adjacent, After
      <4>3. QED
        BY <1>1, <1>5, <4>1, <4>2
    <3>2. QED
      BY <3>1 DEF Before, key
  <2>5. IsLinked(Flink', Blink', b, Chain(b) \union {e})
    <3>1. p \in {b} \union Chain(b)
      BY <2>1 DEF RingOf
    <3>2. QED
      BY <1>1, <1>6, <2>2, <2>3, <2>4, <3>1, LinkBetween
  <2>6. /\ In' = (In \ Chain(b)) \union (Chain(b) \union {e})
        /\ \A c \in Buckets : IsLinked(Flink', Blink', c, Chain(c)')
    <3> DEFINE chain == Chain(b) \union {e}
    <3>1. chain \subseteq Elements /\ \A f \in chain : BucketOf(f) = b
      BY <1>1 DEF Chain, In
    <3>2. \A n \in Nodes : n \notin RingOf(b) \union chain =>
              Flink'[n] = Flink[n] /\ Blink'[n] = Blink[n]
      <4>1. \A n \in Nodes : n \notin RingOf(b) \union chain => n # p /\ n # Flink[p] /\ n # e
        BY <1>5, <2>1
      <4>2. QED
        BY <1>6, <2>2, <4>1
    <3>3. \A f \in Chain(b) : f \notin chain => Flink'[f] = NoElement
      OBVIOUS
    <3> HIDE DEF chain
    <3>4. /\ In' = (In \ Chain(b)) \union chain
          /\ \A c \in Buckets : IsLinked(Flink', Blink', c, Chain(c)')
      BY <1>1, <2>5, <3>1, <3>2, <3>3, OneRingChanges DEF chain
    <3>5. QED
      BY <3>4 DEF chain
  <2>7. In' = In \union {e}
    BY <2>6 DEF Chain
  <2>8. \A f \in In : KeyOf[f] # key
    BY <1>1, <1>9, LookupIs DEF b
  <2>9. In' = {f \in In : KeyOf[f] # KeyOf[e]} \union {e}
    BY <2>7, <2>8 DEF key
  <2>10. NumberOfElements' = Cardinality(In')
    BY <1>2, <2>2, <2>7, InIsFinite, FS_AddElement DEF TableInv
  <2>11. TableInv'
    <3>1. RingsInv'
      BY <2>6, <2>10 DEF RingsInv
    <3>2. QED
      BY <3>1, TableIsRings, PTL
  <2>12. QED
    BY <2>9, <2>11
<1>10. QED
  BY <1>8, <1>9

-------------------------------------------------------------------------------
(* The table is kept. *)

\* An empty table: every head is linked to itself.
LEMMA TableStarts == HashTableInit => TableInv
<1> SUFFICES ASSUME HashTableInit PROVE TableInv
  OBVIOUS
<1>1. /\ Flink = [n \in Nodes |-> IF n \in Buckets THEN n ELSE NoElement] /\ Blink = Flink
      /\ NumberOfElements = 0
  BY DEF HashTableInit
<1>2. \A b \in Buckets : b \in Nodes /\ Flink[b] = b /\ Blink[b] = b
  BY <1>1 DEF Nodes
<1>3. In = {}
  BY <1>1, TableConstants DEF In, IsIn, Nodes
<1>4. \A b \in Buckets : Linked(Flink, Blink, b, Chain(b))
  BY <1>2, <1>3 DEF Linked, Chain, Adjacent
<1>5. QED
  BY <1>1, <1>3, <1>4, FS_EmptySet DEF TableInv, Nodes

\* What leaves the links alone leaves the table as it is.
LEMMA TableStays ==
    ASSUME TableInv, UNCHANGED <<Flink, Blink, NumberOfElements>>
    PROVE  TableInv' /\ In' = In /\ \A b : RingOf(b)' = RingOf(b)
<1>1. In' = In
  BY DEF In, IsIn
<1>2. \A b : Chain(b)' = Chain(b)
  BY <1>1 DEF Chain, BucketOf
<1>3. QED
  BY <1>1, <1>2 DEF TableInv, RingOf

\* HashTableRemove finds the element and removes it.
LEMMA RemoveKeyIs ==
    ASSUME TableInv, NEW key \in Keys, HashTableRemove(key)
    PROVE  \E e \in In : KeyOf[e] = key /\ TableInv' /\ In' = In \ {e}
<1>1. key \in Nat
  BY HashTableAssumption DEF Keys
<1>2. HashTableLookup(key) # NoElement /\ HashTableRemoveEntry(HashTableLookup(key))
  BY DEF HashTableRemove
<1>3. PICK e \in In : KeyOf[e] = key
  BY <1>1, <1>2, LookupIs
<1>4. HashTableLookup(key) = e
  BY <1>1, <1>3, LookupIs
<1>5. QED
  BY <1>2, <1>3, <1>4, RemoveIs

\* The user of an iterator removes an element that is in and has been returned.
LEMMA RemoveReturnedIs ==
    ASSUME TableInv, IterationInv, RemoveReturned
    PROVE  lastReturned \in In /\ lastReturned \in seen /\ TableInv' /\ In' = In \ {lastReturned}
<1>1. inside /\ lastReturned # NoElement /\ IsIn(lastReturned) /\ HashTableRemoveEntry(lastReturned)
  BY DEF RemoveReturned
<1>2. lastReturned \in seen /\ lastReturned \in In
  BY <1>1 DEF IterationInv, In
<1>3. QED
  BY <1>1, <1>2, RemoveIs

\* Every step keeps the table.
LEMMA TableKept == TableInv /\ IterationInv /\ [HashTableNext]_tableVars => TableInv'
<1> SUFFICES ASSUME TableInv, IterationInv, [HashTableNext]_tableVars PROVE TableInv'
  OBVIOUS
<1>1. ASSUME NEW e \in Elements, HashTableInsert(e) PROVE TableInv'
  BY <1>1, InsertIs
<1>2. ASSUME NEW key \in Keys, HashTableRemove(key) PROVE TableInv'
  BY <1>2, RemoveKeyIs
<1>3. CASE RemoveReturned
  BY <1>3, RemoveReturnedIs
<1>4. CASE \/ HashTableIteratorInit \/ ReturnEntry \/ NextBucket \/ IterationEnds
           \/ UNCHANGED tableVars
  <2>1. UNCHANGED <<Flink, Blink, NumberOfElements>>
    BY <1>4 DEF HashTableIteratorInit, ReturnEntry, NextBucket, IterationEnds, tableVars
  <2>2. QED
    BY <2>1, TableStays
<1>5. QED
  BY <1>1, <1>2, <1>3, <1>4 DEF HashTableNext

-------------------------------------------------------------------------------
(* The iterator. *)

\* The entry to return next has not been returned.
LEMMA CurrentIsNew ==
    ASSUME TableInv, IterationInv, inside, KeyIndex < MaxKeys
    PROVE  /\ KeyIndex \in Buckets /\ CurrentEntry \in RingOf(KeyIndex)
           /\ CurrentEntry # KeyIndex =>
                 /\ CurrentEntry \in In /\ CurrentEntry \in Elements /\ CurrentEntry \in due
                 /\ BucketOf(CurrentEntry) = KeyIndex /\ KeyOf[CurrentEntry] \in Nat
           /\ CurrentEntry \notin seen
<1>1. KeyIndex \in Buckets /\ KeyIndex \in Nat
  BY HashTableAssumption DEF IterationInv, Buckets
<1>2. CurrentEntry \in RingOf(KeyIndex)
  BY DEF IterationInv
<1>3. CurrentEntry # KeyIndex =>
          /\ CurrentEntry \in In /\ CurrentEntry \in Elements /\ CurrentEntry \in due
          /\ BucketOf(CurrentEntry) = KeyIndex /\ KeyOf[CurrentEntry] \in Nat
  BY <1>1, <1>2, RingIs DEF IterationInv
<1>4. CurrentEntry \notin seen
  <2>1. seen \subseteq Elements
    BY DEF IterationInv
  <2>2. CASE CurrentEntry = KeyIndex
    BY <1>1, <2>1, <2>2, TableConstants
  <2>3. CASE CurrentEntry # KeyIndex
    <3>1. ~After(CurrentEntry, CurrentEntry, KeyIndex)
      BY <1>3, <2>3 DEF After
    <3>2. ~(BucketOf(CurrentEntry) < KeyIndex)
      BY <1>1, <1>3, <2>3
    <3>3. QED
      BY <3>1, <3>2 DEF IterationInv
  <2>4. QED
    BY <2>2, <2>3
<1>5. QED
  BY <1>1, <1>2, <1>3, <1>4

\* Before the first iteration.
LEMMA IterationStarts == HashTableInit => IterationInv
BY HashTableAssumption DEF HashTableInit, IterationInv

\* At the start all that is in is ahead of the iterator.
LEMMA InitKeepsIteration ==
    ASSUME TableInv, IterationInv, HashTableIteratorInit
    PROVE  IterationInv'
<1>1. /\ inside' = TRUE /\ KeyIndex' = 0 /\ CurrentEntry' = Flink[0]
      /\ due' = In /\ seen' = {} /\ lastReturned' = NoElement
      /\ UNCHANGED <<Flink, Blink, NumberOfElements>>
  BY DEF HashTableIteratorInit, In
<1>2. In' = In /\ \A b : RingOf(b)' = RingOf(b)
  BY <1>1, TableStays
<1>3. 0 \in Buckets /\ 0 \in 0..MaxKeys /\ 0 < MaxKeys /\ 0 # MaxKeys
  BY HashTableAssumption DEF Buckets
<1>4. 0 \in RingOf(0)
  BY DEF RingOf
<1>5. Flink[0] \in RingOf(0) /\ Adjacent(0, Flink[0], 0, Chain(0))
  BY <1>3, <1>4, NeighboursAre
<1>6. ASSUME NEW e \in In PROVE ~(BucketOf(e) < 0) /\ ~(BucketOf(e) = 0 /\ After(Flink[0], e, 0))
  <2>1. BucketOf(e) \in Int /\ BucketOf(e) >= 0
    BY TableConstants DEF In
  <2>2. BucketOf(e) = 0 => e \in Chain(0)
    BY DEF Chain
  <2>3. QED
    BY <1>5, <2>1, <2>2 DEF Adjacent, Before
<1>7. In \subseteq Elements
  BY DEF In
<1>8. ASSUME NEW e \in In
      PROVE  ~(BucketOf(e)' < KeyIndex') /\ ~(BucketOf(e)' = KeyIndex' /\ After(CurrentEntry, e, KeyIndex)')
  BY <1>1, <1>6 DEF BucketOf, After, HashFunc
<1>9. QED
  BY <1>1, <1>2, <1>3, <1>5, <1>7, <1>8 DEF IterationInv

\* From one element to the next nothing is skipped.
LEMMA ReturnKeepsIteration ==
    ASSUME TableInv, IterationInv, ReturnEntry
    PROVE  IterationInv'
<1> DEFINE K == KeyIndex
           cur == CurrentEntry
<1>1. /\ inside /\ K < MaxKeys /\ cur # K
      /\ lastReturned' = cur /\ seen' = seen \union {cur} /\ CurrentEntry' = Flink[cur]
      /\ UNCHANGED <<Flink, Blink, NumberOfElements, KeyIndex, inside, due>>
  BY DEF ReturnEntry
<1>2. In' = In /\ \A b : RingOf(b)' = RingOf(b)
  BY <1>1, TableStays
<1>3. /\ K \in Buckets /\ cur \in RingOf(K) /\ cur \in In /\ cur \in Elements /\ cur \in due
      /\ BucketOf(cur) = K /\ KeyOf[cur] \in Nat
  BY <1>1, CurrentIsNew
<1>4. /\ due \subseteq Elements /\ seen \subseteq due /\ K \in 0..MaxKeys /\ K # MaxKeys
      /\ In \subseteq due /\ due \ In \subseteq seen
      /\ \A e \in due : e \in seen <=> \/ BucketOf(e) < K
                                       \/ BucketOf(e) = K /\ After(cur, e, K)
  BY <1>1, <1>3, TableConstants DEF IterationInv
<1>5. Flink[cur] \in RingOf(K) /\ Adjacent(cur, Flink[cur], K, Chain(K))
  BY <1>3, NeighboursAre
<1>6. Flink[cur] # K => KeyOf[Flink[cur]] \in Nat /\ KeyOf[cur] < KeyOf[Flink[cur]]
  BY <1>1, <1>3, <1>5, RingIs DEF Adjacent, After
<1>7. ASSUME NEW e \in due
      PROVE  e \in seen \union {cur} <=> \/ BucketOf(e) < K
                                         \/ BucketOf(e) = K /\ After(Flink[cur], e, K)
  <2>1. KeyOf[e] \in Nat /\ BucketOf(e) \in Int /\ K \in Int
    BY <1>3, <1>4, TableConstants
  <2>2. CASE e = cur
    BY <1>3, <1>6, <2>2 DEF After
  <2>3. CASE e # cur /\ e \in seen
    <3>1. BucketOf(e) < K \/ (BucketOf(e) = K /\ After(cur, e, K))
      BY <1>4, <2>3
    <3>2. After(cur, e, K) => After(Flink[cur], e, K)
      BY <1>1, <1>3, <1>6, <2>1 DEF After
    <3>3. QED
      BY <2>3, <3>1, <3>2
  <2>4. CASE e # cur /\ e \notin seen
    <3>1. e \in In /\ ~(BucketOf(e) < K) /\ (BucketOf(e) = K => ~After(cur, e, K))
      BY <1>4, <2>4
    <3>2. ASSUME BucketOf(e) = K PROVE ~After(Flink[cur], e, K)
      <4>1. e \in Chain(K)
        BY <3>1, <3>2 DEF Chain
      <4>2. KeyOf[e] # KeyOf[cur]
        BY <1>3, <2>4, <3>1 DEF TableInv
      <4>3. Before(cur, e, K)
        BY <1>3, <2>1, <3>1, <3>2, <4>2 DEF After, Before
      <4>4. QED
        BY <1>5, <4>1, <4>3 DEF Adjacent
    <3>3. QED
      BY <2>4, <3>1, <3>2
  <2>5. QED
    BY <2>2, <2>3, <2>4
<1>8. ASSUME NEW e \in due
      PROVE  e \in seen' <=> \/ BucketOf(e)' < KeyIndex'
                             \/ BucketOf(e)' = KeyIndex' /\ After(CurrentEntry, e, KeyIndex)'
  BY <1>1, <1>7 DEF BucketOf, HashFunc, After
<1>9. /\ due' \subseteq Elements /\ seen' \subseteq due' /\ KeyIndex' \in 0..MaxKeys
      /\ KeyIndex' # MaxKeys /\ inside' /\ In' \subseteq due' /\ due' \ In' \subseteq seen'
      /\ CurrentEntry' \in RingOf(KeyIndex)' /\ lastReturned' \in seen'
  BY <1>1, <1>2, <1>3, <1>4, <1>5
<1>10. QED
  BY <1>1, <1>8, <1>9 DEF IterationInv

\* A bucket that is done has no element that was not returned.
LEMMA NextBucketKeepsIteration ==
    ASSUME TableInv, IterationInv, NextBucket
    PROVE  IterationInv'
<1> DEFINE K == KeyIndex
           next == Flink[K + 1]
<1>1. /\ inside /\ K < MaxKeys /\ CurrentEntry = K
      /\ IF K + 1 < MaxKeys THEN KeyIndex' = K + 1 /\ CurrentEntry' = next
                            ELSE KeyIndex' = MaxKeys /\ CurrentEntry' = NoElement
      /\ UNCHANGED <<Flink, Blink, NumberOfElements, inside, lastReturned, due, seen>>
  BY DEF NextBucket, HasBucket
<1>2. In' = In /\ \A b : RingOf(b)' = RingOf(b)
  BY <1>1, TableStays
<1>3. /\ due \subseteq Elements /\ seen \subseteq due /\ K \in 0..MaxKeys
      /\ In \subseteq due /\ due \ In \subseteq seen
      /\ lastReturned # NoElement => lastReturned \in seen
      /\ \A e \in due : e \in seen <=> BucketOf(e) < K \/ BucketOf(e) = K
  BY <1>1 DEF IterationInv, After
<1>4. \A e \in due : BucketOf(e) \in Int /\ BucketOf(e) >= 0 /\ BucketOf(e) < MaxKeys
  BY <1>3, TableConstants
<1>5. MaxKeys \in Nat \ {0}
  BY HashTableAssumption
<1>6. CASE K + 1 < MaxKeys
  <2>1. K + 1 \in Buckets /\ K + 1 \in 0..MaxKeys /\ K + 1 # MaxKeys
    BY <1>3, <1>5, <1>6 DEF Buckets
  <2>2. next \in RingOf(K + 1) /\ Adjacent(K + 1, next, K + 1, Chain(K + 1))
    BY <2>1, NeighboursAre DEF RingOf
  <2>3. ASSUME NEW e \in due
        PROVE  e \in seen <=> \/ BucketOf(e) < K + 1
                              \/ BucketOf(e) = K + 1 /\ After(next, e, K + 1)
    <3>1. e \in seen <=> BucketOf(e) < K + 1
      BY <1>3, <1>4
    <3>2. ASSUME BucketOf(e) = K + 1 PROVE ~After(next, e, K + 1)
      <4>1. e \notin seen
        BY <1>3, <3>1, <3>2
      <4>2. e \in Chain(K + 1)
        BY <1>3, <3>2, <4>1 DEF Chain
      <4>3. QED
        BY <2>2, <4>2 DEF Adjacent, Before
    <3>3. QED
      BY <3>1, <3>2
  <2>4. ASSUME NEW e \in due
        PROVE  e \in seen' <=> \/ BucketOf(e)' < KeyIndex'
                               \/ BucketOf(e)' = KeyIndex' /\ After(CurrentEntry, e, KeyIndex)'
    BY <1>1, <1>6, <2>3 DEF BucketOf, HashFunc, After
  <2>5. /\ due' \subseteq Elements /\ seen' \subseteq due' /\ KeyIndex' \in 0..MaxKeys
        /\ KeyIndex' # MaxKeys /\ inside' /\ In' \subseteq due' /\ due' \ In' \subseteq seen'
        /\ CurrentEntry' \in RingOf(KeyIndex)'
        /\ lastReturned' # NoElement => lastReturned' \in seen'
    BY <1>1, <1>2, <1>3, <1>6, <2>1, <2>2
  <2>6. QED
    BY <1>1, <2>4, <2>5 DEF IterationInv
<1>7. CASE ~(K + 1 < MaxKeys)
  <2>1. KeyIndex' = MaxKeys /\ CurrentEntry' = NoElement /\ K + 1 = MaxKeys
    BY <1>1, <1>3, <1>5, <1>7
  <2>2. seen = due
    BY <1>3, <1>4, <2>1
  <2>3. ASSUME NEW e \in due PROVE e \in seen' /\ BucketOf(e)' < KeyIndex'
    BY <1>1, <1>4, <2>1, <2>2 DEF BucketOf, HashFunc
  <2>4. /\ due' \subseteq Elements /\ seen' \subseteq due' /\ KeyIndex' \in 0..MaxKeys
        /\ seen' = due' /\ inside' /\ In' \subseteq due' /\ due' \ In' \subseteq seen'
        /\ ~(KeyIndex' < MaxKeys)
        /\ lastReturned' # NoElement => lastReturned' \in seen'
    BY <1>1, <1>2, <1>3, <1>5, <2>1, <2>2
  <2>5. QED
    BY <1>1, <2>1, <2>3, <2>4 DEF IterationInv
<1>8. QED
  BY <1>6, <1>7

\* What is removed has been returned, and the next entry is another one.
LEMMA RemovalKeepsIteration ==
    ASSUME TableInv, IterationInv, RemoveReturned
    PROVE  IterationInv'
<1>1. /\ inside
      /\ UNCHANGED <<KeyIndex, CurrentEntry, inside, lastReturned, due, seen>>
  BY DEF RemoveReturned
<1>2. lastReturned \in In /\ lastReturned \in seen /\ In' = In \ {lastReturned}
  BY RemoveReturnedIs
<1>3. In' \subseteq due /\ due \ In' \subseteq seen
  BY <1>1, <1>2 DEF IterationInv
<1>4. KeyIndex < MaxKeys => CurrentEntry \in RingOf(KeyIndex)'
  <2>1. ASSUME KeyIndex < MaxKeys PROVE CurrentEntry \in RingOf(KeyIndex)'
    <3>1. CurrentEntry \in RingOf(KeyIndex) /\ CurrentEntry # lastReturned
      BY <1>1, <1>2, <2>1, CurrentIsNew
    <3>2. QED
      BY <1>1, <1>2, <3>1 DEF RingOf, Chain, BucketOf
  <2>2. QED
    BY <2>1
<1>5. seen = {e \in due : \/ BucketOf(e)' < KeyIndex
                          \/ BucketOf(e)' = KeyIndex /\ After(CurrentEntry, e, KeyIndex)}
  BY <1>1 DEF IterationInv, BucketOf
<1>6. QED
  BY <1>1, <1>3, <1>4, <1>5 DEF IterationInv

\* Every step keeps what is known of the iterator.
LEMMA IterationKept == TableInv /\ IterationInv /\ [HashTableNext]_tableVars => IterationInv'
<1> SUFFICES ASSUME TableInv, IterationInv, [HashTableNext]_tableVars PROVE IterationInv'
  OBVIOUS
<1>1. ASSUME /\ UNCHANGED <<KeyIndex, CurrentEntry, due, seen>> /\ ~inside'
             /\ inside => KeyIndex = MaxKeys
      PROVE  IterationInv'
  BY <1>1 DEF IterationInv
<1>2. ASSUME NEW e \in Elements, HashTableInsert(e) PROVE IterationInv'
  BY <1>1, <1>2 DEF HashTableInsert
<1>3. ASSUME NEW key \in Keys, HashTableRemove(key) PROVE IterationInv'
  BY <1>1, <1>3 DEF HashTableRemove
<1>4. CASE IterationEnds
  BY <1>1, <1>4 DEF IterationEnds
<1>5. CASE UNCHANGED tableVars
  <2>1. UNCHANGED <<Flink, Blink, NumberOfElements, KeyIndex, CurrentEntry, inside, lastReturned, due, seen>>
    BY <1>5 DEF tableVars
  <2>2. In' = In /\ \A b : RingOf(b)' = RingOf(b)
    BY <2>1, TableStays
  <2>3. QED
    BY <2>1, <2>2 DEF IterationInv, BucketOf
<1>6. QED
  BY <1>2, <1>3, <1>4, <1>5, InitKeepsIteration, ReturnKeepsIteration, NextBucketKeepsIteration,
     RemovalKeepsIteration DEF HashTableNext

\* Both together are inductive.
LEMMA TableInvariant == HashTableSpec => [](TableInv /\ IterationInv)
<1>1. HashTableInit => TableInv /\ IterationInv
  BY TableStarts, IterationStarts
<1>2. (TableInv /\ IterationInv) /\ [HashTableNext]_tableVars => (TableInv /\ IterationInv)'
  BY TableKept, IterationKept
<1>3. QED
  BY <1>1, <1>2, PTL DEF HashTableSpec

\* An iteration returns every element there was when it began, each once, although its
\* user removes what it is given (hash_table.c, HashTableIteratorNext, HashTableClear).
THEOREM IterationsAreComplete == HashTableSpec => []IterationIsComplete
<1>1. TableInv /\ IterationInv => IterationIsComplete
  <2>1. SUFFICES ASSUME TableInv, IterationInv PROVE IterationIsComplete
    OBVIOUS
  <2>2. KeyIndex = MaxKeys => seen = due /\ CurrentEntry \notin Elements
    BY <2>1, TableConstants DEF IterationInv
  <2>3. ASSUME KeyIndex # MaxKeys, CurrentEntry \in Elements
        PROVE  IsIn(CurrentEntry) /\ CurrentEntry \notin seen
    <3>1. KeyIndex < MaxKeys /\ KeyIndex \in Buckets
      BY <2>1, <2>3, HashTableAssumption DEF IterationInv, Buckets
    <3>2. CurrentEntry # KeyIndex
      BY <2>3, <3>1, TableConstants
    <3>3. inside
      BY <2>1, <2>3, <3>2 DEF IterationInv
    <3>4. QED
      BY <2>1, <3>1, <3>2, <3>3, CurrentIsNew DEF In
  <2>4. QED
    BY <2>2, <2>3 DEF IterationIsComplete
<1>2. QED
  BY <1>1, TableInvariant, PTL

-------------------------------------------------------------------------------
(* The dictionary. *)

Dict == [k \in Keys |-> HashTableLookup(k)]

\* What Dict holds is what is in.
LooksUp ==
    /\ \A k \in Keys : (\A e \in In : KeyOf[e] # k) => HashTableLookup(k) = NoElement
    /\ \A e \in In : KeyOf[e] \in Keys /\ HashTableLookup(KeyOf[e]) = e
    /\ NumberOfElements = Cardinality({k \in Keys : HashTableLookup(k) # NoElement})

\* The keys that find an element are as many as the elements that are in.
LEMMA TableLooksUp == TableInv => LooksUp
<1> SUFFICES ASSUME TableInv PROVE LooksUp
  OBVIOUS
<1>1. Keys \subseteq Nat
  BY HashTableAssumption DEF Keys
<1>2. \A e \in In : e \in Elements /\ KeyOf[e] \in Keys /\ KeyOf[e] \in Nat /\ e # NoElement
  BY <1>1, TableConstants DEF In, Keys
<1>3. \A e \in In : HashTableLookup(KeyOf[e]) = e
  BY <1>2, LookupIs
<1>4. \A k \in Keys : (\A e \in In : KeyOf[e] # k) => HashTableLookup(k) = NoElement
  BY <1>1, LookupIs
<1> DEFINE found == {k \in Keys : HashTableLookup(k) # NoElement}
           key == [e \in In |-> KeyOf[e]]
<1>5. key \in Bijection(In, found)
  <2>1. key \in [In -> found]
    BY <1>2, <1>3
  <2>2. \A e, f \in In : key[e] = key[f] => e = f
    BY DEF TableInv
  <2>3. \A k \in found : \E e \in In : key[e] = k
    BY <1>4
  <2> HIDE DEF found, key
  <2>4. key \in Injection(In, found)
    BY <2>1, <2>2 DEF Injection, IsInjective
  <2>5. key \in Surjection(In, found)
    BY <2>1, <2>3 DEF Surjection
  <2>6. QED
    BY <2>4, <2>5 DEF Bijection
<1>6. Cardinality(found) = Cardinality(In)
  <2> HIDE DEF found, key
  <2>1. ExistsBijection(In, found)
    BY <1>5 DEF ExistsBijection
  <2>2. QED
    BY <2>1, InIsFinite, FS_Bijection
<1>7. NumberOfElements = Cardinality(found)
  BY <1>6 DEF TableInv
<1>8. QED
  BY <1>2, <1>3, <1>4, <1>7 DEF LooksUp

\* One step of the dictionary under a key, given what is in afterwards.
LEMMA DictFollows ==
    ASSUME TableInv, TableInv', NEW k \in Keys, NEW new \in In' \union {NoElement},
           \A e \in In : KeyOf[e] # k => e \in In',
           \A e \in In' : KeyOf[e] # k => e \in In,
           \A e \in In' : KeyOf[e] = k => e = new,
           new # NoElement => KeyOf[new] = k
    PROVE  Dict' = [Dict EXCEPT ![k] = new]
<1>1. LooksUp
  BY TableLooksUp
<1>2. LooksUp'
  BY TableLooksUp, PTL
<1>3. NoElement \notin In'
  BY TableConstants DEF In
<1>4. /\ \A x \in Keys : (\A e \in In' : KeyOf[e] # x) => HashTableLookup(x)' = NoElement
      /\ \A e \in In' : KeyOf[e] \in Keys /\ HashTableLookup(KeyOf[e])' = e
  BY <1>2 DEF LooksUp
<1>5. HashTableLookup(k)' = new
  BY <1>3, <1>4
<1>6. ASSUME NEW x \in Keys, x # k PROVE HashTableLookup(x)' = HashTableLookup(x)
  <2>1. CASE \E e \in In : KeyOf[e] = x
    <3>1. PICK e \in In : KeyOf[e] = x
      BY <2>1
    <3>2. e \in In'
      BY <1>6, <3>1
    <3>3. HashTableLookup(KeyOf[e])' = e /\ HashTableLookup(KeyOf[e]) = e
      BY <1>1, <1>4, <3>2 DEF LooksUp
    <3>4. QED
      BY <3>1, <3>3
  <2>2. CASE \A e \in In : KeyOf[e] # x
    <3>1. \A e \in In' : KeyOf[e] # x
      BY <1>6, <2>2
    <3>2. QED
      BY <1>1, <1>4, <2>2, <3>1 DEF LooksUp
  <2>3. QED
    BY <2>1, <2>2
<1>7. Dict' = [x \in Keys |-> HashTableLookup(x)']
  BY DEF Dict
<1>8. QED
  BY <1>5, <1>6, <1>7 DEF Dict

\* Cardinality is the same in the abstract module.
LEMMA SameCardinality == \A S : AsDictionary!Cardinality(S) = Cardinality(S)
BY DEF AsDictionary!Cardinality, Cardinality

\* A hash table is a dictionary: however inserts, replacements and removals have relinked
\* the buckets, a key finds the element inserted last under it, until it is removed, and
\* NumberOfElements is the number of such keys (hash_table.c).
THEOREM HashTableImplementsDictionary == HashTableSpec => ImplementsDictionary
<1>1. HashTableInit => AsDictionary!DictInit
  <2>1. SUFFICES ASSUME HashTableInit PROVE AsDictionary!DictInit
    OBVIOUS
  <2>2. LooksUp
    BY <2>1, TableStarts, TableLooksUp
  <2>3. In = {} /\ NumberOfElements = 0
    BY <2>1, TableConstants DEF HashTableInit, In, IsIn, Nodes
  <2>4. QED
    BY <2>2, <2>3 DEF LooksUp, AsDictionary!DictInit
<1>2. TableInv /\ IterationInv /\ [HashTableNext]_tableVars
      => [AsDictionary!DictNext]_<<Dict, NumberOfElements>>
  <2>1. SUFFICES ASSUME TableInv, IterationInv, [HashTableNext]_tableVars
                 PROVE  AsDictionary!DictNext \/ UNCHANGED <<Dict, NumberOfElements>>
    OBVIOUS
  <2>2. TableInv' /\ LooksUp /\ LooksUp'
    <3>1. TableInv'
      BY <2>1, TableKept
    <3>2. LooksUp'
      BY <3>1, TableLooksUp, PTL
    <3>3. QED
      BY <2>1, <3>1, <3>2, TableLooksUp
  <2>3. NumberOfElements' = Cardinality({k \in Keys : HashTableLookup(k)' # NoElement})
    BY <2>2 DEF LooksUp
  <2>4. ASSUME NEW e \in Elements, HashTableInsert(e) PROVE AsDictionary!DictNext
    <3>1. In' = {f \in In : KeyOf[f] # KeyOf[e]} \union {e}
      BY <2>1, <2>4, InsertIs
    <3>2. KeyOf[e] \in Keys
      BY DEF Keys
    <3>3. Dict' = [Dict EXCEPT ![KeyOf[e]] = e]
      BY <2>1, <2>2, <3>1, <3>2, DictFollows
    <3>4. NumberOfElements' = Cardinality({k \in Keys : Dict'[k] # NoElement})
      <4>1. \A k \in Keys : Dict'[k] = HashTableLookup(k)'
        BY DEF Dict
      <4>2. {k \in Keys : Dict'[k] # NoElement} = {k \in Keys : HashTableLookup(k)' # NoElement}
        BY <4>1
      <4>3. QED
        BY <2>3, <4>2
    <3>5. AsDictionary!DictInsert(e)
      BY <3>3 DEF Dict, AsDictionary!DictInsert
    <3>6. QED
      BY <3>4, <3>5, SameCardinality DEF Dict, AsDictionary!DictNext
  <2>5. ASSUME NEW k \in Keys, NEW e \in In, KeyOf[e] = k, In' = In \ {e}
        PROVE  AsDictionary!DictNext
    <3>1. \A f \in In : KeyOf[f] = k => f = e
      BY <2>1, <2>5 DEF TableInv
    <3>2. Dict' = [Dict EXCEPT ![k] = NoElement]
      BY <2>1, <2>2, <2>5, <3>1, DictFollows
    <3>3. Dict[k] # NoElement
      BY <2>2, <2>5, TableConstants DEF LooksUp, Dict, In
    <3>4. NumberOfElements' = Cardinality({x \in Keys : Dict'[x] # NoElement})
      <4>1. \A x \in Keys : Dict'[x] = HashTableLookup(x)'
        BY DEF Dict
      <4>2. {x \in Keys : Dict'[x] # NoElement} = {x \in Keys : HashTableLookup(x)' # NoElement}
        BY <4>1
      <4>3. QED
        BY <2>3, <4>2
    <3>5. AsDictionary!DictRemove(k)
      BY <3>2, <3>3 DEF Dict, AsDictionary!DictRemove
    <3>6. QED
      BY <3>4, <3>5, SameCardinality DEF Dict, AsDictionary!DictNext
  <2>6. ASSUME NEW k \in Keys, HashTableRemove(k) PROVE AsDictionary!DictNext
    BY <2>1, <2>5, <2>6, RemoveKeyIs
  <2>7. CASE RemoveReturned
    <3>1. lastReturned \in In /\ In' = In \ {lastReturned}
      BY <2>1, <2>7, RemoveReturnedIs
    <3>2. KeyOf[lastReturned] \in Keys
      BY <2>2, <3>1 DEF LooksUp
    <3>3. QED
      BY <2>5, <3>1, <3>2
  <2>8. CASE \/ HashTableIteratorInit \/ ReturnEntry \/ NextBucket \/ IterationEnds
             \/ UNCHANGED tableVars
    <3>1. UNCHANGED <<Flink, Blink, NumberOfElements>>
      BY <2>8 DEF HashTableIteratorInit, ReturnEntry, NextBucket, IterationEnds, tableVars
    <3>2. Dict' = Dict
      BY <3>1 DEF Dict, HashTableLookup, IsFound, SearchStop, Nth
    <3>3. QED
      BY <3>1, <3>2
  <2>9. QED
    BY <2>1, <2>4, <2>6, <2>7, <2>8 DEF HashTableNext
<1>3. QED
  <2>1. [AsDictionary!DictNext]_<<Dict, NumberOfElements>>
        => [AsDictionary!DictNext]_<<[k \in Keys |-> HashTableLookup(k)], NumberOfElements>>
    BY DEF Dict
  <2>2. QED
    BY <1>1, <1>2, <2>1, TableInvariant, PTL
       DEF HashTableSpec, ImplementsDictionary, AsDictionary!DictSpec
================================================================================
